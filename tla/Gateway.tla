------------------------------- MODULE Gateway -------------------------------
(***************************************************************************)
(* Server.cpp and ClientRequest.cpp: the main thread selects on the listen *)
(* socket and the clients' sockets, cuts what it receives into packets and *)
(* pushes requests to the pool; the workers answer on the descriptor that  *)
(* the request carries, while the main thread closes descriptors and the   *)
(* system hands their numbers out again, to clients and to the workers'    *)
(* own device connections.                                                 *)
(*                                                                         *)
(* The pool is its abstraction, RequestDispatch, which ConnectionPool      *)
(* implements.  A packet is two halves, because TCP may cut it anywhere;   *)
(* parsing (CPSPacket) succeeds when the buffer starts with both.          *)
(***************************************************************************)
EXTENDS Naturals, Sequences, FiniteSets, Functions

CONSTANTS Connections,   \* the connections clients may make
          Workers,
          Packets,       \* the packets clients may send
          Commands,      \* the packets that are valid requests
          MaxFd,         \* bound: descriptors of the process
          MaxReconnects, \* bound: how often workers replace a device socket
          Nobody         \* no connection, no worker, no request

Fds == 1 .. MaxFd

ASSUME SetsAssumption ==
  /\ Commands \subseteq Packets
  /\ Nobody \notin Connections \cup Workers \cup Packets
  /\ MaxFd \in Nat /\ MaxReconnects \in Nat
  /\ Connections \cap Workers = {}

VARIABLES
  pc,                  \* where Server::Run is
  shutdownInProgress,
  clientSockets,       \* the list of descriptors
  readSet,             \* what select reported
  iter,                \* the position in clientSockets
  buffer,              \* what is left of the data received
  owner,               \* whose socket each descriptor is
  link,                \* each connection as the server's kernel sees it
  inbox,               \* what was sent on it and not received
  sender,              \* the connection each packet was sent on
  socket,              \* the descriptor in each ClientRequest
  pending, serving, fate,   \* the pool
  delivered,           \* history: where the responses to each packet went
  handled,             \* history: the packets the server has parsed
  cut,                 \* history: the connections on which a recv cut a packet
  reconnects

Pool == INSTANCE RequestDispatch WITH Requests <- Commands, NoRequest <- Nobody

loopVars == <<pc, readSet, iter, buffer>>
netVars == <<inbox, sender>>
poolVars == <<pending, serving, fate>>
historyVars == <<handled, cut>>
vars == <<loopVars, shutdownInProgress, clientSockets, owner, link, netVars, socket,
          poolVars, delivered, historyVars, reconnects>>

(* As in HLRConnector: "eof" closed by the peer, "reset" reset and not yet    *)
(* reported, "dead" reset after that.  "full": the client reads no more, and  *)
(* there is no room for another response.                                     *)
Links == {"unborn", "backlog", "open", "full", "eof", "reset", "dead", "closed"}
Accepted == {"open", "full", "eof", "reset", "dead"}

Whole(p) == << <<p, 1>>, <<p, 2>> >>

(* The system hands out the lowest number that is free. *)
FreeFds == {fd \in Fds : owner[fd] = Nobody}
Lowest(S) == CHOOSE x \in S : \A y \in S : x <= y

Init ==
  /\ pc = "select" /\ shutdownInProgress = FALSE
  /\ clientSockets = <<>> /\ readSet = {} /\ iter = 1 /\ buffer = <<>>
  /\ \E f \in [Workers -> 1 .. Cardinality(Workers)] :
       /\ IsInjective(f)
       /\ owner = [fd \in Fds |-> IF fd \in Range(f)
                                  THEN CHOOSE w \in Workers : f[w] = fd ELSE Nobody]
  /\ link = [c \in Connections |-> "unborn"]
  /\ inbox = [c \in Connections |-> <<>>]
  /\ sender = [p \in Packets |-> Nobody]
  /\ socket = [p \in Packets |-> 0]
  /\ Pool!Init
  /\ delivered = [p \in Packets |-> <<>>]
  /\ handled = {} /\ cut = {} /\ reconnects = 0

-----------------------------------------------------------------------------
(* Server::Run. *)

Readable(fd) ==
  LET c == owner[fd] IN inbox[c] # <<>> \/ link[c] \in {"eof", "reset", "dead"}

Backlog == {c \in Connections : link[c] = "backlog"}

(* select returns what is ready; with nothing ready it times out, which       *)
(* changes nothing.                                                           *)
Select ==
  /\ pc = "select" /\ ~shutdownInProgress
  /\ readSet' = {fd \in Range(clientSockets) : Readable(fd)}
  /\ pc' = IF Backlog # {} THEN "accept" ELSE "scan"
  /\ readSet' # {} \/ Backlog # {}
  /\ iter' = 1
  /\ UNCHANGED <<shutdownInProgress, clientSockets, buffer, owner, link, netVars, socket,
                 poolVars, delivered, historyVars, reconnects>>

RunReturns ==
  /\ pc = "select" /\ shutdownInProgress
  /\ pc' = "stopped"
  /\ UNCHANGED <<readSet, iter, buffer, shutdownInProgress, clientSockets, owner, link,
                 netVars, socket, poolVars, delivered, historyVars, reconnects>>

(* Faults for mutation: accept's result is not tested; the new client is not  *)
(* put on the list.                                                           *)
AcceptUntested ==
  /\ pc = "accept"
  /\ pc' = "scan"
  /\ \/ /\ FreeFds = {}
        /\ clientSockets' = Append(clientSockets, 0)
        /\ UNCHANGED <<owner, link>>
     \/ /\ FreeFds # {}
        /\ \E c \in Backlog :
             /\ link' = [link EXCEPT ![c] = "open"]
             /\ owner' = [owner EXCEPT ![Lowest(FreeFds)] = c]
        /\ clientSockets' = Append(clientSockets, Lowest(FreeFds))
  /\ UNCHANGED <<readSet, iter, buffer, shutdownInProgress, netVars, socket, poolVars,
                 delivered, historyVars, reconnects>>

AcceptForgets ==
  /\ pc = "accept"
  /\ pc' = "scan"
  /\ FreeFds # {}
  /\ \E c \in Backlog :
       /\ link' = [link EXCEPT ![c] = "open"]
       /\ owner' = [owner EXCEPT ![Lowest(FreeFds)] = c]
  /\ UNCHANGED <<clientSockets, readSet, iter, buffer, shutdownInProgress, netVars,
                 socket, poolVars, delivered, historyVars, reconnects>>

(* ProcessIncomingConnection.  accept fails when no descriptor is free. *)
ProcessIncomingConnection ==
  /\ pc = "accept"
  /\ pc' = "scan"
  /\ \/ /\ FreeFds = {}
        /\ UNCHANGED <<clientSockets, owner, link>>
     \/ /\ FreeFds # {} /\ shutdownInProgress
        /\ \E c \in Backlog : link' = [link EXCEPT ![c] = "closed"]
        /\ UNCHANGED <<clientSockets, owner>>
     \/ /\ FreeFds # {} /\ ~shutdownInProgress
        /\ \E c \in Backlog :
             /\ link' = [link EXCEPT ![c] = "open"]
             /\ owner' = [owner EXCEPT ![Lowest(FreeFds)] = c]
        /\ clientSockets' = Append(clientSockets, Lowest(FreeFds))
  /\ UNCHANGED <<readSet, iter, buffer, shutdownInProgress, netVars, socket, poolVars,
                 delivered, historyVars, reconnects>>

ScanEnds ==
  /\ pc = "scan" /\ iter > Len(clientSockets)
  /\ pc' = "select"
  /\ readSet' = {} /\ iter' = 1
  /\ UNCHANGED <<buffer, shutdownInProgress, clientSockets, owner, link, netVars, socket,
                 poolVars, delivered, historyVars, reconnects>>

ScanSkips ==
  /\ pc = "scan" /\ iter <= Len(clientSockets)
  /\ clientSockets[iter] \notin readSet
  /\ iter' = iter + 1
  /\ UNCHANGED <<pc, readSet, buffer, shutdownInProgress, clientSockets, owner, link,
                 netVars, socket, poolVars, delivered, historyVars, reconnects>>

(* recv returns some of what was sent. *)
ScanReceives ==
  /\ pc = "scan" /\ iter <= Len(clientSockets)
  /\ clientSockets[iter] \in readSet
  /\ LET c == owner[clientSockets[iter]] IN
     \E n \in 1 .. Len(inbox[c]) :
       /\ buffer' = SubSeq(inbox[c], 1, n)
       /\ inbox' = [inbox EXCEPT ![c] = SubSeq(@, n + 1, Len(@))]
       /\ cut' = IF inbox[c][n][2] = 1 THEN cut \cup {c} ELSE cut
  /\ pc' = "parse"
  /\ UNCHANGED <<readSet, iter, shutdownInProgress, clientSockets, owner, link, sender,
                 socket, poolVars, delivered, handled, reconnects>>

(* Fault for mutation: the closed descriptor is not erased from the list. *)
ScanClosesOnly ==
  /\ pc = "scan" /\ iter <= Len(clientSockets)
  /\ clientSockets[iter] \in readSet
  /\ LET fd == clientSockets[iter] IN
     /\ inbox[owner[fd]] = <<>>
     /\ link' = [link EXCEPT ![owner[fd]] = "closed"]
     /\ owner' = [owner EXCEPT ![fd] = Nobody]
  /\ iter' = iter + 1
  /\ UNCHANGED <<pc, readSet, buffer, clientSockets, shutdownInProgress, netVars, socket,
                 poolVars, delivered, historyVars, reconnects>>

(* recv returns 0 or fails: the descriptor is closed and erased. *)
ScanCloses ==
  /\ pc = "scan" /\ iter <= Len(clientSockets)
  /\ clientSockets[iter] \in readSet
  /\ LET fd == clientSockets[iter] IN
     /\ inbox[owner[fd]] = <<>>
     /\ link' = [link EXCEPT ![owner[fd]] = "closed"]
     /\ owner' = [owner EXCEPT ![fd] = Nobody]
  /\ clientSockets' = [i \in 1 .. Len(clientSockets) - 1 |->
                         IF i < iter THEN clientSockets[i] ELSE clientSockets[i + 1]]
  /\ UNCHANGED <<loopVars, shutdownInProgress, netVars, socket, poolVars, delivered,
                 historyVars, reconnects>>

(* send on descriptor fd, of packet p's response, to whoever holds it.  An    *)
(* accepted socket blocks: a "full" connection has no outcome.  ("reset"      *)
(* reports an error, "dead" raises SIGPIPE.)                                  *)
Send(fd, p, outcome) ==
  LET to == owner[fd] IN
  \/ /\ to = Nobody                                     \* EBADF
     /\ outcome = "error"
     /\ UNCHANGED <<delivered, link>>
  \/ /\ to \in Workers \/ (to \in Connections /\ link[to] = "open")
     /\ outcome = "sent"
     /\ delivered' = [delivered EXCEPT ![p] = Append(@, to)]
     /\ UNCHANGED link
  \/ /\ to \in Connections /\ link[to] = "eof"
     /\ outcome = "sent"
     /\ \E l \in {"eof", "dead"} : link' = [link EXCEPT ![to] = l]
     /\ UNCHANGED delivered
  \/ /\ to \in Connections /\ link[to] = "reset"
     /\ outcome = "error"
     /\ link' = [link EXCEPT ![to] = "dead"]
     /\ UNCHANGED delivered
  \/ /\ to \in Connections /\ link[to] = "dead"
     /\ outcome = "killed"
     /\ UNCHANGED <<delivered, link>>

Blocks(fd) == owner[fd] \in Connections /\ link[owner[fd]] = "full"

Outcomes == {"sent", "error", "killed"}

(* ProcessIncomingData's loop and ProcessNextRequestFromBuffer. *)
ParseEnds ==
  /\ pc = "parse" /\ buffer = <<>>
  /\ pc' = "scan"
  /\ iter' = iter + 1
  /\ UNCHANGED <<readSet, buffer, shutdownInProgress, clientSockets, owner, link, netVars,
                 socket, poolVars, delivered, historyVars, reconnects>>

StartsWith(p) == Len(buffer) > 1 /\ SubSeq(buffer, 1, 2) = Whole(p)

(* PARSE_ERROR: the rest of the data is dropped. *)
ParseError ==
  /\ pc = "parse" /\ buffer # <<>>
  /\ \A p \in Packets : ~StartsWith(p)
  /\ buffer' = <<>>
  /\ UNCHANGED <<pc, readSet, iter, shutdownInProgress, clientSockets, owner, link,
                 netVars, socket, poolVars, delivered, historyVars, reconnects>>

(* Faults for mutation: the rejection goes to the first client of the list; a  *)
(* buffer is taken to hold one request.                                        *)
ParseRejectsToFirst(p) ==
  /\ pc = "parse" /\ StartsWith(p)
  /\ p \notin Commands
  /\ handled' = handled \cup {p}
  /\ \E outcome \in Outcomes : Send(clientSockets[1], p, outcome)
  /\ buffer' = SubSeq(buffer, 3, Len(buffer))
  /\ UNCHANGED <<pc, readSet, iter, shutdownInProgress, clientSockets, owner, netVars,
                 socket, poolVars, cut, reconnects>>

ParseAcceptsOne(p) ==
  /\ pc = "parse" /\ StartsWith(p)
  /\ p \in Commands
  /\ handled' = handled \cup {p}
  /\ socket' = [socket EXCEPT ![p] = clientSockets[iter]]
  /\ Pool!Submit(p)
  /\ buffer' = <<>>
  /\ UNCHANGED <<pc, readSet, iter, shutdownInProgress, clientSockets, owner, link,
                 netVars, delivered, cut, reconnects>>

(* A request of another type, or one that ValidateAndSetRequestParams         *)
(* refuses: SendNotAcceptedResponse.                                          *)
ParseRejects(p) ==
  /\ pc = "parse" /\ StartsWith(p)
  /\ p \notin Commands
  /\ handled' = handled \cup {p}
  /\ \E outcome \in Outcomes :
       /\ Send(clientSockets[iter], p, outcome)
       /\ pc' = IF outcome = "killed" THEN "killed" ELSE pc
  /\ buffer' = SubSeq(buffer, 3, Len(buffer))
  /\ UNCHANGED <<readSet, iter, shutdownInProgress, clientSockets, owner, netVars, socket,
                 poolVars, cut, reconnects>>

(* The handler of a signal runs in this thread: it calls Server::Stop, and    *)
(* the blocked send fails.                                                    *)
SendInterrupted(p) ==
  /\ pc = "parse" /\ StartsWith(p)
  /\ p \notin Commands
  /\ Blocks(clientSockets[iter])
  /\ shutdownInProgress' = TRUE
  /\ handled' = handled \cup {p}
  /\ buffer' = SubSeq(buffer, 3, Len(buffer))
  /\ UNCHANGED <<pc, readSet, iter, clientSockets, owner, link, netVars, socket,
                 poolVars, delivered, cut, reconnects>>

ParseAccepts(p) ==
  /\ pc = "parse" /\ StartsWith(p)
  /\ p \in Commands
  /\ handled' = handled \cup {p}
  /\ socket' = [socket EXCEPT ![p] = clientSockets[iter]]
  /\ Pool!Submit(p)                       \* PushRequest
  /\ buffer' = SubSeq(buffer, 3, Len(buffer))
  /\ UNCHANGED <<pc, readSet, iter, shutdownInProgress, clientSockets, owner, link,
                 netVars, delivered, cut, reconnects>>

(* The signal handler calls Server::Stop at any moment. *)
Stop ==
  /\ pc \notin {"stopped", "killed"} /\ ~shutdownInProgress
  /\ shutdownInProgress' = TRUE
  /\ UNCHANGED <<loopVars, clientSockets, owner, link, netVars, socket, poolVars,
                 delivered, historyVars, reconnects>>

-----------------------------------------------------------------------------
(* The workers. *)

Running == pc # "killed"

(* A reconnection under way ends before its request does: it has its new      *)
(* socket, or there is no descriptor for one.                                 *)
SocketSettled(w) == w \in Range(owner) \/ FreeFds = {}

Take(w) ==
  /\ Running
  /\ Pool!Take(w)
  /\ UNCHANGED <<loopVars, shutdownInProgress, clientSockets, owner, link, netVars,
                 socket, delivered, historyVars, reconnects>>

Discard(w) ==
  /\ Running
  /\ SocketSettled(w)
  /\ Pool!Finish(w, "discarded")
  /\ UNCHANGED <<loopVars, shutdownInProgress, clientSockets, owner, link, netVars,
                 socket, delivered, historyVars, reconnects>>

(* SendRequestResultToClient: send on the descriptor the request came from. *)
Respond(w) ==
  /\ Running
  /\ SocketSettled(w)
  /\ serving[w] # Nobody
  /\ \E outcome \in Outcomes :
       /\ Send(socket[serving[w]], serving[w], outcome)
       /\ \/ outcome = "killed" /\ pc' = "killed" /\ UNCHANGED poolVars
          \/ outcome = "sent" /\ Pool!Finish(w, "answered") /\ UNCHANGED pc
          \/ outcome = "error" /\ Pool!Finish(w, "unsent") /\ UNCHANGED pc
  /\ UNCHANGED <<readSet, iter, buffer, shutdownInProgress, clientSockets, owner, netVars,
                 socket, historyVars, reconnects>>

(* As SendInterrupted, in a worker's thread. *)
RespondInterrupted(w) ==
  /\ Running
  /\ SocketSettled(w)
  /\ serving[w] # Nobody
  /\ Blocks(socket[serving[w]])
  /\ shutdownInProgress' = TRUE
  /\ Pool!Finish(w, "unsent")
  /\ UNCHANGED <<loopVars, clientSockets, owner, link, netVars, socket, delivered,
                 historyVars, reconnects>>

(* HLRConnector::Reconnect, while a command is processed: CloseSocket, then a *)
(* new socket; the main thread may accept in between.                         *)
CloseDeviceSocket(w) ==
  /\ Running
  /\ serving[w] # Nobody
  /\ reconnects < MaxReconnects
  /\ reconnects' = reconnects + 1
  /\ \E fd \in Fds : owner[fd] = w /\ owner' = [owner EXCEPT ![fd] = Nobody]
  /\ UNCHANGED <<loopVars, shutdownInProgress, clientSockets, link, netVars, socket,
                 poolVars, delivered, historyVars>>

OpenDeviceSocket(w) ==
  /\ Running
  /\ serving[w] # Nobody
  /\ FreeFds # {}
  /\ w \notin Range(owner)
  /\ owner' = [owner EXCEPT ![Lowest(FreeFds)] = w]
  /\ UNCHANGED <<loopVars, shutdownInProgress, clientSockets, link, netVars, socket,
                 poolVars, delivered, historyVars, reconnects>>

-----------------------------------------------------------------------------
(* The clients. *)

ClientConnects(c) ==
  /\ Running /\ link[c] = "unborn"
  /\ link' = [link EXCEPT ![c] = "backlog"]
  /\ UNCHANGED <<loopVars, shutdownInProgress, clientSockets, owner, netVars, socket,
                 poolVars, delivered, historyVars, reconnects>>

ClientSends(c, p) ==
  /\ Running /\ link[c] \in {"open", "full"}
  /\ sender[p] = Nobody
  /\ sender' = [sender EXCEPT ![p] = c]
  /\ inbox' = [inbox EXCEPT ![c] = @ \o Whole(p)]
  /\ UNCHANGED <<loopVars, shutdownInProgress, clientSockets, owner, link, socket,
                 poolVars, delivered, historyVars, reconnects>>

(* For good: one that only pauses makes a send slow.  How many responses fit  *)
(* in the buffers is left open.                                               *)
ClientStopsReading(c) ==
  /\ Running /\ link[c] = "open"
  /\ link' = [link EXCEPT ![c] = "full"]
  /\ UNCHANGED <<loopVars, shutdownInProgress, clientSockets, owner, netVars, socket,
                 poolVars, delivered, historyVars, reconnects>>

(* A close with responses unread is a reset. *)
ClientHangsUp(c) ==
  /\ Running
  /\ \E l \in {"eof", "reset"} :
       /\ link[c] = "open" \/ (link[c] = "full" /\ l = "reset")
       /\ link' = [link EXCEPT ![c] = l]
  /\ UNCHANGED <<loopVars, shutdownInProgress, clientSockets, owner, netVars, socket,
                 poolVars, delivered, historyVars, reconnects>>

-----------------------------------------------------------------------------
ServerStep ==
  \/ Select \/ RunReturns \/ ProcessIncomingConnection
  \/ ScanEnds \/ ScanSkips \/ ScanReceives \/ ScanCloses
  \/ ParseEnds \/ ParseError
  \/ \E p \in Packets : ParseRejects(p) \/ ParseAccepts(p)

WorkerStep(w) ==
  Take(w) \/ Discard(w) \/ Respond(w) \/ CloseDeviceSocket(w) \/ OpenDeviceSocket(w)

ClientStep(c) ==
  \/ ClientConnects(c) \/ ClientStopsReading(c) \/ ClientHangsUp(c)
  \/ \E p \in Packets : ClientSends(c, p)

(* A signal, wherever its handler runs. *)
Signal ==
  \/ Stop
  \/ \E p \in Packets : SendInterrupted(p)
  \/ \E w \in Workers : RespondInterrupted(w)

Next ==
  \/ ServerStep
  \/ Signal
  \/ \E w \in Workers : WorkerStep(w)
  \/ \E c \in Connections : ClientStep(c)

Spec == Init /\ [][Next]_vars

(* The main thread runs on, but where a send blocks; clients and workers owe  *)
(* it nothing, and no signal need come.                                       *)
FairSpec == Spec /\ WF_vars(ServerStep)

-----------------------------------------------------------------------------
TypeOK ==
  /\ pc \in {"select", "accept", "scan", "parse", "stopped", "killed"}
  /\ shutdownInProgress \in BOOLEAN
  /\ clientSockets \in Seq(Fds)
  /\ readSet \subseteq Fds
  /\ iter \in 1 .. MaxFd + 1
  /\ buffer \in Seq(Packets \X {1, 2})
  /\ owner \in [Fds -> Connections \cup Workers \cup {Nobody}]
  /\ link \in [Connections -> Links]
  /\ inbox \in [Connections -> Seq(Packets \X {1, 2})]
  /\ sender \in [Packets -> Connections \cup {Nobody}]
  /\ socket \in [Packets -> Fds \cup {0}]
  /\ pending \in Seq(Commands)
  /\ serving \in [Workers -> Commands \cup {Nobody}]
  /\ fate \in [Commands -> {"unborn", "live"} \cup Pool!Fates]
  /\ delivered \in [Packets -> Seq(Connections \cup Workers)]
  /\ handled \subseteq Packets
  /\ cut \subseteq Connections
  /\ reconnects \in 0 .. MaxReconnects

(* The list holds each accepted connection's descriptor once and no other:    *)
(* select is never given a closed descriptor or a worker's, and a closed      *)
(* client leaks none.                                                         *)
SocketsAreClients ==
  /\ IsInjective(clientSockets)
  /\ {owner[fd] : fd \in Range(clientSockets)}
       = {c \in Connections : link[c] \in Accepted}
  /\ \A fd \in Fds : owner[fd] \in Connections => fd \in Range(clientSockets)

(* A response goes to another client, or into a worker's device session, only *)
(* if the client that asked has been disconnected in the meantime; and no     *)
(* packet is answered twice.                                                  *)
ResponsesReachAsker ==
  \A p \in Packets :
    /\ Len(delivered[p]) <= 1
    /\ \A to \in Range(delivered[p]) : to = sender[p] \/ link[sender[p]] = "closed"

(* A packet received is handled, unless a recv on its connection cut some     *)
(* packet in two: only then is anything dropped.                              *)
LostOnlyByCut ==
  \A p \in Packets :
    LET c == sender[p] IN
    c # Nobody /\ p \notin handled /\ c \notin cut
      => \/ link[c] = "closed"
         \/ <<p, 1>> \in Range(inbox[c]) \cup Range(buffer)

(* What a client sent is read, whatever the other clients and workers do,     *)
(* until the server stops; unless the server comes to a rejection for a       *)
(* client that reads no more and never hangs up: its send blocks the thread   *)
(* that reads all clients, for ever.                                          *)
MainBlocked ==
  /\ pc = "parse" /\ Blocks(clientSockets[iter])
  /\ \E p \in Packets \ Commands : StartsWith(p)

EveryClientIsRead ==
  \A c \in Connections :
    [](inbox[c] # <<>> =>
         \/ <>(inbox[c] = <<>> \/ pc \in {"stopped", "killed"})
         \/ <>[]MainBlocked)

=============================================================================
