---------------------------- MODULE GatewayProofs ----------------------------
(***************************************************************************)
(* Proofs about Gateway, for any connections, workers, packets and number  *)
(* of descriptors: the list of client sockets is exactly the accepted      *)
(* connections, a response goes to who asked or to nobody that was         *)
(* accepted then, and what is received whole is handled.                   *)
(***************************************************************************)
EXTENDS Gateway, SequenceLemmas, FiniteSetTheorems, TLAPS

(* The inductive invariant, in named parts. *)

(* The list and the descriptor table agree, and a connection has one          *)
(* descriptor.                                                                *)
ListIsClients ==
  /\ \A i, j \in DOMAIN clientSockets : clientSockets[i] = clientSockets[j] => i = j
  /\ \A i \in DOMAIN clientSockets :
       owner[clientSockets[i]] \in Connections /\ link[owner[clientSockets[i]]] \in Accepted
  /\ \A c \in Connections :
       link[c] \in Accepted => \E i \in DOMAIN clientSockets : owner[clientSockets[i]] = c
  /\ \A fd \in Fds :
       owner[fd] \in Connections => \E i \in DOMAIN clientSockets : clientSockets[i] = fd

OneFdEach ==
  \A fd, gd \in Fds : owner[fd] = owner[gd] /\ owner[fd] \in Connections => fd = gd

(* The iterator of Run's loop is at an element, or past the last. *)
IterInList ==
  /\ iter <= Len(clientSockets) + 1
  /\ pc = "parse" => iter <= Len(clientSockets)

(* The connection whose data is in the buffer. *)
Current == owner[clientSockets[iter]]

(* A half is where its sender put it, or in the buffer while that sender's    *)
(* data is parsed.                                                            *)
HalvesAreSenders ==
  /\ \A c \in Connections : \A i \in DOMAIN inbox[c] : sender[inbox[c][i][1]] = c
  /\ pc = "parse" => \A i \in DOMAIN buffer : sender[buffer[i][1]] = Current
  /\ pc \notin {"parse", "killed"} => buffer = <<>>
  /\ \A p \in handled : sender[p] \in Connections

(* No half is twice anywhere, and none is left of a packet that was handled. *)
HalvesOnce ==
  /\ \A c \in Connections : \A i, j \in DOMAIN inbox[c] : inbox[c][i] = inbox[c][j] => i = j
  /\ \A i, j \in DOMAIN buffer : buffer[i] = buffer[j] => i = j
  /\ \A c \in Connections : \A i \in DOMAIN inbox[c], j \in DOMAIN buffer :
       inbox[c][i] # buffer[j]
  /\ \A p \in handled :
       /\ \A c \in Connections : \A i \in DOMAIN inbox[c] : inbox[c][i] # <<p, 1>>
       /\ \A j \in DOMAIN buffer : buffer[j] # <<p, 1>>

(* Nothing but whole packets. *)
Framed(s) ==
  \A i \in DOMAIN s :
    \/ s[i][2] = 1 /\ i + 1 \in DOMAIN s /\ s[i + 1] = <<s[i][1], 2>>
    \/ s[i][2] = 2 /\ i - 1 \in DOMAIN s /\ s[i - 1] = <<s[i][1], 1>>

UncutIsFramed ==
  /\ \A c \in Connections \ cut : Framed(inbox[c])
  /\ pc = "parse" /\ Current \notin cut => Framed(buffer)

(* A live request holds its client's descriptor, until that client is         *)
(* disconnected.                                                              *)
LiveHoldsSocket ==
  \A p \in Commands :
    /\ fate[p] # "unborn" => p \in handled
    /\ fate[p] = "live" =>
         /\ socket[p] \in Fds
         /\ owner[socket[p]] = sender[p] \/ link[sender[p]] = "closed"

(* What was answered is over. *)
AnsweredIsOver ==
  \A p \in Packets :
    delivered[p] # <<>> => p \in handled /\ (p \in Commands => fate[p] = "answered")

IInv ==
  /\ TypeOK
  /\ ListIsClients /\ OneFdEach /\ IterInList
  /\ HalvesAreSenders /\ HalvesOnce /\ UncutIsFramed
  /\ LiveHoldsSocket /\ AnsweredIsOver
  /\ ResponsesReachAsker /\ LostOnlyByCut

-----------------------------------------------------------------------------
LEMMA HalfElements ==
  ASSUME NEW s \in Seq(Packets \X {1, 2}), NEW i \in DOMAIN s
  PROVE  /\ s[i] \in Packets \X {1, 2}
         /\ s[i][1] \in Packets /\ s[i][2] \in {1, 2}
         /\ s[i] = <<s[i][1], s[i][2]>>
<1>1. s[i] \in Packets \X {1, 2}
  OBVIOUS
<1> QED
  BY <1>1

(* The descriptor that accept or socket returns is one that was free. *)
LEMMA LowestIsFree ==
  ASSUME FreeFds # {}
  PROVE  Lowest(FreeFds) \in FreeFds
<1>1. FreeFds \subseteq Nat
  BY SetsAssumption DEF FreeFds, Fds
<1> QED
  BY <1>1, LeastNat DEF Lowest

(* The list is never longer than the table. *)
LEMMA ListFits ==
  ASSUME NEW s \in Seq(Fds), \A i, j \in DOMAIN s : s[i] = s[j] => i = j
  PROVE  Len(s) <= MaxFd
<1>1. IsFiniteSet(1 .. Len(s)) /\ Cardinality(1 .. Len(s)) = Len(s)
  <2>1. Len(s) \in Nat
    OBVIOUS
  <2> QED
    BY <2>1, FS_Interval
<1>2. IsFiniteSet(Fds) /\ Cardinality(Fds) = MaxFd
  BY FS_Interval, SetsAssumption DEF Fds
<1>3. SUFFICES ASSUME MaxFd < Len(s) PROVE FALSE
  BY SetsAssumption
<1>4. s \in [1 .. Len(s) -> Fds]
  OBVIOUS
<1>5. \E x, y \in 1 .. Len(s) : x # y /\ s[x] = s[y]
  BY <1>1, <1>2, <1>3, <1>4, FS_PigeonHole
<1> QED
  BY <1>5

(* What sending does: no connection is accepted or closed by it, and only the *)
(* packet's own record grows, by whoever holds the descriptor.                *)
LEMMA SendEffect ==
  ASSUME TypeOK, NEW fd, NEW p \in Packets, NEW outcome, Send(fd, p, outcome)
  PROVE  /\ link' \in [Connections -> Links]
         /\ \A c \in Connections : link'[c] \in Accepted <=> link[c] \in Accepted
         /\ \A c \in Connections : link'[c] = "closed" <=> link[c] = "closed"
         /\ \/ delivered' = delivered
            \/ /\ outcome = "sent"
               /\ owner[fd] \in Connections \cup Workers
               /\ delivered' = [delivered EXCEPT ![p] = Append(@, owner[fd])]
<1>1. link \in [Connections -> Links]
  BY DEF TypeOK
<1>2. Nobody \notin Connections \cup Workers
  BY SetsAssumption
<1>3. CASE owner[fd] = Nobody
  BY <1>1, <1>2, <1>3 DEF Send
<1>4. CASE owner[fd] \in Workers
  BY <1>1, <1>2, <1>4, SetsAssumption DEF Send
<1>5. CASE owner[fd] \in Connections
  BY <1>1, <1>2, <1>5 DEF Send, Links, Accepted
<1> QED
  BY <1>3, <1>4, <1>5 DEF Send

(* What Run's loop finds at its iterator. *)
LEMMA AtIter ==
  ASSUME TypeOK, ListIsClients, iter <= Len(clientSockets)
  PROVE  /\ iter \in DOMAIN clientSockets
         /\ clientSockets[iter] \in Fds
         /\ Current \in Connections /\ link[Current] \in Accepted
<1>1. iter \in Nat /\ iter >= 1
  BY SetsAssumption DEF TypeOK
<1>2. iter \in DOMAIN clientSockets /\ clientSockets[iter] \in Fds
  BY <1>1 DEF TypeOK
<1> QED
  BY <1>2 DEF ListIsClients, Current

-----------------------------------------------------------------------------
(* Initially. *)

LEMMA InitIInv == Init => IInv
<1> SUFFICES ASSUME Init PROVE IInv
  OBVIOUS
<1>1. TypeOK
  <2>1. owner \in [Fds -> Connections \cup Workers \cup {Nobody}]
    <3>1. PICK f \in [Workers -> 1 .. Cardinality(Workers)] :
            owner = [fd \in Fds |-> IF fd \in Range(f)
                                    THEN CHOOSE w \in Workers : f[w] = fd ELSE Nobody]
      BY DEF Init
    <3>2. \A fd \in Range(f) : (CHOOSE w \in Workers : f[w] = fd) \in Workers
      BY DEF Range
    <3> QED
      BY <3>1, <3>2
  <2>2. iter \in 1 .. MaxFd + 1 /\ reconnects \in 0 .. MaxReconnects
    BY SetsAssumption DEF Init
  <2>3. /\ clientSockets \in Seq(Fds) /\ buffer \in Seq(Packets \X {1, 2})
        /\ inbox \in [Connections -> Seq(Packets \X {1, 2})]
        /\ delivered \in [Packets -> Seq(Connections \cup Workers)]
        /\ pending \in Seq(Commands)
    BY DEF Init, Pool!Init
  <2>4. /\ serving \in [Workers -> Commands \cup {Nobody}]
        /\ fate \in [Commands -> {"unborn", "live"} \cup Pool!Fates]
        /\ link \in [Connections -> Links]
        /\ sender \in [Packets -> Connections \cup {Nobody}]
        /\ socket \in [Packets -> Fds \cup {0}]
    BY DEF Init, Pool!Init, Links
  <2> QED
    BY <2>1, <2>2, <2>3, <2>4 DEF Init, TypeOK
<1>2. \A fd \in Fds : owner[fd] \notin Connections
  <2>1. PICK f \in [Workers -> 1 .. Cardinality(Workers)] :
          owner = [fd \in Fds |-> IF fd \in Range(f)
                                  THEN CHOOSE w \in Workers : f[w] = fd ELSE Nobody]
    BY DEF Init
  <2>2. \A fd \in Range(f) : (CHOOSE w \in Workers : f[w] = fd) \in Workers
    BY DEF Range
  <2> QED
    BY <2>1, <2>2, SetsAssumption
<1>3. DOMAIN clientSockets = {} /\ Len(clientSockets) = 0 /\ DOMAIN buffer = {}
      /\ buffer = <<>>
      /\ \A c \in Connections : inbox[c] = <<>> /\ DOMAIN inbox[c] = {}
  BY DEF Init
<1>4. ListIsClients /\ OneFdEach /\ IterInList
  <2>1. \A c \in Connections : link[c] \notin Accepted
    BY DEF Init, Accepted
  <2>2. ListIsClients
    BY <1>2, <1>3, <2>1 DEF ListIsClients
  <2>3. OneFdEach
    BY <1>2 DEF OneFdEach
  <2>4. IterInList
    BY <1>3 DEF Init, IterInList
  <2> QED
    BY <2>2, <2>3, <2>4
<1>5. HalvesAreSenders /\ HalvesOnce /\ UncutIsFramed
  BY <1>3 DEF Init, HalvesAreSenders, HalvesOnce, UncutIsFramed, Framed
<1>6. LiveHoldsSocket /\ AnsweredIsOver
  BY SetsAssumption DEF Init, Pool!Init, LiveHoldsSocket, AnsweredIsOver
<1>7. ResponsesReachAsker
  <2>1. \A p \in Packets : delivered[p] = <<>>
    BY DEF Init
  <2> QED
    BY <2>1 DEF ResponsesReachAsker, Range
<1>8. LostOnlyByCut
  BY DEF Init, LostOnlyByCut
<1> QED
  BY <1>1, <1>4, <1>5, <1>6, <1>7, <1>8 DEF IInv

-----------------------------------------------------------------------------
(* Types. *)

LEMMA TypeNext == IInv /\ [Next]_vars => TypeOK'
<1> SUFFICES ASSUME IInv, [Next]_vars PROVE TypeOK'
  OBVIOUS
<1>0. TypeOK /\ ListIsClients /\ IterInList /\ LiveHoldsSocket
  BY DEF IInv
<1>a. Len(clientSockets) \in Nat /\ Len(clientSockets) <= MaxFd
      /\ DOMAIN clientSockets = 1 .. Len(clientSockets)
  BY ListFits DEF IInv, ListIsClients, TypeOK
<1>b. MaxFd \in Nat /\ MaxReconnects \in Nat /\ Commands \subseteq Packets
  BY SetsAssumption
<1> USE DEF loopVars, netVars, poolVars, historyVars
<1>1. CASE Select
  <2>1. readSet' \subseteq Fds
    BY <1>0, <1>1 DEF Select, TypeOK, Range
  <2>2. 1 \in 1 .. MaxFd + 1
    BY <1>b
  <2> QED
    BY <1>0, <1>1, <2>1, <2>2 DEF Select, TypeOK
<1>2. CASE RunReturns
  BY <1>0, <1>2 DEF RunReturns, TypeOK
<1>3. CASE ProcessIncomingConnection
  <2>1. FreeFds # {} => Lowest(FreeFds) \in Fds
    BY LowestIsFree DEF FreeFds
  <2>2. clientSockets' \in Seq(Fds)
    <3>1. clientSockets \in Seq(Fds)
      BY <1>0 DEF TypeOK
    <3>2. FreeFds # {} => Append(clientSockets, Lowest(FreeFds)) \in Seq(Fds)
      BY <2>1, <3>1
    <3> QED
      BY <1>3, <3>1, <3>2 DEF ProcessIncomingConnection
  <2>3. owner' \in [Fds -> Connections \cup Workers \cup {Nobody}]
    BY <1>0, <1>3, <2>1 DEF ProcessIncomingConnection, TypeOK, Backlog
  <2>4. link' \in [Connections -> Links]
    BY <1>0, <1>3 DEF ProcessIncomingConnection, TypeOK, Backlog, Links
  <2> QED
    BY <1>0, <1>3, <2>2, <2>3, <2>4 DEF ProcessIncomingConnection, TypeOK
<1>4. CASE ScanEnds
  <2>1. 1 \in 1 .. MaxFd + 1
    BY <1>b
  <2> QED
    BY <1>0, <1>4, <2>1 DEF ScanEnds, TypeOK
<1>5. CASE ScanSkips
  <2>1. iter + 1 \in 1 .. MaxFd + 1
    BY <1>0, <1>a, <1>b, <1>5 DEF ScanSkips, TypeOK
  <2> QED
    BY <1>0, <1>5, <2>1 DEF ScanSkips, TypeOK
<1>6. CASE ScanReceives
  <2>1. owner[clientSockets[iter]] \in Connections
    BY <1>0, <1>6, AtIter DEF ScanReceives, Current
  <2>2. inbox[owner[clientSockets[iter]]] \in Seq(Packets \X {1, 2})
    BY <1>0, <2>1 DEF TypeOK
  <2>3. PICK n \in 1 .. Len(inbox[owner[clientSockets[iter]]]) :
          /\ buffer' = SubSeq(inbox[owner[clientSockets[iter]]], 1, n)
          /\ inbox' = [inbox EXCEPT ![owner[clientSockets[iter]]] = SubSeq(@, n + 1, Len(@))]
          /\ cut' = IF inbox[owner[clientSockets[iter]]][n][2] = 1
                    THEN cut \cup {owner[clientSockets[iter]]} ELSE cut
    BY <1>6 DEF ScanReceives
  <2>4. buffer' \in Seq(Packets \X {1, 2})
    BY <2>2, <2>3, SplitElements
  <2>5. inbox' \in [Connections -> Seq(Packets \X {1, 2})]
    <3>1. SubSeq(inbox[owner[clientSockets[iter]]], n + 1,
                 Len(inbox[owner[clientSockets[iter]]])) \in Seq(Packets \X {1, 2})
      BY <2>2, SplitElements
    <3> QED
      BY <1>0, <2>1, <2>3, <3>1 DEF TypeOK
  <2>6. cut' \subseteq Connections
    BY <1>0, <2>1, <2>3 DEF TypeOK
  <2> QED
    BY <1>0, <1>6, <2>4, <2>5, <2>6 DEF ScanReceives, TypeOK
<1>7. CASE ScanCloses
  <2>1. owner[clientSockets[iter]] \in Connections /\ clientSockets[iter] \in Fds
    BY <1>0, <1>7, AtIter DEF ScanCloses, Current
  <2>2. link' \in [Connections -> Links]
        /\ owner' \in [Fds -> Connections \cup Workers \cup {Nobody}]
    BY <1>0, <1>7, <2>1 DEF ScanCloses, TypeOK, Links
  <2>3. clientSockets' \in Seq(Fds)
    <3>1. clientSockets' \in [1 .. Len(clientSockets) - 1 -> Fds]
      BY <1>0, <1>a, <1>7 DEF ScanCloses, TypeOK
    <3>2. Len(clientSockets) - 1 \in Nat
      BY <1>0, <1>a, <1>7 DEF ScanCloses, TypeOK
    <3> QED
      BY <3>1, <3>2
  <2> QED
    BY <1>0, <1>7, <2>2, <2>3 DEF ScanCloses, TypeOK
<1>8. CASE ParseEnds
  <2>1. iter + 1 \in 1 .. MaxFd + 1
    BY <1>0, <1>a, <1>b, <1>8 DEF ParseEnds, TypeOK, IterInList
  <2> QED
    BY <1>0, <1>8, <2>1 DEF ParseEnds, TypeOK
<1>9. CASE ParseError
  <2>1. <<>> \in Seq(Packets \X {1, 2})
    OBVIOUS
  <2> QED
    BY <1>0, <1>9, <2>1 DEF ParseError, TypeOK
<1>d. ASSUME NEW p \in Packets, StartsWith(p)
      PROVE  SubSeq(buffer, 3, Len(buffer)) \in Seq(Packets \X {1, 2})
  <2>1. buffer \in Seq(Packets \X {1, 2}) /\ 2 \in 0 .. Len(buffer)
    BY <1>0, <1>d DEF TypeOK, StartsWith
  <2>2. SubSeq(buffer, 2 + 1, Len(buffer)) \in Seq(Packets \X {1, 2})
    BY <2>1, SplitElements
  <2> QED
    BY <2>2
<1>e. ASSUME NEW fd, NEW p \in Packets, NEW outcome, Send(fd, p, outcome)
      PROVE  /\ link' \in [Connections -> Links]
             /\ delivered' \in [Packets -> Seq(Connections \cup Workers)]
  <2>1. /\ link' \in [Connections -> Links]
        /\ \/ delivered' = delivered
           \/ /\ owner[fd] \in Connections \cup Workers
              /\ delivered' = [delivered EXCEPT ![p] = Append(@, owner[fd])]
    BY <1>0, <1>e, SendEffect
  <2>2. delivered \in [Packets -> Seq(Connections \cup Workers)]
    BY <1>0 DEF TypeOK
  <2>3. owner[fd] \in Connections \cup Workers =>
          Append(delivered[p], owner[fd]) \in Seq(Connections \cup Workers)
    BY <2>2, AppendElements
  <2> QED
    BY <2>1, <2>2, <2>3
<1>10. ASSUME NEW p \in Packets, ParseRejects(p) PROVE TypeOK'
  <2>1. SubSeq(buffer, 3, Len(buffer)) \in Seq(Packets \X {1, 2})
    BY <1>10, <1>d DEF ParseRejects
  <2>2. /\ link' \in [Connections -> Links]
        /\ delivered' \in [Packets -> Seq(Connections \cup Workers)]
    BY <1>10, <1>e DEF ParseRejects
  <2>3. pc' \in {pc, "killed"} /\ handled' \subseteq Packets
    BY <1>0, <1>10 DEF ParseRejects, TypeOK
  <2> QED
    BY <1>0, <1>10, <2>1, <2>2, <2>3 DEF ParseRejects, TypeOK
<1>22. ASSUME NEW p \in Packets, SendInterrupted(p) PROVE TypeOK'
  <2>1. SubSeq(buffer, 3, Len(buffer)) \in Seq(Packets \X {1, 2})
    BY <1>22, <1>d DEF SendInterrupted
  <2>2. handled' \subseteq Packets
    BY <1>0, <1>22 DEF SendInterrupted, TypeOK
  <2> QED
    BY <1>0, <1>22, <2>1, <2>2 DEF SendInterrupted, TypeOK
<1>11. ASSUME NEW p \in Packets, ParseAccepts(p) PROVE TypeOK'
  <2>1. SubSeq(buffer, 3, Len(buffer)) \in Seq(Packets \X {1, 2})
    BY <1>11, <1>d DEF ParseAccepts
  <2>2. p \in Commands /\ clientSockets[iter] \in Fds
    BY <1>0, <1>a, <1>11 DEF ParseAccepts, IterInList, TypeOK
  <2>3. pending' \in Seq(Commands)
    BY <1>0, <1>11, <2>2, AppendElements DEF ParseAccepts, Pool!Submit, TypeOK
  <2>4. fate' \in [Commands -> {"unborn", "live"} \cup Pool!Fates]
    BY <1>0, <1>11, <2>2 DEF ParseAccepts, Pool!Submit, TypeOK
  <2>5. socket' \in [Packets -> Fds \cup {0}] /\ handled' \subseteq Packets
    BY <1>0, <1>11, <2>2 DEF ParseAccepts, TypeOK
  <2> QED
    BY <1>0, <1>11, <2>1, <2>3, <2>4, <2>5 DEF ParseAccepts, Pool!Submit, TypeOK
<1>12. CASE Stop
  BY <1>0, <1>12 DEF Stop, TypeOK
<1>13. ASSUME NEW w \in Workers, Take(w) PROVE TypeOK'
  <2>1. Head(pending) \in Commands /\ pending' \in Seq(Commands)
    BY <1>0, <1>13 DEF Take, Pool!Take, TypeOK
  <2>2. serving' \in [Workers -> Commands \cup {Nobody}]
    BY <1>0, <1>13, <2>1 DEF Take, Pool!Take, TypeOK
  <2> QED
    BY <1>0, <1>13, <2>1, <2>2 DEF Take, Pool!Take, TypeOK
<1>f. ASSUME NEW w \in Workers, NEW f \in Pool!Fates, Pool!Finish(w, f)
      PROVE  /\ pending' \in Seq(Commands)
             /\ serving' \in [Workers -> Commands \cup {Nobody}]
             /\ fate' \in [Commands -> {"unborn", "live"} \cup Pool!Fates]
  <2>1. serving[w] \in Commands
    BY <1>0, <1>f DEF Pool!Finish, TypeOK
  <2> QED
    BY <1>0, <1>f, <2>1 DEF Pool!Finish, TypeOK
<1>14. ASSUME NEW w \in Workers, Discard(w) PROVE TypeOK'
  <2>1. "discarded" \in Pool!Fates
    BY DEF Pool!Fates
  <2> QED
    BY <1>0, <1>14, <1>f, <2>1 DEF Discard, TypeOK
<1>15. ASSUME NEW w \in Workers, Respond(w) PROVE TypeOK'
  <2>1. serving[w] \in Packets
    BY <1>0, <1>b, <1>15 DEF Respond, TypeOK
  <2>2. /\ link' \in [Connections -> Links]
        /\ delivered' \in [Packets -> Seq(Connections \cup Workers)]
    BY <1>15, <1>e, <2>1 DEF Respond
  <2>3. "answered" \in Pool!Fates /\ "unsent" \in Pool!Fates
    BY DEF Pool!Fates
  <2>4. /\ pending' \in Seq(Commands)
        /\ serving' \in [Workers -> Commands \cup {Nobody}]
        /\ fate' \in [Commands -> {"unborn", "live"} \cup Pool!Fates]
    BY <1>0, <1>15, <1>f, <2>3 DEF Respond, TypeOK
  <2>5. pc' \in {pc, "killed"}
    BY <1>15 DEF Respond
  <2> QED
    BY <1>0, <1>15, <2>2, <2>4, <2>5 DEF Respond, TypeOK
<1>23. ASSUME NEW w \in Workers, RespondInterrupted(w) PROVE TypeOK'
  <2>1. "unsent" \in Pool!Fates
    BY DEF Pool!Fates
  <2> QED
    BY <1>0, <1>23, <1>f, <2>1 DEF RespondInterrupted, TypeOK
<1>16. ASSUME NEW w \in Workers, CloseDeviceSocket(w) PROVE TypeOK'
  <2>1. reconnects' \in 0 .. MaxReconnects
    BY <1>0, <1>b, <1>16 DEF CloseDeviceSocket, TypeOK
  <2> QED
    BY <1>0, <1>16, <2>1 DEF CloseDeviceSocket, TypeOK
<1>17. ASSUME NEW w \in Workers, OpenDeviceSocket(w) PROVE TypeOK'
  <2>1. Lowest(FreeFds) \in Fds
    BY <1>17, LowestIsFree DEF OpenDeviceSocket, FreeFds
  <2> QED
    BY <1>0, <1>17, <2>1 DEF OpenDeviceSocket, TypeOK
<1>18. ASSUME NEW c \in Connections, ClientConnects(c) PROVE TypeOK'
  BY <1>0, <1>18 DEF ClientConnects, TypeOK, Links
<1>19. ASSUME NEW c \in Connections, NEW p \in Packets, ClientSends(c, p) PROVE TypeOK'
  <2>1. inbox[c] \o Whole(p) \in Seq(Packets \X {1, 2})
    <3>1. inbox[c] \in Seq(Packets \X {1, 2})
      BY <1>0 DEF TypeOK
    <3> QED
      BY <3>1, PairElements DEF Whole
  <2>2. inbox' \in [Connections -> Seq(Packets \X {1, 2})]
    BY <1>0, <1>19, <2>1 DEF ClientSends, TypeOK
  <2>3. sender' \in [Packets -> Connections \cup {Nobody}]
    BY <1>0, <1>19 DEF ClientSends, TypeOK
  <2> QED
    BY <1>0, <1>19, <2>2, <2>3 DEF ClientSends, TypeOK
<1>20. ASSUME NEW c \in Connections, ClientStopsReading(c) \/ ClientHangsUp(c) PROVE TypeOK'
  BY <1>0, <1>20 DEF ClientStopsReading, ClientHangsUp, TypeOK, Links
<1>21. CASE UNCHANGED vars
  BY <1>0, <1>21 DEF vars, TypeOK
<1> QED
  BY <1>1, <1>2, <1>3, <1>4, <1>5, <1>6, <1>7, <1>8, <1>9, <1>10, <1>11, <1>12, <1>13,
     <1>14, <1>15, <1>16, <1>17, <1>18, <1>19, <1>20, <1>21, <1>22, <1>23
  DEF Next, ServerStep, Signal, WorkerStep, ClientStep

-----------------------------------------------------------------------------
(* The list of client sockets. *)

LEMMA ListNext == IInv /\ [Next]_vars => ListIsClients' /\ OneFdEach'
<1> SUFFICES ASSUME IInv, [Next]_vars PROVE ListIsClients' /\ OneFdEach'
  OBVIOUS
<1>0. TypeOK /\ ListIsClients /\ OneFdEach /\ IterInList
  BY DEF IInv
<1>a. /\ Len(clientSockets) \in Nat
      /\ DOMAIN clientSockets = 1 .. Len(clientSockets)
      /\ \A i \in DOMAIN clientSockets : clientSockets[i] \in Fds
      /\ owner \in [Fds -> Connections \cup Workers \cup {Nobody}]
      /\ link \in [Connections -> Links]
  BY <1>0 DEF TypeOK
<1>b. /\ Nobody \notin Connections
      /\ \A w \in Workers : w \notin Connections
  BY SetsAssumption
<1>c. ASSUME UNCHANGED <<clientSockets, owner>>,
             \A c \in Connections : link'[c] \in Accepted <=> link[c] \in Accepted
      PROVE  ListIsClients' /\ OneFdEach'
  BY <1>0, <1>a, <1>c DEF ListIsClients, OneFdEach
<1>d. ASSUME UNCHANGED <<clientSockets, owner, link>>
      PROVE  ListIsClients' /\ OneFdEach'
  BY <1>0, <1>d DEF ListIsClients, OneFdEach
(* A descriptor that no client holds goes to nobody, or to a worker. *)
<1>e. ASSUME NEW fd \in Fds, owner[fd] \notin Connections,
             NEW x, x \notin Connections,
             owner' = [owner EXCEPT ![fd] = x], UNCHANGED <<clientSockets, link>>
      PROVE  ListIsClients' /\ OneFdEach'
  <2>1. \A i \in DOMAIN clientSockets : clientSockets[i] # fd
    BY <1>0, <1>e DEF ListIsClients
  <2>2. \A gd \in Fds : owner'[gd] \in Connections => gd # fd /\ owner'[gd] = owner[gd]
    BY <1>a, <1>e
  <2>3. \A i \in DOMAIN clientSockets : owner'[clientSockets[i]] = owner[clientSockets[i]]
    BY <1>a, <1>e, <2>1
  <2>4. ListIsClients'
    BY <1>0, <1>e, <2>2, <2>3 DEF ListIsClients
  <2>5. OneFdEach'
    BY <1>0, <2>2 DEF OneFdEach
  <2> QED
    BY <2>4, <2>5
<1>1. CASE ProcessIncomingConnection
  <2>1. CASE FreeFds = {}
    BY <1>1, <1>d, <2>1 DEF ProcessIncomingConnection
  <2>2. CASE FreeFds # {} /\ shutdownInProgress
    <3>1. PICK c \in Connections : link[c] = "backlog" /\ link' = [link EXCEPT ![c] = "closed"]
      BY <1>1, <2>2 DEF ProcessIncomingConnection, Backlog
    <3>2. \A d \in Connections : link'[d] \in Accepted <=> link[d] \in Accepted
      BY <1>a, <3>1 DEF Accepted
    <3> QED
      BY <1>1, <1>c, <2>2, <3>2 DEF ProcessIncomingConnection
  <2>3. CASE FreeFds # {} /\ ~shutdownInProgress
    <3> DEFINE fd == Lowest(FreeFds)
    <3>1. fd \in Fds /\ owner[fd] = Nobody
      BY <2>3, LowestIsFree DEF FreeFds
    <3>2. PICK c \in Connections :
            /\ link[c] = "backlog"
            /\ link' = [link EXCEPT ![c] = "open"]
            /\ owner' = [owner EXCEPT ![fd] = c]
      BY <1>1, <2>3 DEF ProcessIncomingConnection, Backlog
    <3>3. clientSockets' = Append(clientSockets, fd)
      BY <1>1, <2>3 DEF ProcessIncomingConnection
    <3> HIDE DEF fd
    <3>4. /\ DOMAIN clientSockets' = 1 .. Len(clientSockets) + 1
          /\ \A i \in 1 .. Len(clientSockets) : clientSockets'[i] = clientSockets[i]
          /\ clientSockets'[Len(clientSockets) + 1] = fd
      <4>1. clientSockets \in Seq(Fds)
        BY <1>0 DEF TypeOK
      <4> QED
        BY <3>1, <3>3, <4>1, AppendElements
    <3>5. \A i \in DOMAIN clientSockets : clientSockets[i] # fd
      BY <1>0, <1>b, <3>1 DEF ListIsClients
    <3>6. \A gd \in Fds : owner[gd] # c
      <4>1. link[c] \notin Accepted
        BY <3>2 DEF Accepted
      <4> QED
        BY <1>0, <4>1 DEF ListIsClients
    <3>7. /\ owner'[fd] = c /\ link'[c] = "open"
          /\ \A gd \in Fds \ {fd} : owner'[gd] = owner[gd]
          /\ \A d \in Connections \ {c} : link'[d] = link[d]
      BY <1>a, <3>1, <3>2
    <3>8. \A i, j \in DOMAIN clientSockets' : clientSockets'[i] = clientSockets'[j] => i = j
      BY <1>0, <1>a, <3>4, <3>5 DEF ListIsClients
    <3>9. \A i \in DOMAIN clientSockets' :
            /\ owner'[clientSockets'[i]] \in Connections
            /\ link'[owner'[clientSockets'[i]]] \in Accepted
      <4>1. "open" \in Accepted
        BY DEF Accepted
      <4>2. \A i \in 1 .. Len(clientSockets) :
              /\ owner'[clientSockets[i]] = owner[clientSockets[i]]
              /\ link'[owner[clientSockets[i]]] = link[owner[clientSockets[i]]]
        BY <1>0, <1>a, <3>5, <3>6, <3>7 DEF ListIsClients
      <4>3. \A i \in 1 .. Len(clientSockets) :
              /\ owner'[clientSockets'[i]] \in Connections
              /\ link'[owner'[clientSockets'[i]]] \in Accepted
        BY <1>0, <1>a, <3>4, <4>2 DEF ListIsClients
      <4> QED
        BY <1>a, <3>4, <3>7, <4>1, <4>3
    <3>10. \A d \in Connections : link'[d] \in Accepted =>
             \E i \in DOMAIN clientSockets' : owner'[clientSockets'[i]] = d
      <4>1. Len(clientSockets) + 1 \in DOMAIN clientSockets'
        BY <1>a, <3>4
      <4>2. ASSUME NEW d \in Connections \ {c}, link'[d] \in Accepted
            PROVE  \E i \in DOMAIN clientSockets' : owner'[clientSockets'[i]] = d
        <5>1. PICK i \in DOMAIN clientSockets : owner[clientSockets[i]] = d
          BY <1>0, <3>7, <4>2 DEF ListIsClients
        <5>2. i \in DOMAIN clientSockets' /\ clientSockets'[i] = clientSockets[i]
          BY <1>a, <3>4
        <5> QED
          BY <1>a, <3>5, <3>7, <5>1, <5>2
      <4> QED
        BY <3>4, <3>7, <4>1, <4>2
    <3>11. \A gd \in Fds : owner'[gd] \in Connections =>
             \E i \in DOMAIN clientSockets' : clientSockets'[i] = gd
      <4>1. Len(clientSockets) + 1 \in DOMAIN clientSockets'
        BY <1>a, <3>4
      <4>2. ASSUME NEW gd \in Fds \ {fd}, owner'[gd] \in Connections
            PROVE  \E i \in DOMAIN clientSockets' : clientSockets'[i] = gd
        <5>1. PICK i \in DOMAIN clientSockets : clientSockets[i] = gd
          BY <1>0, <3>7, <4>2 DEF ListIsClients
        <5> QED
          BY <1>a, <3>4, <5>1
      <4> QED
        BY <3>4, <4>1, <4>2
    <3>12. OneFdEach'
      BY <1>0, <3>6, <3>7 DEF OneFdEach
    <3> QED
      BY <3>8, <3>9, <3>10, <3>11, <3>12 DEF ListIsClients
  <2> QED
    BY <2>1, <2>2, <2>3
<1>2. CASE ScanCloses
  <2> DEFINE fd == clientSockets[iter]
             c == owner[fd]
             n == Len(clientSockets)
  <2>1. /\ iter \in 1 .. n /\ fd \in Fds /\ c \in Connections
    BY <1>0, <1>2, AtIter DEF ScanCloses, Current
  <2>2. /\ link' = [link EXCEPT ![c] = "closed"]
        /\ owner' = [owner EXCEPT ![fd] = Nobody]
        /\ clientSockets' = [i \in 1 .. n - 1 |->
                               IF i < iter THEN clientSockets[i] ELSE clientSockets[i + 1]]
    BY <1>2 DEF ScanCloses
  <2> HIDE DEF fd, c
  <2>3. /\ DOMAIN clientSockets' = 1 .. n - 1
        /\ \A i \in 1 .. n - 1 : \E j \in 1 .. n :
             /\ j # iter /\ clientSockets'[i] = clientSockets[j]
             /\ j = IF i < iter THEN i ELSE i + 1
    BY <1>a, <2>1, <2>2
  <2>4. \A j \in 1 .. n : j # iter =>
          \E i \in 1 .. n - 1 : clientSockets'[i] = clientSockets[j]
    <3>1. ASSUME NEW j \in 1 .. n, j < iter
          PROVE  j \in 1 .. n - 1 /\ clientSockets'[j] = clientSockets[j]
      BY <1>a, <2>1, <2>2, <3>1
    <3>2. ASSUME NEW j \in 1 .. n, j > iter
          PROVE  j - 1 \in 1 .. n - 1 /\ clientSockets'[j - 1] = clientSockets[j]
      BY <1>a, <2>1, <2>2, <3>2
    <3> QED
      BY <1>a, <2>1, <3>1, <3>2
  <2>5. \A i \in 1 .. n : i # iter => clientSockets[i] # fd
    BY <1>0, <1>a, <2>1 DEF ListIsClients, fd
  <2>6. \A gd \in Fds \ {fd} : owner'[gd] = owner[gd] /\ owner[gd] # c
    BY <1>0, <1>a, <2>1, <2>2 DEF OneFdEach, c
  <2>7. /\ owner'[fd] = Nobody /\ link'[c] = "closed"
        /\ \A d \in Connections \ {c} : link'[d] = link[d]
    BY <1>a, <2>1, <2>2
  <2>8. \A i, j \in DOMAIN clientSockets' : clientSockets'[i] = clientSockets'[j] => i = j
    <3> TAKE i, j \in DOMAIN clientSockets'
    <3>1. PICK k \in 1 .. n : /\ clientSockets'[i] = clientSockets[k]
                              /\ k = IF i < iter THEN i ELSE i + 1
      BY <2>3
    <3>2. PICK m \in 1 .. n : /\ clientSockets'[j] = clientSockets[m]
                              /\ m = IF j < iter THEN j ELSE j + 1
      BY <2>3
    <3>3. clientSockets[k] = clientSockets[m] => k = m
      BY <1>0, <1>a DEF ListIsClients
    <3> QED
      BY <1>a, <2>1, <2>3, <3>1, <3>2, <3>3
  <2>9. \A i \in DOMAIN clientSockets' :
          /\ owner'[clientSockets'[i]] \in Connections
          /\ link'[owner'[clientSockets'[i]]] \in Accepted
    <3> TAKE i \in DOMAIN clientSockets'
    <3>1. PICK k \in 1 .. n : k # iter /\ clientSockets'[i] = clientSockets[k]
      BY <2>3
    <3>2. clientSockets[k] \in Fds \ {fd}
      BY <1>a, <2>5, <3>1
    <3> QED
      BY <1>0, <1>a, <2>6, <2>7, <3>1, <3>2 DEF ListIsClients
  <2>10. \A d \in Connections : link'[d] \in Accepted =>
           \E i \in DOMAIN clientSockets' : owner'[clientSockets'[i]] = d
    <3> SUFFICES ASSUME NEW d \in Connections, link'[d] \in Accepted
                 PROVE  \E i \in DOMAIN clientSockets' : owner'[clientSockets'[i]] = d
      OBVIOUS
    <3>1. d # c /\ link[d] \in Accepted
      BY <2>7 DEF Accepted
    <3>2. PICK k \in 1 .. n : owner[clientSockets[k]] = d
      BY <1>0, <1>a, <3>1 DEF ListIsClients
    <3>3. k # iter
      BY <3>1, <3>2 DEF c, fd
    <3>4. clientSockets[k] \in Fds \ {fd}
      BY <1>a, <2>5, <3>3
    <3> QED
      BY <2>3, <2>4, <2>6, <3>2, <3>3, <3>4
  <2>11. \A gd \in Fds : owner'[gd] \in Connections =>
           \E i \in DOMAIN clientSockets' : clientSockets'[i] = gd
    <3> SUFFICES ASSUME NEW gd \in Fds, owner'[gd] \in Connections
                 PROVE  \E i \in DOMAIN clientSockets' : clientSockets'[i] = gd
      OBVIOUS
    <3>1. gd # fd /\ owner[gd] \in Connections
      BY <1>b, <2>6, <2>7
    <3>2. PICK k \in 1 .. n : clientSockets[k] = gd
      BY <1>0, <1>a, <3>1 DEF ListIsClients
    <3>3. k # iter
      BY <3>1, <3>2 DEF fd
    <3> QED
      BY <2>3, <2>4, <3>2, <3>3
  <2>12. OneFdEach'
    BY <1>0, <1>b, <2>6, <2>7 DEF OneFdEach
  <2> QED
    BY <2>8, <2>9, <2>10, <2>11, <2>12 DEF ListIsClients
<1>3. ASSUME NEW p \in Packets, ParseRejects(p) PROVE ListIsClients' /\ OneFdEach'
  BY <1>0, <1>3, <1>c, SendEffect DEF ParseRejects
<1>4. ASSUME NEW w \in Workers, Respond(w) PROVE ListIsClients' /\ OneFdEach'
  <2>1. serving[w] \in Packets
    BY <1>0, <1>4, SetsAssumption DEF Respond, TypeOK
  <2> QED
    BY <1>0, <1>4, <1>c, <2>1, SendEffect DEF Respond
<1>5. ASSUME NEW w \in Workers, CloseDeviceSocket(w) PROVE ListIsClients' /\ OneFdEach'
  BY <1>b, <1>5, <1>e DEF CloseDeviceSocket
<1>6. ASSUME NEW w \in Workers, OpenDeviceSocket(w) PROVE ListIsClients' /\ OneFdEach'
  <2>1. Lowest(FreeFds) \in Fds /\ owner[Lowest(FreeFds)] = Nobody
    BY <1>6, LowestIsFree DEF OpenDeviceSocket, FreeFds
  <2> QED
    BY <1>b, <1>6, <1>e, <2>1 DEF OpenDeviceSocket
<1>7. ASSUME NEW c \in Connections, ClientConnects(c) PROVE ListIsClients' /\ OneFdEach'
  <2>1. \A d \in Connections : link'[d] \in Accepted <=> link[d] \in Accepted
    BY <1>a, <1>7 DEF ClientConnects, Accepted
  <2> QED
    BY <1>7, <1>c, <2>1 DEF ClientConnects
<1>8. ASSUME NEW c \in Connections, ClientStopsReading(c) \/ ClientHangsUp(c)
      PROVE  ListIsClients' /\ OneFdEach'
  <2>1. \A d \in Connections : link'[d] \in Accepted <=> link[d] \in Accepted
    BY <1>a, <1>8 DEF ClientStopsReading, ClientHangsUp, Accepted
  <2> QED
    BY <1>8, <1>c, <2>1 DEF ClientStopsReading, ClientHangsUp
<1>9. CASE \/ Select \/ RunReturns \/ ScanEnds \/ ScanSkips \/ ScanReceives
           \/ ParseEnds \/ ParseError \/ Stop \/ UNCHANGED vars
           \/ \E p \in Packets : SendInterrupted(p) \/ ParseAccepts(p)
           \/ \E w \in Workers : Take(w) \/ Discard(w) \/ RespondInterrupted(w)
           \/ \E c \in Connections : \E p \in Packets : ClientSends(c, p)
  <2>1. UNCHANGED <<clientSockets, owner, link>>
    BY <1>9
    DEF Select, RunReturns, ScanEnds, ScanSkips, ScanReceives, ParseEnds, ParseError, Stop,
        SendInterrupted, ParseAccepts, Take, Discard, RespondInterrupted, ClientSends, vars
  <2> QED
    BY <1>d, <2>1
<1> QED
  BY <1>1, <1>2, <1>3, <1>4, <1>5, <1>6, <1>7, <1>8, <1>9
  DEF Next, ServerStep, Signal, WorkerStep, ClientStep

LEMMA IterNext == IInv /\ [Next]_vars => IterInList'
<1> SUFFICES ASSUME IInv, [Next]_vars PROVE IterInList'
  OBVIOUS
<1>0. /\ IterInList /\ iter \in Nat /\ clientSockets \in Seq(Fds)
      /\ Len(clientSockets) \in Nat
  BY SetsAssumption DEF IInv, TypeOK
<1>1. CASE ProcessIncomingConnection
  <2>1. Len(clientSockets') \in {Len(clientSockets), Len(clientSockets) + 1}
    <3>1. FreeFds # {} => Lowest(FreeFds) \in Fds
      BY LowestIsFree DEF FreeFds
    <3> QED
      BY <1>0, <1>1, <3>1, AppendElements DEF ProcessIncomingConnection
  <2> QED
    BY <1>0, <1>1, <2>1 DEF ProcessIncomingConnection, IterInList
<1>2. CASE ScanCloses
  <2> DEFINE shorter == [i \in 1 .. Len(clientSockets) - 1 |->
                           IF i < iter THEN clientSockets[i] ELSE clientSockets[i + 1]]
  <2>1. iter \in 1 .. Len(clientSockets)
    BY <1>2, AtIter DEF ScanCloses, IInv, TypeOK
  <2>2. \A i \in 1 .. Len(clientSockets) - 1 : shorter[i] \in Fds
    BY <1>0, <2>1
  <2>3. shorter \in Seq(Fds) /\ Len(shorter) = Len(clientSockets) - 1
    BY <1>0, <2>1, <2>2
  <2> QED
    BY <1>0, <1>2, <2>1, <2>3 DEF ScanCloses, IterInList, loopVars
<1>3. CASE Select \/ ScanEnds
  BY <1>0, <1>3 DEF Select, ScanEnds, IterInList
<1>4. CASE ScanSkips \/ ParseEnds
  BY <1>0, <1>4 DEF ScanSkips, ParseEnds, IterInList
<1>5. CASE ScanReceives
  BY <1>0, <1>5 DEF ScanReceives, IterInList
<1>6. CASE \/ RunReturns \/ ParseError \/ Stop \/ UNCHANGED vars
           \/ \E p \in Packets : ParseRejects(p) \/ SendInterrupted(p) \/ ParseAccepts(p)
           \/ \E w \in Workers : WorkerStep(w) \/ RespondInterrupted(w)
           \/ \E c \in Connections : ClientStep(c)
  <2>1. UNCHANGED <<clientSockets, iter>> /\ (pc' = "parse" => pc = "parse")
    BY <1>6
    DEF RunReturns, ParseError, Stop, ParseRejects, SendInterrupted, ParseAccepts, Signal,
        WorkerStep, ClientStep, Take, Discard, Respond, RespondInterrupted, CloseDeviceSocket,
        OpenDeviceSocket, ClientConnects, ClientSends, ClientStopsReading, ClientHangsUp, vars,
        loopVars
  <2> QED
    BY <1>0, <2>1 DEF IterInList
<1> QED
  BY <1>1, <1>2, <1>3, <1>4, <1>5, <1>6 DEF Next, ServerStep, Signal

(* While data is parsed its connection keeps its descriptor. *)
LEMMA CurrentStays ==
  ASSUME IInv, [Next]_vars, pc = "parse", pc' = "parse"
  PROVE  Current' = Current
<1>0. iter \in DOMAIN clientSockets /\ clientSockets[iter] \in Fds /\ Current \in Connections
  BY AtIter DEF IInv, IterInList
<1>1. Current \notin Workers /\ Current # Nobody
  BY <1>0, SetsAssumption
<1>2. ASSUME NEW w \in Workers, CloseDeviceSocket(w) PROVE Current' = Current
  BY <1>0, <1>1, <1>2 DEF CloseDeviceSocket, Current, IInv, TypeOK, loopVars
<1>3. ASSUME NEW w \in Workers, OpenDeviceSocket(w) PROVE Current' = Current
  <2>1. owner[Lowest(FreeFds)] = Nobody
    BY <1>3, LowestIsFree DEF OpenDeviceSocket, FreeFds
  <2> QED
    BY <1>0, <1>1, <1>3, <2>1 DEF OpenDeviceSocket, Current, IInv, TypeOK, loopVars
<1>4. CASE UNCHANGED <<clientSockets, iter, owner>>
  BY <1>4 DEF Current
<1> QED
  BY <1>2, <1>3, <1>4
  DEF Next, ServerStep, Signal, WorkerStep, ClientStep, Select, RunReturns, ScanEnds, ScanSkips,
      ScanReceives, ScanCloses, ProcessIncomingConnection, ParseEnds, ParseError, Stop,
      ParseRejects, SendInterrupted, ParseAccepts, Take, Discard, Respond, RespondInterrupted,
      ClientConnects, ClientSends, ClientStopsReading, ClientHangsUp, vars, loopVars

-----------------------------------------------------------------------------
(* The halves of packets, on their way from clients to requests. *)

(* recv and parsing, half by half. *)
LEMMA RecvHalves ==
  ASSUME IInv, ScanReceives
  PROVE  /\ Current \in Connections /\ Current' = Current
         /\ Len(inbox[Current]) \in Nat
         /\ DOMAIN inbox[Current] = 1 .. Len(inbox[Current])
         /\ \E n \in 1 .. Len(inbox[Current]) :
              /\ DOMAIN buffer' = 1 .. n
              /\ \A i \in 1 .. n : buffer'[i] = inbox[Current][i]
              /\ DOMAIN inbox'[Current] = 1 .. Len(inbox[Current]) - n
              /\ \A i \in 1 .. Len(inbox[Current]) - n :
                   inbox'[Current][i] = inbox[Current][n + i]
              /\ \A d \in Connections \ {Current} : inbox'[d] = inbox[d]
              /\ cut' = IF inbox[Current][n][2] = 1 THEN cut \cup {Current} ELSE cut
<1>1. Current \in Connections
  BY AtIter DEF ScanReceives, IInv
<1>2. inbox[Current] \in Seq(Packets \X {1, 2}) /\ inbox \in [Connections -> Seq(Packets \X {1, 2})]
  BY <1>1 DEF IInv, TypeOK
<1>3. Current' = Current
  BY DEF ScanReceives, Current
<1>4. PICK n \in 1 .. Len(inbox[Current]) :
        /\ buffer' = SubSeq(inbox[Current], 1, n)
        /\ inbox' = [inbox EXCEPT ![Current] = SubSeq(@, n + 1, Len(@))]
        /\ cut' = IF inbox[Current][n][2] = 1 THEN cut \cup {Current} ELSE cut
  BY DEF ScanReceives, Current
<1>5. /\ Len(inbox[Current]) \in Nat
      /\ DOMAIN inbox[Current] = 1 .. Len(inbox[Current])
      /\ DOMAIN SubSeq(inbox[Current], 1, n) = 1 .. n
      /\ \A i \in 1 .. n : SubSeq(inbox[Current], 1, n)[i] = inbox[Current][i]
      /\ DOMAIN SubSeq(inbox[Current], n + 1, Len(inbox[Current])) = 1 .. Len(inbox[Current]) - n
      /\ \A i \in 1 .. Len(inbox[Current]) - n :
           SubSeq(inbox[Current], n + 1, Len(inbox[Current]))[i] = inbox[Current][n + i]
  <2>1. n \in 0 .. Len(inbox[Current])
    BY <1>2
  <2> QED
    BY <1>2, <2>1, SplitElements
<1>6. /\ inbox'[Current] = SubSeq(inbox[Current], n + 1, Len(inbox[Current]))
      /\ \A d \in Connections \ {Current} : inbox'[d] = inbox[d]
  BY <1>1, <1>2, <1>4
<1> QED
  BY <1>1, <1>3, <1>4, <1>5, <1>6

LEMMA ParseHalves ==
  ASSUME IInv, NEW p, StartsWith(p)
  PROVE  /\ Len(buffer) \in Nat /\ Len(buffer) >= 2
         /\ DOMAIN buffer = 1 .. Len(buffer)
         /\ buffer[1] = <<p, 1>> /\ buffer[2] = <<p, 2>>
         /\ DOMAIN SubSeq(buffer, 3, Len(buffer)) = 1 .. Len(buffer) - 2
         /\ \A i \in 1 .. Len(buffer) - 2 : SubSeq(buffer, 3, Len(buffer))[i] = buffer[i + 2]
<1>1. buffer \in Seq(Packets \X {1, 2})
  BY DEF IInv, TypeOK
<1>2. Len(buffer) \in Nat /\ Len(buffer) >= 2
  BY <1>1 DEF StartsWith
<1>3. 2 \in 0 .. Len(buffer) /\ 2 + 1 = 3
  BY <1>2
<1>4. /\ DOMAIN buffer = 1 .. Len(buffer)
      /\ \A i \in 1 .. 2 : SubSeq(buffer, 1, 2)[i] = buffer[i]
      /\ DOMAIN SubSeq(buffer, 3, Len(buffer)) = 1 .. Len(buffer) - 2
      /\ \A i \in 1 .. Len(buffer) - 2 : SubSeq(buffer, 3, Len(buffer))[i] = buffer[2 + i]
  BY <1>1, <1>3, SplitElements
<1>5. buffer[1] = Whole(p)[1] /\ buffer[2] = Whole(p)[2]
  BY <1>4 DEF StartsWith
<1> QED
  BY <1>2, <1>4, <1>5 DEF Whole

LEMMA SendHalves ==
  ASSUME IInv, NEW c \in Connections, NEW p \in Packets, ClientSends(c, p)
  PROVE  /\ Len(inbox[c]) \in Nat /\ DOMAIN inbox[c] = 1 .. Len(inbox[c])
         /\ DOMAIN inbox'[c] = 1 .. Len(inbox[c]) + 2
         /\ \A i \in 1 .. Len(inbox[c]) : inbox'[c][i] = inbox[c][i]
         /\ inbox'[c][Len(inbox[c]) + 1] = <<p, 1>>
         /\ inbox'[c][Len(inbox[c]) + 2] = <<p, 2>>
         /\ \A d \in Connections \ {c} : inbox'[d] = inbox[d]
         /\ sender[p] = Nobody /\ sender'[p] = c
         /\ \A q \in Packets \ {p} : sender'[q] = sender[q]
<1>1. /\ inbox \in [Connections -> Seq(Packets \X {1, 2})]
      /\ sender \in [Packets -> Connections \cup {Nobody}]
  BY DEF IInv, TypeOK
<1>2. /\ inbox'[c] = inbox[c] \o << <<p, 1>>, <<p, 2>> >>
      /\ \A d \in Connections \ {c} : inbox'[d] = inbox[d]
      /\ sender[p] = Nobody /\ sender'[p] = c
      /\ \A q \in Packets \ {p} : sender'[q] = sender[q]
  BY <1>1 DEF ClientSends, Whole
<1>3. /\ inbox[c] \in Seq(Packets \X {1, 2})
      /\ <<p, 1>> \in Packets \X {1, 2} /\ <<p, 2>> \in Packets \X {1, 2}
  BY <1>1
<1>4. /\ Len(inbox[c]) \in Nat /\ DOMAIN inbox[c] = 1 .. Len(inbox[c])
      /\ DOMAIN (inbox[c] \o << <<p, 1>>, <<p, 2>> >>) = 1 .. Len(inbox[c]) + 2
      /\ \A i \in 1 .. Len(inbox[c]) : (inbox[c] \o << <<p, 1>>, <<p, 2>> >>)[i] = inbox[c][i]
      /\ (inbox[c] \o << <<p, 1>>, <<p, 2>> >>)[Len(inbox[c]) + 1] = <<p, 1>>
      /\ (inbox[c] \o << <<p, 1>>, <<p, 2>> >>)[Len(inbox[c]) + 2] = <<p, 2>>
  BY <1>3, PairElements
<1> QED
  BY <1>2, <1>4

(* No half of a packet that has no sender is anywhere. *)
LEMMA UnsentIsNowhere ==
  ASSUME IInv, NEW p \in Packets, sender[p] = Nobody
  PROVE  /\ p \notin handled
         /\ \A c \in Connections : \A i \in DOMAIN inbox[c] : inbox[c][i][1] # p
         /\ pc = "parse" => \A i \in DOMAIN buffer : buffer[i][1] # p
<1>1. Nobody \notin Connections
  BY SetsAssumption
<1>2. pc = "parse" => Current \in Connections
  BY AtIter DEF IInv, IterInList
<1> QED
  BY <1>1, <1>2 DEF IInv, HalvesAreSenders

(* The steps that move no half: what they leave alone. *)
Quiet ==
  /\ UNCHANGED <<inbox, buffer, sender, handled, cut>>
  /\ pc' = "parse" => pc = "parse"
  /\ pc' \notin {"parse", "killed"} => pc \notin {"parse", "killed"} \/ buffer = <<>>

LEMMA QuietSteps ==
  ASSUME IInv, [Next]_vars,
         ~ScanReceives, ~ParseError,
         \A p \in Packets : ~ParseRejects(p) /\ ~SendInterrupted(p) /\ ~ParseAccepts(p),
         \A c \in Connections : \A p \in Packets : ~ClientSends(c, p)
  PROVE  Quiet
<1> USE DEF loopVars, netVars, poolVars, historyVars
<1>1. CASE Select \/ RunReturns \/ ProcessIncomingConnection \/ ScanEnds \/ ScanSkips
  BY <1>1 DEF Quiet, Select, RunReturns, ProcessIncomingConnection, ScanEnds, ScanSkips
<1>2. CASE ScanCloses \/ ParseEnds \/ Stop \/ UNCHANGED vars
  BY <1>2 DEF Quiet, ScanCloses, ParseEnds, Stop, vars
<1>3. ASSUME NEW w \in Workers, WorkerStep(w) \/ RespondInterrupted(w) PROVE Quiet
  BY <1>3
  DEF Quiet, WorkerStep, Take, Discard, Respond, RespondInterrupted, CloseDeviceSocket,
      OpenDeviceSocket
<1>4. ASSUME NEW c \in Connections, ClientConnects(c) \/ ClientStopsReading(c) \/ ClientHangsUp(c)
      PROVE  Quiet
  BY <1>4 DEF Quiet, ClientConnects, ClientStopsReading, ClientHangsUp
<1> QED
  BY <1>1, <1>2, <1>3, <1>4 DEF Next, ServerStep, Signal, ClientStep

LEMMA SendersNext == IInv /\ [Next]_vars => HalvesAreSenders'
<1> SUFFICES ASSUME IInv, [Next]_vars PROVE HalvesAreSenders'
  OBVIOUS
<1>0. HalvesAreSenders /\ TypeOK
  BY DEF IInv
<1>1. CASE ScanReceives
  <2>1. PICK n \in 1 .. Len(inbox[Current]) :
          /\ DOMAIN buffer' = 1 .. n
          /\ \A i \in 1 .. n : buffer'[i] = inbox[Current][i]
          /\ DOMAIN inbox'[Current] = 1 .. Len(inbox[Current]) - n
          /\ \A i \in 1 .. Len(inbox[Current]) - n : inbox'[Current][i] = inbox[Current][n + i]
          /\ \A d \in Connections \ {Current} : inbox'[d] = inbox[d]
    BY <1>1, RecvHalves
  <2>2. /\ Current \in Connections /\ Current' = Current
        /\ DOMAIN inbox[Current] = 1 .. Len(inbox[Current]) /\ Len(inbox[Current]) \in Nat
    BY <1>1, RecvHalves
  <2>3. UNCHANGED <<sender, handled>> /\ pc' = "parse"
    BY <1>1 DEF ScanReceives
  <2>4. \A i \in DOMAIN buffer' : sender[buffer'[i][1]] = Current
    BY <1>0, <2>1, <2>2 DEF HalvesAreSenders
  <2>5. \A c \in Connections : \A i \in DOMAIN inbox'[c] : sender[inbox'[c][i][1]] = c
    <3>1. \A i \in DOMAIN inbox'[Current] : sender[inbox'[Current][i][1]] = Current
      BY <1>0, <2>1, <2>2 DEF HalvesAreSenders
    <3> QED
      BY <1>0, <2>1, <2>2, <3>1 DEF HalvesAreSenders
  <2> QED
    BY <1>0, <2>2, <2>3, <2>4, <2>5 DEF HalvesAreSenders
<1>2. CASE ParseError
  <2>1. UNCHANGED <<inbox, sender, handled, pc>> /\ buffer' = <<>> /\ DOMAIN buffer' = {}
    BY <1>2 DEF ParseError, netVars, historyVars
  <2> QED
    BY <1>0, <2>1 DEF HalvesAreSenders
<1>3. ASSUME NEW p \in Packets, ParseRejects(p) \/ SendInterrupted(p) \/ ParseAccepts(p)
      PROVE  HalvesAreSenders'
  <2>1. /\ pc = "parse" /\ StartsWith(p) /\ pc' \in {"parse", "killed"}
        /\ buffer' = SubSeq(buffer, 3, Len(buffer))
        /\ UNCHANGED <<inbox, sender>> /\ handled' = handled \cup {p}
    BY <1>3 DEF ParseRejects, SendInterrupted, ParseAccepts, netVars
  <2>2. /\ Len(buffer) \in Nat /\ Len(buffer) >= 2
        /\ DOMAIN buffer = 1 .. Len(buffer)
        /\ buffer[1] = <<p, 1>>
        /\ DOMAIN buffer' = 1 .. Len(buffer) - 2
        /\ \A i \in 1 .. Len(buffer) - 2 : buffer'[i] = buffer[i + 2]
    BY <2>1, ParseHalves
  <2>3. Current \in Connections
    BY <2>1, AtIter DEF IInv, IterInList
  <2>4. sender[p] = Current
    <3>1. 1 \in DOMAIN buffer /\ buffer[1][1] = p
      BY <2>2
    <3> QED
      BY <1>0, <2>1, <3>1 DEF HalvesAreSenders
  <2>5. \A i \in DOMAIN buffer' : sender[buffer'[i][1]] = Current
    BY <1>0, <2>1, <2>2 DEF HalvesAreSenders
  <2>6. pc' = "parse" => Current' = Current
    BY <2>1, CurrentStays
  <2> QED
    BY <1>0, <2>1, <2>3, <2>4, <2>5, <2>6 DEF HalvesAreSenders
<1>4. ASSUME NEW c \in Connections, NEW p \in Packets, ClientSends(c, p)
      PROVE  HalvesAreSenders'
  <2>1. UNCHANGED <<pc, buffer, handled>>
    BY <1>4 DEF ClientSends, loopVars, historyVars
  <2>2. \A d \in Connections : \A i \in DOMAIN inbox'[d] : sender'[inbox'[d][i][1]] = d
    <3>1. ASSUME NEW i \in DOMAIN inbox'[c] PROVE sender'[inbox'[c][i][1]] = c
      <4>1. CASE i \in 1 .. Len(inbox[c])
        <5>1. /\ inbox'[c][i] = inbox[c][i] /\ i \in DOMAIN inbox[c]
              /\ sender[inbox[c][i][1]] = c
          BY <1>0, <1>4, <4>1, SendHalves DEF HalvesAreSenders
        <5>2. inbox[c][i][1] \in Packets
          BY <1>0, <5>1, HalfElements DEF TypeOK
        <5> QED
          BY <1>4, <5>1, <5>2, SendHalves
      <4>2. CASE i \in {Len(inbox[c]) + 1, Len(inbox[c]) + 2}
        <5>1. /\ inbox'[c][Len(inbox[c]) + 1] = <<p, 1>>
              /\ inbox'[c][Len(inbox[c]) + 2] = <<p, 2>>
              /\ sender'[p] = c
          BY <1>4, SendHalves
        <5>2. inbox'[c][i][1] = p
          BY <4>2, <5>1
        <5> QED
          BY <5>1, <5>2
      <4>3. Len(inbox[c]) \in Nat /\ DOMAIN inbox'[c] = 1 .. Len(inbox[c]) + 2
        BY <1>4, SendHalves
      <4> QED
        BY <3>1, <4>1, <4>2, <4>3
    <3>2. ASSUME NEW d \in Connections \ {c}, NEW i \in DOMAIN inbox'[d]
          PROVE  sender'[inbox'[d][i][1]] = d
      <4>1. inbox'[d] = inbox[d] /\ i \in DOMAIN inbox[d] /\ sender[inbox[d][i][1]] = d
        BY <1>0, <1>4, <3>2, SendHalves DEF HalvesAreSenders
      <4>2. inbox[d][i][1] \in Packets
        BY <1>0, <4>1, HalfElements DEF TypeOK
      <4>3. inbox[d][i][1] # p
        BY <1>4, <4>1, SendHalves, SetsAssumption
      <4> QED
        BY <1>4, <4>1, <4>2, <4>3, SendHalves
    <3> QED
      BY <3>1, <3>2
  <2>3. pc' = "parse" => \A i \in DOMAIN buffer' : sender'[buffer'[i][1]] = Current'
    <3> SUFFICES ASSUME pc' = "parse", NEW i \in DOMAIN buffer
                 PROVE  sender'[buffer[i][1]] = Current'
      BY <2>1
    <3>1. pc = "parse" /\ Current' = Current
      BY <2>1, CurrentStays
    <3>2. buffer[i][1] \in Packets /\ buffer[i][1] # p
      BY <1>0, <1>4, <3>1, HalfElements, UnsentIsNowhere, SendHalves DEF TypeOK
    <3> QED
      BY <1>0, <1>4, <3>1, <3>2, SendHalves DEF HalvesAreSenders
  <2>4. \A q \in handled : sender'[q] \in Connections
    <3>1. p \notin handled /\ handled \subseteq Packets
      BY <1>0, <1>4, UnsentIsNowhere, SendHalves DEF TypeOK
    <3> QED
      BY <1>0, <1>4, <3>1, SendHalves DEF HalvesAreSenders
  <2> QED
    BY <1>0, <2>1, <2>2, <2>3, <2>4 DEF HalvesAreSenders
<1>5. CASE Quiet
  <2>1. pc' = "parse" => pc = "parse" /\ Current' = Current
    BY <1>5, CurrentStays DEF Quiet
  <2> QED
    BY <1>0, <1>5, <2>1 DEF HalvesAreSenders, Quiet
<1> QED
  BY <1>1, <1>2, <1>3, <1>4, <1>5, QuietSteps

LEMMA OnceNext == IInv /\ [Next]_vars => HalvesOnce'
<1> SUFFICES ASSUME IInv, [Next]_vars PROVE HalvesOnce'
  OBVIOUS
<1>0. HalvesAreSenders /\ HalvesOnce /\ TypeOK
  BY DEF IInv
<1>1. CASE ScanReceives
  <2>1. PICK n \in 1 .. Len(inbox[Current]) :
          /\ DOMAIN buffer' = 1 .. n
          /\ \A i \in 1 .. n : buffer'[i] = inbox[Current][i]
          /\ DOMAIN inbox'[Current] = 1 .. Len(inbox[Current]) - n
          /\ \A i \in 1 .. Len(inbox[Current]) - n : inbox'[Current][i] = inbox[Current][n + i]
          /\ \A d \in Connections \ {Current} : inbox'[d] = inbox[d]
    BY <1>1, RecvHalves
  <2>2. /\ Current \in Connections
        /\ DOMAIN inbox[Current] = 1 .. Len(inbox[Current]) /\ Len(inbox[Current]) \in Nat
    BY <1>1, RecvHalves
  <2>3. handled' = handled
    BY <1>1 DEF ScanReceives
  <2>4. \A i, j \in 1 .. Len(inbox[Current]) : inbox[Current][i] = inbox[Current][j] => i = j
    BY <1>0, <2>2 DEF HalvesOnce
  <2>5. \A i, j \in DOMAIN buffer' : buffer'[i] = buffer'[j] => i = j
    BY <2>1, <2>2, <2>4
  <2>6. \A i, j \in DOMAIN inbox'[Current] :
          inbox'[Current][i] = inbox'[Current][j] => i = j
    <3> TAKE i, j \in DOMAIN inbox'[Current]
    <3>1. n + i \in 1 .. Len(inbox[Current]) /\ n + j \in 1 .. Len(inbox[Current])
      BY <2>1, <2>2
    <3>2. n + i = n + j => i = j
      BY <2>1, <2>2
    <3> QED
      BY <2>1, <2>4, <3>1, <3>2
  <2>7. \A i \in DOMAIN inbox'[Current], j \in DOMAIN buffer' : inbox'[Current][i] # buffer'[j]
    <3> TAKE i \in DOMAIN inbox'[Current], j \in DOMAIN buffer'
    <3>1. n + i \in 1 .. Len(inbox[Current]) /\ j \in 1 .. Len(inbox[Current]) /\ n + i # j
      BY <2>1, <2>2
    <3> QED
      BY <2>1, <2>4, <3>1
  <2>8. \A d \in Connections \ {Current} : \A i \in DOMAIN inbox'[d], j \in DOMAIN buffer' :
          inbox'[d][i] # buffer'[j]
    BY <1>0, <2>1, <2>2 DEF HalvesAreSenders
  <2>9. \A p \in handled : \A i \in 1 .. Len(inbox[Current]) : inbox[Current][i] # <<p, 1>>
    BY <1>0, <2>2 DEF HalvesOnce
  <2>10. \A p \in handled :
           /\ \A c \in Connections : \A i \in DOMAIN inbox'[c] : inbox'[c][i] # <<p, 1>>
           /\ \A j \in DOMAIN buffer' : buffer'[j] # <<p, 1>>
    <3>1. ASSUME NEW p \in handled, NEW i \in DOMAIN inbox'[Current]
          PROVE  inbox'[Current][i] # <<p, 1>>
      <4>1. n + i \in 1 .. Len(inbox[Current])
        BY <2>1, <2>2
      <4> QED
        BY <2>1, <2>9, <4>1
    <3>2. ASSUME NEW p \in handled, NEW j \in DOMAIN buffer' PROVE buffer'[j] # <<p, 1>>
      BY <2>1, <2>2, <2>9
    <3>3. ASSUME NEW p \in handled, NEW c \in Connections \ {Current}, NEW i \in DOMAIN inbox[c]
          PROVE  inbox[c][i] # <<p, 1>>
      BY <1>0 DEF HalvesOnce
    <3>4. \A c \in Connections : c = Current \/ inbox'[c] = inbox[c]
      BY <2>1
    <3> QED
      BY <3>1, <3>2, <3>3, <3>4
  <2>11. \A c \in Connections : \A i, j \in DOMAIN inbox'[c] :
           inbox'[c][i] = inbox'[c][j] => i = j
    BY <1>0, <2>1, <2>6 DEF HalvesOnce
  <2>12. \A c \in Connections : \A i \in DOMAIN inbox'[c], j \in DOMAIN buffer' :
           inbox'[c][i] # buffer'[j]
    BY <2>7, <2>8
  <2> QED
    BY <2>3, <2>5, <2>10, <2>11, <2>12 DEF HalvesOnce
<1>2. CASE ParseError
  <2>1. UNCHANGED <<inbox, handled>> /\ DOMAIN buffer' = {}
    BY <1>2 DEF ParseError, netVars, historyVars
  <2> QED
    BY <1>0, <2>1 DEF HalvesOnce
<1>3. ASSUME NEW p \in Packets, ParseRejects(p) \/ SendInterrupted(p) \/ ParseAccepts(p)
      PROVE  HalvesOnce'
  <2>1. /\ StartsWith(p)
        /\ buffer' = SubSeq(buffer, 3, Len(buffer))
        /\ inbox' = inbox /\ handled' = handled \cup {p}
    BY <1>3 DEF ParseRejects, SendInterrupted, ParseAccepts, netVars
  <2>2. /\ Len(buffer) \in Nat /\ Len(buffer) >= 2
        /\ DOMAIN buffer = 1 .. Len(buffer)
        /\ buffer[1] = <<p, 1>>
        /\ DOMAIN buffer' = 1 .. Len(buffer) - 2
        /\ \A i \in 1 .. Len(buffer) - 2 : buffer'[i] = buffer[i + 2]
    BY <2>1, ParseHalves
  <2>3. \A i \in DOMAIN buffer' : i + 2 \in DOMAIN buffer /\ i + 2 # 1
                                   /\ buffer'[i] = buffer[i + 2]
    BY <2>2
  <2>4. 1 \in DOMAIN buffer
    BY <2>2
  <2>5. \A i, j \in DOMAIN buffer' : buffer'[i] = buffer'[j] => i = j
    <3> TAKE i, j \in DOMAIN buffer'
    <3>1. buffer[i + 2] = buffer[j + 2] => i + 2 = j + 2
      BY <1>0, <2>3 DEF HalvesOnce
    <3>2. i + 2 = j + 2 => i = j
      BY <2>2
    <3> QED
      BY <2>3, <3>1, <3>2
  <2>6. \A c \in Connections : \A i \in DOMAIN inbox[c], j \in DOMAIN buffer' :
          inbox[c][i] # buffer'[j]
    BY <1>0, <2>3 DEF HalvesOnce
  <2>7. \A j \in DOMAIN buffer' : buffer'[j] # <<p, 1>>
    BY <1>0, <2>2, <2>3, <2>4 DEF HalvesOnce
  <2>8. \A c \in Connections : \A i \in DOMAIN inbox[c] : inbox[c][i] # <<p, 1>>
    BY <1>0, <2>2, <2>4 DEF HalvesOnce
  <2>9. \A q \in handled : \A j \in DOMAIN buffer' : buffer'[j] # <<q, 1>>
    BY <1>0, <2>3 DEF HalvesOnce
  <2> QED
    BY <1>0, <2>1, <2>5, <2>6, <2>7, <2>8, <2>9 DEF HalvesOnce
<1>4. ASSUME NEW c \in Connections, NEW p \in Packets, ClientSends(c, p) PROVE HalvesOnce'
  <2> DEFINE n == Len(inbox[c])
  <2>1. UNCHANGED <<buffer, handled>>
    BY <1>4 DEF ClientSends, loopVars, historyVars
  <2>2. /\ n \in Nat /\ DOMAIN inbox[c] = 1 .. n
        /\ DOMAIN inbox'[c] = 1 .. n + 2
        /\ \A i \in 1 .. n : inbox'[c][i] = inbox[c][i]
        /\ inbox'[c][n + 1] = <<p, 1>>
        /\ inbox'[c][n + 2] = <<p, 2>>
        /\ \A d \in Connections \ {c} : inbox'[d] = inbox[d]
    BY <1>4, SendHalves
  <2>3. p \notin handled
    BY <1>4, SendHalves, UnsentIsNowhere
  <2>4. \A i \in 1 .. n : inbox[c][i][1] # p
    BY <1>4, <2>2, SendHalves, UnsentIsNowhere
  <2>5. \A j \in DOMAIN buffer : buffer[j][1] # p
    <3>1. pc = "parse" \/ buffer = <<>>
      BY <1>0, <1>4 DEF HalvesAreSenders, ClientSends, Running
    <3> QED
      BY <1>4, <3>1, SendHalves, UnsentIsNowhere
  <2> HIDE DEF n
  <2>6. \A i \in 1 .. n + 2 :
          \/ i \in 1 .. n /\ inbox'[c][i] = inbox[c][i] /\ inbox'[c][i][1] # p
          \/ i = n + 1 /\ inbox'[c][i] = <<p, 1>>
          \/ i = n + 2 /\ inbox'[c][i] = <<p, 2>>
    BY <2>2, <2>4
  <2>7. \A i, j \in DOMAIN inbox'[c] : inbox'[c][i] = inbox'[c][j] => i = j
    <3>1. \A i, j \in 1 .. n : inbox[c][i] = inbox[c][j] => i = j
      BY <1>0, <2>2 DEF HalvesOnce
    <3>2. \A i, j \in 1 .. n : inbox'[c][i] = inbox'[c][j] => i = j
      BY <2>2, <3>1
    <3>3. \A i \in 1 .. n : inbox'[c][i] # <<p, 1>> /\ inbox'[c][i] # <<p, 2>>
      BY <2>2, <2>4
    <3>4. <<p, 1>> # <<p, 2>>
      OBVIOUS
    <3>5. DOMAIN inbox'[c] = (1 .. n) \cup {n + 1, n + 2}
      BY <2>2
    <3> QED
      BY <2>2, <3>2, <3>3, <3>4, <3>5
  <2>8. \A i \in DOMAIN inbox'[c], j \in DOMAIN buffer : inbox'[c][i] # buffer[j]
    <3>1. \A i \in 1 .. n, j \in DOMAIN buffer : inbox[c][i] # buffer[j]
      BY <1>0, <2>2 DEF HalvesOnce
    <3>2. \A j \in DOMAIN buffer : buffer[j] # <<p, 1>> /\ buffer[j] # <<p, 2>>
      BY <2>5
    <3>3. DOMAIN inbox'[c] = (1 .. n) \cup {n + 1, n + 2}
      BY <2>2
    <3>4. ASSUME NEW i \in 1 .. n, NEW j \in DOMAIN buffer PROVE inbox'[c][i] # buffer[j]
      BY <2>2, <3>1
    <3>5. ASSUME NEW i \in {n + 1, n + 2}, NEW j \in DOMAIN buffer
          PROVE  inbox'[c][i] # buffer[j]
      BY <2>2, <3>2
    <3> QED
      BY <3>3, <3>4, <3>5
  <2>9. \A q \in handled : \A i \in DOMAIN inbox'[c] : inbox'[c][i] # <<q, 1>>
    <3>1. \A q \in handled : \A i \in 1 .. n : inbox[c][i] # <<q, 1>>
      BY <1>0, <2>2 DEF HalvesOnce
    <3>2. \A q \in handled : <<p, 1>> # <<q, 1>> /\ <<p, 2>> # <<q, 1>>
      BY <2>3
    <3> QED
      BY <2>2, <2>6, <3>1, <3>2
  <2>10. \A d \in Connections : \A i, j \in DOMAIN inbox'[d] :
           inbox'[d][i] = inbox'[d][j] => i = j
    BY <1>0, <2>2, <2>7 DEF HalvesOnce
  <2>11. \A d \in Connections : \A i \in DOMAIN inbox'[d], j \in DOMAIN buffer :
           inbox'[d][i] # buffer[j]
    BY <1>0, <2>2, <2>8 DEF HalvesOnce
  <2>12. \A q \in handled : \A d \in Connections : \A i \in DOMAIN inbox'[d] :
           inbox'[d][i] # <<q, 1>>
    BY <1>0, <2>2, <2>9 DEF HalvesOnce
  <2> QED
    BY <1>0, <2>1, <2>10, <2>11, <2>12 DEF HalvesOnce
<1>5. CASE Quiet
  BY <1>0, <1>5 DEF HalvesOnce, Quiet
<1> QED
  BY <1>1, <1>2, <1>3, <1>4, <1>5, QuietSteps

(* A recv that ends at a second half cuts no packet.                          *)
LEMMA FramedSplit ==
  ASSUME NEW s \in Seq(Packets \X {1, 2}), Framed(s),
         NEW n \in 1 .. Len(s), s[n][2] # 1
  PROVE  Framed(SubSeq(s, 1, n)) /\ Framed(SubSeq(s, n + 1, Len(s)))
<1> DEFINE a == SubSeq(s, 1, n)
           b == SubSeq(s, n + 1, Len(s))
<1>0. /\ Len(s) \in Nat /\ DOMAIN s = 1 .. Len(s)
      /\ DOMAIN a = 1 .. n
      /\ \A i \in 1 .. n : a[i] = s[i]
      /\ DOMAIN b = 1 .. Len(s) - n
      /\ \A i \in 1 .. Len(s) - n : b[i] = s[n + i]
  <2>1. n \in 0 .. Len(s)
    OBVIOUS
  <2> QED
    BY <2>1, SplitElements
<1> HIDE DEF a, b
<1>1. \A i \in DOMAIN s : s[i][2] \in {1, 2}
  OBVIOUS
<1>2. ASSUME NEW i \in DOMAIN a
      PROVE  \/ a[i][2] = 1 /\ i + 1 \in DOMAIN a /\ a[i + 1] = <<a[i][1], 2>>
             \/ a[i][2] = 2 /\ i - 1 \in DOMAIN a /\ a[i - 1] = <<a[i][1], 1>>
  <2>1. i \in DOMAIN s /\ a[i] = s[i]
    BY <1>0
  <2>2. CASE s[i][2] = 1 /\ i + 1 \in DOMAIN s /\ s[i + 1] = <<s[i][1], 2>>
    <3>1. i # n
      BY <1>0, <2>2
    <3>2. i + 1 \in 1 .. n
      BY <1>0, <3>1
    <3> QED
      BY <1>0, <2>1, <2>2, <3>2
  <2>3. CASE s[i][2] = 2 /\ i - 1 \in DOMAIN s /\ s[i - 1] = <<s[i][1], 1>>
    <3>1. i - 1 \in 1 .. n
      BY <1>0, <2>3
    <3> QED
      BY <1>0, <2>1, <2>3, <3>1
  <2> QED
    BY <1>0, <2>1, <2>2, <2>3 DEF Framed
<1>3. ASSUME NEW i \in DOMAIN b
      PROVE  \/ b[i][2] = 1 /\ i + 1 \in DOMAIN b /\ b[i + 1] = <<b[i][1], 2>>
             \/ b[i][2] = 2 /\ i - 1 \in DOMAIN b /\ b[i - 1] = <<b[i][1], 1>>
  <2>1. i \in 1 .. Len(s) - n /\ n + i \in DOMAIN s /\ b[i] = s[n + i]
    BY <1>0
  <2>2. CASE s[n + i][2] = 1 /\ n + i + 1 \in DOMAIN s /\ s[n + i + 1] = <<s[n + i][1], 2>>
    <3>1. i + 1 \in 1 .. Len(s) - n /\ n + (i + 1) = n + i + 1
      BY <1>0, <2>1, <2>2
    <3>2. b[i + 1] = s[n + i + 1]
      BY <1>0, <3>1
    <3> QED
      BY <1>0, <2>1, <2>2, <3>1, <3>2
  <2>3. CASE s[n + i][2] = 2 /\ n + i - 1 \in DOMAIN s /\ s[n + i - 1] = <<s[n + i][1], 1>>
    <3>1. s[n + i - 1][2] = 1
      BY <1>0, <2>3
    <3>2. n + i - 1 # n
      BY <1>0, <3>1
    <3>3. i - 1 \in 1 .. Len(s) - n /\ n + (i - 1) = n + i - 1
      BY <1>0, <2>1, <3>2
    <3>4. b[i - 1] = s[n + i - 1]
      BY <1>0, <3>3
    <3> QED
      BY <1>0, <2>1, <2>3, <3>3, <3>4
  <2> QED
    BY <1>0, <2>1, <2>2, <2>3 DEF Framed
<1>4. Framed(a) /\ Framed(b)
  BY <1>2, <1>3 DEF Framed
<1> QED
  BY <1>4 DEF a, b

LEMMA FramingNext == IInv /\ [Next]_vars => UncutIsFramed'
<1> SUFFICES ASSUME IInv, [Next]_vars PROVE UncutIsFramed'
  OBVIOUS
<1>0. HalvesAreSenders /\ UncutIsFramed /\ TypeOK
  BY DEF IInv
<1>1. CASE ScanReceives
  <2>1. Current \in Connections /\ Current' = Current
    BY <1>1, RecvHalves
  <2>2. /\ inbox[Current] \in Seq(Packets \X {1, 2})
        /\ inbox \in [Connections -> Seq(Packets \X {1, 2})]
    BY <1>0, <2>1 DEF TypeOK
  <2>3. PICK n \in 1 .. Len(inbox[Current]) :
          /\ buffer' = SubSeq(inbox[Current], 1, n)
          /\ inbox' = [inbox EXCEPT ![Current] = SubSeq(@, n + 1, Len(@))]
          /\ cut' = IF inbox[Current][n][2] = 1 THEN cut \cup {Current} ELSE cut
    BY <1>1 DEF ScanReceives, Current
  <2>4. /\ inbox'[Current] = SubSeq(inbox[Current], n + 1, Len(inbox[Current]))
        /\ \A d \in Connections \ {Current} : inbox'[d] = inbox[d]
    BY <2>1, <2>2, <2>3
  <2>5. Current \notin cut' => Framed(buffer') /\ Framed(inbox'[Current])
    <3> SUFFICES ASSUME Current \notin cut'
                 PROVE  Framed(buffer') /\ Framed(inbox'[Current])
      OBVIOUS
    <3>1. inbox[Current][n][2] # 1 /\ Current \notin cut
      BY <2>3
    <3>2. Framed(inbox[Current])
      BY <1>0, <2>1, <3>1 DEF UncutIsFramed
    <3>3. /\ Framed(SubSeq(inbox[Current], 1, n))
          /\ Framed(SubSeq(inbox[Current], n + 1, Len(inbox[Current])))
      BY <2>2, <3>1, <3>2, FramedSplit
    <3> QED
      BY <2>3, <2>4, <3>3
  <2>6. \A d \in Connections \ {Current} : d \notin cut' => Framed(inbox'[d])
    BY <1>0, <2>3, <2>4 DEF UncutIsFramed
  <2> QED
    BY <2>1, <2>5, <2>6 DEF UncutIsFramed
<1>2. CASE ParseError
  <2>1. UNCHANGED <<inbox, cut>> /\ DOMAIN buffer' = {}
    BY <1>2 DEF ParseError, netVars, historyVars
  <2> QED
    BY <1>0, <2>1 DEF UncutIsFramed, Framed
<1>3. ASSUME NEW p \in Packets, ParseRejects(p) \/ SendInterrupted(p) \/ ParseAccepts(p)
      PROVE  UncutIsFramed'
  <2>1. /\ pc = "parse" /\ StartsWith(p)
        /\ buffer' = SubSeq(buffer, 3, Len(buffer))
        /\ UNCHANGED <<inbox, cut>>
    BY <1>3 DEF ParseRejects, SendInterrupted, ParseAccepts, netVars
  <2>2. pc' = "parse" => Current' = Current
    BY <2>1, CurrentStays
  <2>3. Framed(buffer) => Framed(buffer')
    <3> SUFFICES ASSUME Framed(buffer) PROVE Framed(buffer')
      OBVIOUS
    <3>1. buffer \in Seq(Packets \X {1, 2})
      BY <1>0 DEF TypeOK
    <3>2. 2 \in 1 .. Len(buffer) /\ buffer[2][2] # 1
      BY <2>1, ParseHalves
    <3>3. Framed(SubSeq(buffer, 2 + 1, Len(buffer)))
      BY <3>1, <3>2, FramedSplit
    <3> QED
      BY <2>1, <3>3
  <2> QED
    BY <1>0, <2>1, <2>2, <2>3 DEF UncutIsFramed
<1>4. ASSUME NEW c \in Connections, NEW p \in Packets, ClientSends(c, p) PROVE UncutIsFramed'
  <2>1. UNCHANGED <<pc, buffer, cut>>
    BY <1>4 DEF ClientSends, loopVars, historyVars
  <2>2. pc' = "parse" => Current' = Current
    BY <2>1, CurrentStays
  <2>3. /\ Len(inbox[c]) \in Nat /\ DOMAIN inbox[c] = 1 .. Len(inbox[c])
        /\ DOMAIN inbox'[c] = 1 .. Len(inbox[c]) + 2
        /\ \A i \in 1 .. Len(inbox[c]) : inbox'[c][i] = inbox[c][i]
        /\ inbox'[c][Len(inbox[c]) + 1] = <<p, 1>>
        /\ inbox'[c][Len(inbox[c]) + 2] = <<p, 2>>
        /\ \A d \in Connections \ {c} : inbox'[d] = inbox[d]
    BY <1>4, SendHalves
  <2>4. ASSUME Framed(inbox[c]), NEW i \in DOMAIN inbox'[c]
        PROVE  \/ /\ inbox'[c][i][2] = 1 /\ i + 1 \in DOMAIN inbox'[c]
                  /\ inbox'[c][i + 1] = <<inbox'[c][i][1], 2>>
               \/ /\ inbox'[c][i][2] = 2 /\ i - 1 \in DOMAIN inbox'[c]
                  /\ inbox'[c][i - 1] = <<inbox'[c][i][1], 1>>
    <3>1. CASE i \in 1 .. Len(inbox[c])
      <4>1. CASE /\ inbox[c][i][2] = 1 /\ i + 1 \in DOMAIN inbox[c]
                 /\ inbox[c][i + 1] = <<inbox[c][i][1], 2>>
        <5>1. i + 1 \in 1 .. Len(inbox[c]) /\ i \in 1 .. Len(inbox[c])
          BY <2>3, <3>1, <4>1
        <5>2. inbox'[c][i + 1] = inbox[c][i + 1] /\ inbox'[c][i] = inbox[c][i]
          BY <2>3, <5>1
        <5>3. i + 1 \in DOMAIN inbox'[c]
          BY <2>3, <5>1
        <5> QED
          BY <4>1, <5>2, <5>3
      <4>2. CASE /\ inbox[c][i][2] = 2 /\ i - 1 \in DOMAIN inbox[c]
                 /\ inbox[c][i - 1] = <<inbox[c][i][1], 1>>
        <5>1. i - 1 \in 1 .. Len(inbox[c]) /\ i \in 1 .. Len(inbox[c])
          BY <2>3, <3>1, <4>2
        <5>2. inbox'[c][i - 1] = inbox[c][i - 1] /\ inbox'[c][i] = inbox[c][i]
          BY <2>3, <5>1
        <5>3. i - 1 \in DOMAIN inbox'[c]
          BY <2>3, <5>1
        <5> QED
          BY <4>2, <5>2, <5>3
      <4> QED
        BY <2>3, <2>4, <3>1, <4>1, <4>2 DEF Framed
    <3>2. CASE i = Len(inbox[c]) + 1
      <4>1. i + 1 = Len(inbox[c]) + 2 /\ i + 1 \in DOMAIN inbox'[c]
        BY <2>3, <3>2
      <4> QED
        BY <2>3, <3>2, <4>1
    <3>3. CASE i = Len(inbox[c]) + 2
      <4>1. i - 1 = Len(inbox[c]) + 1 /\ i - 1 \in DOMAIN inbox'[c]
        BY <2>3, <3>3
      <4> QED
        BY <2>3, <3>3, <4>1
    <3> QED
      BY <2>3, <3>1, <3>2, <3>3
  <2>5. Framed(inbox[c]) => Framed(inbox'[c])
    BY <2>4 DEF Framed
  <2>6. \A d \in Connections \ cut : Framed(inbox'[d])
    BY <1>0, <2>3, <2>5 DEF UncutIsFramed
  <2> QED
    BY <1>0, <2>1, <2>2, <2>6 DEF UncutIsFramed
<1>5. CASE Quiet
  <2>1. pc' = "parse" => pc = "parse" /\ Current' = Current
    BY <1>5, CurrentStays DEF Quiet
  <2> QED
    BY <1>0, <1>5, <2>1 DEF UncutIsFramed, Quiet
<1> QED
  BY <1>1, <1>2, <1>3, <1>4, <1>5, QuietSteps

-----------------------------------------------------------------------------
(* Who a response goes to. *)

(* A connection is closed for good, and its descriptor stays its own until    *)
(* then.                                                                      *)
LEMMA HeldUntilClosed ==
  ASSUME IInv, [Next]_vars
  PROVE  \A c \in Connections :
           /\ link[c] = "closed" => link'[c] = "closed"
           /\ \A fd \in Fds : owner[fd] = c => owner'[fd] = c \/ link'[c] = "closed"
<1>0. /\ TypeOK /\ OneFdEach /\ ListIsClients
      /\ owner \in [Fds -> Connections \cup Workers \cup {Nobody}]
      /\ link \in [Connections -> Links]
      /\ Nobody \notin Connections
      /\ \A w \in Workers : w \notin Connections
  BY SetsAssumption DEF IInv, TypeOK
<1>a. FreeFds # {} => Lowest(FreeFds) \in Fds /\ owner[Lowest(FreeFds)] = Nobody
  BY LowestIsFree DEF FreeFds
<1>b. ASSUME NEW fd, NEW p \in Packets, NEW outcome, Send(fd, p, outcome), owner' = owner
      PROVE  \A c \in Connections :
               /\ link[c] = "closed" => link'[c] = "closed"
               /\ \A gd \in Fds : owner[gd] = c => owner'[gd] = c \/ link'[c] = "closed"
  BY <1>0, <1>b, SendEffect
<1>1. CASE ProcessIncomingConnection
  BY <1>0, <1>a, <1>1 DEF ProcessIncomingConnection, Backlog
<1>2. CASE ScanCloses
  <2>1. Current \in Connections /\ clientSockets[iter] \in Fds
    BY <1>0, <1>2, AtIter DEF ScanCloses
  <2> QED
    BY <1>0, <1>2, <2>1 DEF ScanCloses, Current
<1>3. ASSUME NEW w \in Workers, CloseDeviceSocket(w) \/ OpenDeviceSocket(w)
      PROVE  \A c \in Connections :
               /\ link[c] = "closed" => link'[c] = "closed"
               /\ \A fd \in Fds : owner[fd] = c => owner'[fd] = c \/ link'[c] = "closed"
  BY <1>0, <1>a, <1>3 DEF CloseDeviceSocket, OpenDeviceSocket
<1>4. ASSUME NEW c \in Connections, ClientConnects(c) \/ ClientStopsReading(c) \/ ClientHangsUp(c)
      PROVE  \A d \in Connections :
               /\ link[d] = "closed" => link'[d] = "closed"
               /\ \A fd \in Fds : owner[fd] = d => owner'[fd] = d \/ link'[d] = "closed"
  BY <1>0, <1>4 DEF ClientConnects, ClientStopsReading, ClientHangsUp
<1>5. ASSUME NEW p \in Packets, ParseRejects(p)
      PROVE  \A c \in Connections :
               /\ link[c] = "closed" => link'[c] = "closed"
               /\ \A fd \in Fds : owner[fd] = c => owner'[fd] = c \/ link'[c] = "closed"
  BY <1>5, <1>b DEF ParseRejects
<1>6. ASSUME NEW w \in Workers, Respond(w)
      PROVE  \A c \in Connections :
               /\ link[c] = "closed" => link'[c] = "closed"
               /\ \A fd \in Fds : owner[fd] = c => owner'[fd] = c \/ link'[c] = "closed"
  <2>1. serving[w] \in Packets
    BY <1>0, <1>6, SetsAssumption DEF Respond, TypeOK
  <2> QED
    BY <1>6, <1>b, <2>1 DEF Respond
<1>7. CASE UNCHANGED <<owner, link>>
  BY <1>7
<1> QED
  BY <1>1, <1>2, <1>3, <1>4, <1>5, <1>6, <1>7
  DEF Next, ServerStep, Signal, WorkerStep, ClientStep, Select, RunReturns, ScanEnds, ScanSkips,
      ScanReceives, ParseEnds, ParseError, Stop, SendInterrupted, ParseAccepts, Take, Discard,
      RespondInterrupted, ClientSends, vars

(* What is parsed was sent by the connection that is read, and is new. *)
LEMMA ParsedIsCurrent ==
  ASSUME IInv, NEW p \in Packets, pc = "parse", StartsWith(p)
  PROVE  /\ Current \in Connections /\ clientSockets[iter] \in Fds
         /\ sender[p] = Current
         /\ p \notin handled
         /\ delivered[p] = <<>>
<1>1. Current \in Connections /\ clientSockets[iter] \in Fds
  BY AtIter DEF IInv, IterInList
<1>2. 1 \in DOMAIN buffer /\ buffer[1] = <<p, 1>> /\ buffer[1][1] = p
  BY ParseHalves
<1>3. sender[p] = Current
  BY <1>2 DEF IInv, HalvesAreSenders
<1>4. p \notin handled
  BY <1>2 DEF IInv, HalvesOnce
<1> QED
  BY <1>1, <1>3, <1>4 DEF IInv, AnsweredIsOver

(* A request that is finished was live, and unanswered until then. *)
LEMMA FinishedIsLive ==
  ASSUME IInv, NEW w \in Workers, NEW f, Pool!Finish(w, f)
  PROVE  LET p == serving[w] IN
         /\ p \in Commands /\ p \in Packets /\ p \in handled
         /\ fate[p] = "live" /\ fate'[p] = f
         /\ \A q \in Commands \ {p} : fate'[q] = fate[q]
         /\ delivered[p] = <<>>
<1>1. serving[w] \in Commands /\ fate[serving[w]] = "live"
  BY DEF Pool!Finish, IInv, TypeOK
<1>2. serving[w] \in Packets
  BY <1>1, SetsAssumption
<1>3. serving[w] \in handled
  BY <1>1 DEF IInv, LiveHoldsSocket
<1>4. delivered[serving[w]] = <<>>
  BY <1>1, <1>2 DEF IInv, AnsweredIsOver
<1>5. /\ fate'[serving[w]] = f
      /\ \A q \in Commands \ {serving[w]} : fate'[q] = fate[q]
  BY <1>1 DEF Pool!Finish, IInv, TypeOK
<1> QED
  BY <1>1, <1>2, <1>3, <1>4, <1>5

LEMMA LiveNext == IInv /\ [Next]_vars => LiveHoldsSocket'
<1> SUFFICES ASSUME IInv, [Next]_vars PROVE LiveHoldsSocket'
  OBVIOUS
<1>0. /\ TypeOK /\ LiveHoldsSocket
      /\ \A p \in handled : sender[p] \in Connections
      /\ Commands \subseteq Packets
  BY SetsAssumption DEF IInv, HalvesAreSenders
(* What is true of a live request stays so while its socket field and its     *)
(* sender do.                                                                 *)
<1>a. ASSUME NEW p \in Commands, fate[p] = "live",
             socket'[p] = socket[p], sender'[p] = sender[p]
      PROVE  /\ socket'[p] \in Fds
             /\ owner'[socket'[p]] = sender'[p] \/ link'[sender'[p]] = "closed"
  <2>1. sender[p] \in Connections
    BY <1>0, <1>a DEF LiveHoldsSocket
  <2> QED
    BY <1>0, <1>a, <2>1, HeldUntilClosed DEF LiveHoldsSocket
<1>1. ASSUME NEW p \in Packets, ParseAccepts(p) PROVE LiveHoldsSocket'
  <2>1. /\ p \in Commands /\ pc = "parse" /\ StartsWith(p)
        /\ handled' = handled \cup {p}
        /\ socket' = [socket EXCEPT ![p] = clientSockets[iter]]
        /\ fate' = [fate EXCEPT ![p] = "live"]
        /\ UNCHANGED <<owner, sender, link>>
    BY <1>1 DEF ParseAccepts, Pool!Submit, netVars
  <2>2. clientSockets[iter] \in Fds /\ sender[p] = Current
    BY <2>1, ParsedIsCurrent
  <2>3. /\ fate'[p] = "live" /\ socket'[p] = clientSockets[iter]
        /\ \A q \in Commands \ {p} : fate'[q] = fate[q] /\ socket'[q] = socket[q]
    BY <1>0, <2>1 DEF TypeOK
  <2>4. owner'[socket'[p]] = sender'[p]
    BY <2>1, <2>2, <2>3 DEF Current
  <2>5. ASSUME NEW q \in Commands \ {p}
        PROVE  /\ fate'[q] # "unborn" => q \in handled'
               /\ fate'[q] = "live" =>
                    /\ socket'[q] \in Fds
                    /\ owner'[socket'[q]] = sender'[q] \/ link'[sender'[q]] = "closed"
    BY <1>0, <1>a, <2>1, <2>3 DEF LiveHoldsSocket
  <2> QED
    BY <2>1, <2>2, <2>3, <2>4, <2>5 DEF LiveHoldsSocket
<1>2. ASSUME NEW w \in Workers, NEW f \in Pool!Fates, Pool!Finish(w, f),
             UNCHANGED <<handled, socket, sender>>
      PROVE  LiveHoldsSocket'
  <2>1. f # "live"
    BY DEF Pool!Fates
  <2> QED
    BY <1>0, <1>2, <1>a, <2>1, FinishedIsLive DEF LiveHoldsSocket
<1>3. ASSUME NEW c \in Connections, NEW p \in Packets, ClientSends(c, p)
      PROVE  LiveHoldsSocket'
  <2>1. UNCHANGED <<handled, socket, fate>>
    BY <1>3 DEF ClientSends, poolVars, historyVars
  <2>2. p \notin handled /\ \A q \in Packets \ {p} : sender'[q] = sender[q]
    BY <1>3, SendHalves, UnsentIsNowhere
  <2>3. \A q \in Commands : q # p \/ fate[q] = "unborn"
    BY <1>0, <2>2 DEF LiveHoldsSocket
  <2> QED
    BY <1>0, <1>a, <2>1, <2>2, <2>3 DEF LiveHoldsSocket
<1>4. CASE UNCHANGED <<fate, socket, sender>> /\ handled \subseteq handled'
  BY <1>0, <1>4, <1>a DEF LiveHoldsSocket
<1>5. ASSUME NEW w \in Workers, Discard(w) \/ Respond(w) \/ RespondInterrupted(w)
      PROVE  LiveHoldsSocket'
  <2>1. "answered" \in Pool!Fates /\ "unsent" \in Pool!Fates /\ "discarded" \in Pool!Fates
    BY DEF Pool!Fates
  <2>2. UNCHANGED <<handled, socket, sender>>
    BY <1>5 DEF Discard, Respond, RespondInterrupted, netVars, historyVars
  <2>3. UNCHANGED fate \/ \E f \in Pool!Fates : Pool!Finish(w, f)
    BY <1>5, <2>1 DEF Discard, Respond, RespondInterrupted, poolVars
  <2> QED
    BY <1>2, <1>4, <2>2, <2>3
<1> QED
  BY <1>1, <1>3, <1>4, <1>5
  DEF Next, ServerStep, Signal, WorkerStep, ClientStep, Select, RunReturns,
      ProcessIncomingConnection, ScanEnds, ScanSkips, ScanReceives, ScanCloses, ParseEnds,
      ParseError, ParseRejects, SendInterrupted, Stop, Take, Pool!Take, CloseDeviceSocket,
      OpenDeviceSocket, ClientConnects, ClientStopsReading, ClientHangsUp, vars, netVars,
      poolVars, historyVars

(* The responses sent by a step: none, or one of a packet not yet answered,   *)
(* to who asked or after who asked was disconnected.                          *)
LEMMA DeliveryStep ==
  ASSUME IInv, [Next]_vars
  PROVE  \/ delivered' = delivered
         \/ \E p \in Packets, to \in Connections \cup Workers :
              /\ delivered[p] = <<>> /\ sender[p] \in Connections
              /\ to = sender[p] \/ link[sender[p]] = "closed"
              /\ delivered' = [delivered EXCEPT ![p] = Append(@, to)]
              /\ UNCHANGED sender
              /\ p \in handled'
              /\ p \in Commands => fate'[p] = "answered"
<1>0. /\ TypeOK /\ LiveHoldsSocket
      /\ \A p \in handled : sender[p] \in Connections
  BY DEF IInv, HalvesAreSenders
<1>1. ASSUME NEW p \in Packets, ParseRejects(p), delivered' # delivered
      PROVE  /\ delivered[p] = <<>> /\ sender[p] \in Connections
             /\ Current \in Connections /\ Current = sender[p]
             /\ delivered' = [delivered EXCEPT ![p] = Append(@, Current)]
             /\ UNCHANGED sender
             /\ p \in handled' /\ p \notin Commands
  <2>1. pc = "parse" /\ StartsWith(p) /\ p \notin Commands
        /\ handled' = handled \cup {p} /\ UNCHANGED sender
    BY <1>1 DEF ParseRejects, netVars
  <2>2. PICK outcome \in Outcomes : Send(clientSockets[iter], p, outcome)
    BY <1>1 DEF ParseRejects
  <2>3. delivered' = [delivered EXCEPT ![p] = Append(@, Current)]
    BY <1>0, <1>1, <2>2, SendEffect DEF Current
  <2> QED
    BY <2>1, <2>3, ParsedIsCurrent
<1>2. ASSUME NEW w \in Workers, Respond(w), delivered' # delivered
      PROVE  \E p \in Packets, to \in Connections \cup Workers :
              /\ delivered[p] = <<>> /\ sender[p] \in Connections
              /\ to = sender[p] \/ link[sender[p]] = "closed"
              /\ delivered' = [delivered EXCEPT ![p] = Append(@, to)]
              /\ UNCHANGED sender
              /\ p \in handled'
              /\ p \in Commands => fate'[p] = "answered"
  <2> DEFINE p == serving[w]
  <2>1. p \in Packets
    BY <1>0, <1>2, SetsAssumption DEF Respond, TypeOK
  <2>2. PICK outcome \in Outcomes :
          /\ Send(socket[p], p, outcome)
          /\ \/ outcome = "killed"
             \/ outcome = "sent" /\ Pool!Finish(w, "answered")
             \/ outcome = "error"
    BY <1>2 DEF Respond
  <2>3. /\ outcome = "sent"
        /\ owner[socket[p]] \in Connections \cup Workers
        /\ delivered' = [delivered EXCEPT ![p] = Append(@, owner[socket[p]])]
    BY <1>0, <1>2, <2>1, <2>2, SendEffect
  <2>4. Pool!Finish(w, "answered")
    BY <2>2, <2>3
  <2>5. /\ p \in Commands /\ p \in handled /\ fate[p] = "live"
        /\ fate'[p] = "answered" /\ delivered[p] = <<>>
    BY <2>4, FinishedIsLive
  <2>6. UNCHANGED <<sender, handled>>
    BY <1>2 DEF Respond, netVars, historyVars
  <2>7. /\ sender[p] \in Connections
        /\ owner[socket[p]] = sender[p] \/ link[sender[p]] = "closed"
    BY <1>0, <2>5 DEF LiveHoldsSocket
  <2> HIDE DEF p
  <2> QED
    BY <2>1, <2>3, <2>5, <2>6, <2>7
<1>3. CASE delivered' = delivered
  BY <1>3
<1> QED
  BY <1>1, <1>2, <1>3
  DEF Next, ServerStep, Signal, WorkerStep, ClientStep, Select, RunReturns,
      ProcessIncomingConnection, ScanEnds, ScanSkips, ScanReceives, ScanCloses, ParseEnds,
      ParseError, ParseAccepts, SendInterrupted, Stop, Take, Discard, RespondInterrupted,
      CloseDeviceSocket, OpenDeviceSocket, ClientConnects, ClientSends, ClientStopsReading,
      ClientHangsUp, vars

LEMMA FateStep ==
  ASSUME IInv, [Next]_vars
  PROVE  /\ handled \subseteq handled'
         /\ \A p \in Commands : fate[p] = "answered" => fate'[p] = "answered"
<1>0. TypeOK
  BY DEF IInv
<1>1. handled \subseteq handled'
  BY DEF Next, ServerStep, Signal, WorkerStep, ClientStep, Select, RunReturns,
         ProcessIncomingConnection, ScanEnds, ScanSkips, ScanReceives, ScanCloses, ParseEnds,
         ParseError, ParseRejects, SendInterrupted, ParseAccepts, Stop, Take, Discard, Respond,
         RespondInterrupted, CloseDeviceSocket, OpenDeviceSocket, ClientConnects, ClientSends,
         ClientStopsReading, ClientHangsUp, vars, historyVars
<1>2. ASSUME NEW w \in Workers, Discard(w) \/ Respond(w) \/ RespondInterrupted(w), NEW p \in Commands,
             fate[p] = "answered"
      PROVE  fate'[p] = "answered"
  <2>1. UNCHANGED fate \/ \E f \in Pool!Fates : Pool!Finish(w, f)
    BY <1>2 DEF Discard, Respond, RespondInterrupted, poolVars, Pool!Fates
  <2> QED
    BY <1>2, <2>1, FinishedIsLive
<1>3. ASSUME NEW q \in Packets, ParseAccepts(q), NEW p \in Commands, fate[p] = "answered"
      PROVE  fate'[p] = "answered"
  BY <1>0, <1>3 DEF ParseAccepts, Pool!Submit, TypeOK
<1>4. CASE UNCHANGED fate
  BY <1>1, <1>4
<1> QED
  BY <1>1, <1>2, <1>3, <1>4
  DEF Next, ServerStep, Signal, WorkerStep, ClientStep, Select, RunReturns,
      ProcessIncomingConnection, ScanEnds, ScanSkips, ScanReceives, ScanCloses, ParseEnds,
      ParseError, ParseRejects, SendInterrupted, Stop, Take, Pool!Take, CloseDeviceSocket,
      OpenDeviceSocket, ClientConnects, ClientSends, ClientStopsReading, ClientHangsUp, vars,
      poolVars

LEMMA AnsweredNext == IInv /\ [Next]_vars => AnsweredIsOver'
<1> SUFFICES ASSUME IInv, [Next]_vars, NEW p \in Packets, delivered'[p] # <<>>
             PROVE  p \in handled' /\ (p \in Commands => fate'[p] = "answered")
  BY DEF AnsweredIsOver
<1>1. CASE delivered[p] # <<>>
  BY <1>1, FateStep DEF IInv, AnsweredIsOver
<1>2. CASE delivered[p] = <<>>
  <2>1. PICK q \in Packets, to \in Connections \cup Workers :
          /\ delivered' = [delivered EXCEPT ![q] = Append(@, to)]
          /\ q \in handled'
          /\ q \in Commands => fate'[q] = "answered"
    BY <1>2, DeliveryStep
  <2>2. q = p
    BY <1>2, <2>1 DEF IInv, TypeOK
  <2> QED
    BY <2>1, <2>2
<1> QED
  BY <1>1, <1>2

LEMMA ResponsesNext == IInv /\ [Next]_vars => ResponsesReachAsker'
<1> SUFFICES ASSUME IInv, [Next]_vars, NEW p \in Packets
             PROVE  /\ Len(delivered'[p]) <= 1
                    /\ \A to \in Range(delivered'[p]) :
                         to = sender'[p] \/ link'[sender'[p]] = "closed"
  BY DEF ResponsesReachAsker
<1>0. /\ TypeOK /\ ResponsesReachAsker
      /\ delivered \in [Packets -> Seq(Connections \cup Workers)]
      /\ delivered[p] # <<>> => p \in handled /\ sender[p] \in Connections
  BY DEF IInv, AnsweredIsOver, TypeOK, HalvesAreSenders
<1>1. CASE delivered'[p] = delivered[p] /\ delivered[p] = <<>>
  BY <1>1 DEF Range
<1>2. CASE delivered'[p] = delivered[p] /\ delivered[p] # <<>>
  <2>1. sender'[p] = sender[p]
    <3>1. ASSUME NEW c \in Connections, NEW q \in Packets, ClientSends(c, q)
          PROVE  sender'[p] = sender[p]
      <4>1. q # p
        BY <1>0, <1>2, <3>1, SendHalves, UnsentIsNowhere
      <4> QED
        BY <3>1, <4>1, SendHalves
    <3>2. CASE UNCHANGED sender
      BY <3>2
    <3> QED
      BY <3>1, <3>2
      DEF Next, ServerStep, Signal, WorkerStep, ClientStep, Select, RunReturns,
          ProcessIncomingConnection, ScanEnds, ScanSkips, ScanReceives, ScanCloses, ParseEnds,
          ParseError, ParseRejects, SendInterrupted, ParseAccepts, Stop, Take, Discard, Respond,
          RespondInterrupted, CloseDeviceSocket, OpenDeviceSocket, ClientConnects,
          ClientStopsReading, ClientHangsUp, vars, netVars
  <2>2. link[sender[p]] = "closed" => link'[sender[p]] = "closed"
    BY <1>0, <1>2, HeldUntilClosed
  <2> QED
    BY <1>0, <1>2, <2>1, <2>2 DEF ResponsesReachAsker
<1>3. CASE delivered'[p] # delivered[p]
  <2>1. PICK q \in Packets, to \in Connections \cup Workers :
          /\ delivered[q] = <<>> /\ sender[q] \in Connections
          /\ to = sender[q] \/ link[sender[q]] = "closed"
          /\ delivered' = [delivered EXCEPT ![q] = Append(@, to)]
          /\ UNCHANGED sender
    BY <1>3, DeliveryStep
  <2>2. q = p
    BY <1>0, <1>3, <2>1
  <2>3. delivered'[p] = Append(<<>>, to)
    BY <1>0, <2>1, <2>2
  <2>4. Len(delivered'[p]) = 1 /\ Range(delivered'[p]) = {to}
    BY <2>3 DEF Range
  <2> QED
    BY <2>1, <2>2, <2>4, HeldUntilClosed
<1> QED
  BY <1>1, <1>2, <1>3

-----------------------------------------------------------------------------
(* What is lost. *)

(* A packet sent and not handled is still where it was, for every step but    *)
(* the five that move halves.                                                 *)
LEMMA LostNext == IInv /\ [Next]_vars => LostOnlyByCut'
<1> SUFFICES ASSUME IInv, [Next]_vars, NEW p \in Packets,
                    sender'[p] # Nobody, p \notin handled', sender'[p] \notin cut',
                    link'[sender'[p]] # "closed"
             PROVE  <<p, 1>> \in Range(inbox'[sender'[p]]) \cup Range(buffer')
  BY DEF LostOnlyByCut
<1>0. /\ TypeOK /\ HalvesAreSenders /\ UncutIsFramed /\ LostOnlyByCut
      /\ sender \in [Packets -> Connections \cup {Nobody}]
      /\ inbox \in [Connections -> Seq(Packets \X {1, 2})]
      /\ buffer \in Seq(Packets \X {1, 2})
      /\ p \notin handled
  BY FateStep DEF IInv, TypeOK
<1>a. ASSUME sender'[p] = sender[p], cut \subseteq cut'
      PROVE  /\ sender[p] \in Connections /\ sender[p] \notin cut
             /\ <<p, 1>> \in Range(inbox[sender[p]]) \cup Range(buffer)
  <2>1. sender[p] \in Connections /\ sender[p] \notin cut
    BY <1>0, <1>a
  <2>2. link[sender[p]] # "closed"
    BY <1>a, <2>1, HeldUntilClosed
  <2> QED
    BY <1>0, <1>a, <2>1, <2>2 DEF LostOnlyByCut
<1>1. CASE ScanReceives
  <2>1. UNCHANGED sender /\ cut \subseteq cut'
    BY <1>1 DEF ScanReceives
  <2>2. buffer = <<>>
    BY <1>0, <1>1 DEF ScanReceives, HalvesAreSenders
  <2>3. sender[p] \in Connections /\ <<p, 1>> \in Range(inbox[sender[p]])
    BY <1>a, <2>1, <2>2 DEF Range
  <2>4. PICK i \in DOMAIN inbox[sender[p]] : inbox[sender[p]][i] = <<p, 1>>
    BY <2>3 DEF Range
  <2>5. Len(inbox[Current]) \in Nat /\ DOMAIN inbox[Current] = 1 .. Len(inbox[Current])
    BY <1>1, RecvHalves
  <2>6. PICK n \in 1 .. Len(inbox[Current]) :
              /\ DOMAIN buffer' = 1 .. n
              /\ \A j \in 1 .. n : buffer'[j] = inbox[Current][j]
              /\ DOMAIN inbox'[Current] = 1 .. Len(inbox[Current]) - n
              /\ \A j \in 1 .. Len(inbox[Current]) - n :
                   inbox'[Current][j] = inbox[Current][n + j]
              /\ \A d \in Connections \ {Current} : inbox'[d] = inbox[d]
    BY <1>1, RecvHalves
  <2>7. CASE sender[p] # Current
    BY <2>1, <2>3, <2>6, <2>7
  <2>8. CASE sender[p] = Current /\ i <= n
    <3>1. i \in DOMAIN buffer' /\ buffer'[i] = <<p, 1>>
      BY <2>4, <2>5, <2>6, <2>8
    <3> QED
      BY <3>1 DEF Range
  <2>9. CASE sender[p] = Current /\ ~(i <= n)
    <3>1. i - n \in DOMAIN inbox'[Current] /\ n + (i - n) = i
      BY <2>4, <2>5, <2>6, <2>9
    <3>2. inbox'[Current][i - n] = <<p, 1>>
      BY <2>4, <2>6, <2>9, <3>1
    <3> QED
      BY <2>1, <2>9, <3>1, <3>2 DEF Range
  <2> QED
    BY <2>7, <2>8, <2>9
<1>2. CASE ParseError
  <2>1. /\ UNCHANGED <<sender, inbox, cut>>
        /\ pc = "parse" /\ buffer # <<>> /\ \A q \in Packets : ~StartsWith(q)
    BY <1>2 DEF ParseError, netVars, historyVars
  <2>2. ASSUME <<p, 1>> \notin Range(inbox[sender[p]]) PROVE FALSE
    <3>1. /\ sender[p] \notin cut
          /\ <<p, 1>> \in Range(buffer)
      BY <1>a, <2>1, <2>2
    <3>2. PICK i \in DOMAIN buffer : buffer[i] = <<p, 1>>
      BY <3>1 DEF Range
    <3>3. Current = sender[p]
      BY <1>0, <2>1, <3>2 DEF HalvesAreSenders
    <3>4. Framed(buffer)
      BY <1>0, <2>1, <3>1, <3>3 DEF UncutIsFramed
    <3>5. /\ Len(buffer) \in Nat /\ DOMAIN buffer = 1 .. Len(buffer) /\ 1 \in DOMAIN buffer
      BY <1>0, <3>2
    <3>6. buffer[1][1] \in Packets /\ buffer[1] = <<buffer[1][1], buffer[1][2]>>
      BY <1>0, <3>5, HalfElements
    <3>7. buffer[1][2] = 1 /\ 2 \in DOMAIN buffer /\ buffer[2] = <<buffer[1][1], 2>>
      <4>1. \/ buffer[1][2] = 1 /\ 1 + 1 \in DOMAIN buffer /\ buffer[1 + 1] = <<buffer[1][1], 2>>
            \/ 1 - 1 \in DOMAIN buffer
        BY <3>4, <3>5 DEF Framed
      <4>2. 1 - 1 \notin DOMAIN buffer /\ 1 + 1 = 2
        BY <3>5
      <4> QED
        BY <4>1, <4>2
    <3>8. StartsWith(buffer[1][1])
      <4>1. /\ SubSeq(buffer, 1, 2) \in Seq(Packets \X {1, 2})
            /\ DOMAIN SubSeq(buffer, 1, 2) = 1 .. 2
            /\ \A j \in 1 .. 2 : SubSeq(buffer, 1, 2)[j] = buffer[j]
        BY <1>0, <3>5, <3>7, SplitElements
      <4>2. SubSeq(buffer, 1, 2) = << buffer[1], buffer[2] >>
        <5>1. buffer \in Seq(Packets \X {1, 2})
          BY <1>0
        <5> HIDE DEF StartsWith
        <5> QED
          BY <4>1, <5>1, TwoElements, Zenon
      <4>3. buffer[1] = <<buffer[1][1], 1>>
        BY <3>6, <3>7
      <4> QED
        BY <3>5, <3>7, <4>2, <4>3 DEF StartsWith, Whole
    <3> QED
      BY <2>1, <3>6, <3>8
  <2> QED
    BY <2>1, <2>2
<1>3. ASSUME NEW q \in Packets, ParseRejects(q) \/ SendInterrupted(q) \/ ParseAccepts(q)
      PROVE  <<p, 1>> \in Range(inbox'[sender'[p]]) \cup Range(buffer')
  <2>1. /\ StartsWith(q)
        /\ buffer' = SubSeq(buffer, 3, Len(buffer))
        /\ handled' = handled \cup {q}
        /\ UNCHANGED <<inbox, sender, cut>>
    BY <1>3 DEF ParseRejects, SendInterrupted, ParseAccepts, netVars
  <2>2. <<p, 1>> \in Range(inbox[sender[p]]) \cup Range(buffer)
    BY <1>a, <2>1
  <2>3. ASSUME NEW i \in DOMAIN buffer, buffer[i] = <<p, 1>>
        PROVE  <<p, 1>> \in Range(buffer')
    <3>1. /\ Len(buffer) \in Nat /\ Len(buffer) >= 2
          /\ DOMAIN buffer = 1 .. Len(buffer)
          /\ buffer[1] = <<q, 1>> /\ buffer[2] = <<q, 2>>
          /\ DOMAIN buffer' = 1 .. Len(buffer) - 2
          /\ \A j \in 1 .. Len(buffer) - 2 : buffer'[j] = buffer[j + 2]
      BY <2>1, ParseHalves
    <3>2. i # 1 /\ i # 2
      BY <2>1, <2>3, <3>1
    <3>3. i - 2 \in 1 .. Len(buffer) - 2 /\ (i - 2) + 2 = i
      BY <3>1, <3>2
    <3>4. buffer'[i - 2] = <<p, 1>>
      BY <2>3, <3>1, <3>3
    <3> QED
      BY <3>1, <3>3, <3>4 DEF Range
  <2> QED
    BY <2>1, <2>2, <2>3 DEF Range
<1>4. ASSUME NEW c \in Connections, NEW q \in Packets, ClientSends(c, q)
      PROVE  <<p, 1>> \in Range(inbox'[sender'[p]]) \cup Range(buffer')
  <2>1. UNCHANGED <<buffer, cut>>
    BY <1>4 DEF ClientSends, loopVars, historyVars
  <2>2. /\ Len(inbox[c]) \in Nat /\ DOMAIN inbox[c] = 1 .. Len(inbox[c])
        /\ DOMAIN inbox'[c] = 1 .. Len(inbox[c]) + 2
        /\ \A i \in 1 .. Len(inbox[c]) : inbox'[c][i] = inbox[c][i]
        /\ inbox'[c][Len(inbox[c]) + 1] = <<q, 1>>
        /\ \A d \in Connections \ {c} : inbox'[d] = inbox[d]
        /\ sender[q] = Nobody /\ sender'[q] = c
        /\ \A r \in Packets \ {q} : sender'[r] = sender[r]
    BY <1>4, SendHalves
  <2>3. CASE p = q
    <3>1. Len(inbox[c]) + 1 \in DOMAIN inbox'[c]
      BY <2>2
    <3> QED
      BY <2>2, <2>3, <3>1 DEF Range
  <2>4. CASE p # q
    <3>1. <<p, 1>> \in Range(inbox[sender[p]]) \cup Range(buffer)
      BY <1>a, <2>1, <2>2, <2>4
    <3>2. sender[p] = c => Range(inbox[c]) \subseteq Range(inbox'[c])
      BY <2>2 DEF Range
    <3>3. sender[p] # c => inbox'[sender[p]] = inbox[sender[p]]
      BY <1>a, <2>1, <2>2, <2>4
    <3> QED
      BY <2>1, <2>2, <2>4, <3>1, <3>2, <3>3
  <2> QED
    BY <2>3, <2>4
<1>5. CASE Quiet
  BY <1>a, <1>5 DEF Quiet
<1> QED
  BY <1>1, <1>2, <1>3, <1>4, <1>5, QuietSteps

-----------------------------------------------------------------------------
LEMMA IInvAlways == Spec => []IInv
<1>1. IInv /\ [Next]_vars => IInv'
  BY TypeNext, ListNext, IterNext, SendersNext, OnceNext, FramingNext, LiveNext,
     AnsweredNext, ResponsesNext, LostNext
  DEF IInv
<1> QED
  BY <1>1, InitIInv, PTL DEF Spec

(* Every value the server, the pool and the network hold is of its type: in   *)
(* particular the scan never runs past the list by more than its end, and     *)
(* every descriptor on the list is one of the process's.                      *)
THEOREM TypesKept == Spec => []TypeOK
<1>1. IInv => TypeOK
  BY DEF IInv
<1> QED
  BY <1>1, IInvAlways, PTL

(* Server::clientSockets is the accepted connections' descriptors, each once: *)
(* select is never given a closed descriptor or one of a worker's device      *)
(* sockets, and no descriptor of a client is forgotten, for any interleaving  *)
(* of accepts, hang-ups and device reconnections.                             *)
THEOREM ListIsExact == Spec => []SocketsAreClients
<1>1. IInv => SocketsAreClients
  <2> SUFFICES ASSUME IInv PROVE SocketsAreClients
    OBVIOUS
  <2>1. ListIsClients /\ clientSockets \in Seq(Fds) /\ owner \in [Fds -> Connections \cup Workers \cup {Nobody}]
    BY DEF IInv, TypeOK
  <2>2. IsInjective(clientSockets)
    BY <2>1 DEF ListIsClients, IsInjective
  <2>3. {owner[fd] : fd \in Range(clientSockets)} = {c \in Connections : link[c] \in Accepted}
    BY <2>1 DEF ListIsClients, Range
  <2>4. \A fd \in Fds : owner[fd] \in Connections => fd \in Range(clientSockets)
    BY <2>1 DEF ListIsClients, Range
  <2> QED
    BY <2>2, <2>3, <2>4 DEF SocketsAreClients
<1> QED
  BY <1>1, IInvAlways, PTL

(* The response that a worker or the main thread sends on a descriptor        *)
(* reaches the connection the packet came on, unless that connection has been *)
(* closed and its number handed out again; and no packet is answered twice.   *)
THEOREM ResponsesGoBack == Spec => []ResponsesReachAsker
<1>1. IInv => ResponsesReachAsker
  BY DEF IInv
<1> QED
  BY <1>1, IInvAlways, PTL

(* Whatever the interleaving, the only way the server loses what an accepted  *)
(* client sent is a recv that ended in the middle of a packet.                *)
THEOREM OnlyCutsLose == Spec => []LostOnlyByCut
<1>1. IInv => LostOnlyByCut
  BY DEF IInv
<1> QED
  BY <1>1, IInvAlways, PTL

=============================================================================
