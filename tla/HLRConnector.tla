----------------------------- MODULE HLRConnector -----------------------------
(***************************************************************************)
(* HLRConnector.cpp: one connector, its TCP connection and the device at   *)
(* the other end.  The connector logs in by answering the device's         *)
(* questions, sends one command at a time, and collects text until it sees *)
(* an answer.  It finds out that the connection is lost only by what recv  *)
(* happens to return.                                                      *)
(*                                                                         *)
(* Text is a sequence of pieces <<kind, command, half>>: a phrase the      *)
(* connector looks for is two halves, because TCP may cut it anywhere and  *)
(* strstr finds it only when both halves lie in the buffer searched.  The  *)
(* questions LOGIN:, PASSWORD:, DOMAIN: and TERMINAL TYPE? are handled     *)
(* alike and are one kind; so are END and EXECUTED.  DENIED is both        *)
(* AUTHORIZATION FAILURE, which is looked for before SUCCESS, and ERR,     *)
(* which is looked for after it: next to a SUCCESS either may be found.    *)
(* A Telnet negotiation is one piece: TelnetParse, which has a module of   *)
(* its own, takes it out of what recv returned and answers it.             *)
(*                                                                         *)
(* A send on a connection that the peer has reset raises SIGPIPE, for      *)
(* which main installs no handler: it kills the process.                   *)
(***************************************************************************)
EXTENDS Naturals, Sequences, FiniteSets

CONSTANTS
  maxLoginAttempts,
  MaxCommands,   \* bound: calls of ProcessCommand
  MaxConnects,   \* bound: connections the device accepts
  MaxNotices,    \* bound: what the device sends on its own
  MaxInput       \* bound: what the device leaves unread while it talks

ASSUME BoundsAssumption ==
  /\ maxLoginAttempts \in Nat \ {0}
  /\ {MaxCommands, MaxConnects, MaxNotices, MaxInput} \subseteq Nat

VARIABLES
  pc,               \* where the thread that uses the connector is
  cmd,              \* the command in progress, or the last one
  socketConnected, loggedInToHLR,
  attempts,         \* nAttemptCounter
  onLogin,          \* where Reconnect, if called in this call, returns to
  hlrResponse,      \* the text collected for the command
  sock,             \* the socket, as the kernel sees it
  inbox,            \* text sent by the device and not received
  todo,             \* what the device received and has not acted on
  device,           \* the device's side of the session
  ordered,          \* the command it answered with ORDERED, or 0
  talking,          \* it sends text that is no phrase, without a pause
  connects, notices,   \* what the bounds count
  abandoned         \* history: a command on this connection was given up

connectorVars == <<pc, cmd, socketConnected, loggedInToHLR, attempts, onLogin,
                   hlrResponse, abandoned>>
deviceVars == <<device, ordered, talking, notices>>
vars == <<connectorVars, deviceVars, sock, inbox, todo, connects>>

Commands == 1 .. MaxCommands

(* What the device says, and what it is told. *)
Kinds == {"ASK", "SUCCESS", "PROMPT", "DENIED", "ANSWER", "REFUSED", "ORDERED",
          "LOGGED OFF", "TIME OUT", "NEGOTIATION"}
Inputs == {<<"attribute", 0>>, <<"crlf", 0>>, <<"escape", 0>>}
            \cup ({"command"} \X Commands)

Pieces == Kinds \X (0 .. MaxCommands) \X {1, 2}

Text(kind, c) == << <<kind, c, 1>>, <<kind, c, 2>> >>
Negotiation == <<"NEGOTIATION", 0, 1>>

At(buf, i, kind) ==
  i + 1 \in DOMAIN buf /\ \E c \in {0} \cup Commands : SubSeq(buf, i, i + 1) = Text(kind, c)

(* strstr(buf, kind) != NULL *)
Finds(buf, kind) == \E i \in DOMAIN buf : At(buf, i, kind)

(* The command that the first answer in buf is for. *)
Answered(buf) ==
  LET i == CHOOSE j \in DOMAIN buf :
             At(buf, j, "ANSWER") /\ \A k \in 1 .. j - 1 : ~At(buf, k, "ANSWER")
  IN buf[i][2]

EndsWithPrompt(buf) == Len(buf) > 1 /\ At(buf, Len(buf) - 1, "PROMPT")

PCs == {"init", "login", "idle", "restore", "peek", "check", "response",
        "maintain", "failed", "killed"}

(* "eof": the peer closed; "reset": it reset the connection and recv has not  *)
(* told yet; "dead": a reset that recv will not report any more.              *)
Sockets == {"none", "open", "eof", "reset", "dead"}

Init ==
  /\ pc = "init"
  /\ cmd = 0
  /\ socketConnected = FALSE /\ loggedInToHLR = FALSE
  /\ attempts = 0
  /\ onLogin = "none"
  /\ hlrResponse = <<>>
  /\ sock = "none"
  /\ inbox = <<>> /\ todo = <<>>
  /\ device = "new" /\ ordered = 0
  /\ talking = FALSE
  /\ connects = 0 /\ notices = 0
  /\ abandoned = FALSE

-----------------------------------------------------------------------------
(* The socket calls. *)

(* recv returns some of the text sent so far. *)
Recv(chunk) ==
  \E n \in 1 .. Len(inbox) :
    /\ chunk = SubSeq(inbox, 1, n)
    /\ inbox' = SubSeq(inbox, n + 1, Len(inbox))

Chunks == {SubSeq(inbox, 1, n) : n \in 1 .. Len(inbox)}

(* TelnetParse: what it leaves of a chunk, whose k-th piece is the k-th kept. *)
Filtered(chunk) ==
  LET kept == {i \in DOMAIN chunk : chunk[i] # Negotiation}
      Kth(k) == CHOOSE i \in kept : Cardinality({j \in kept : j <= i}) = k
  IN [k \in 1 .. Cardinality(kept) |-> chunk[Kth(k)]]
Refuses(chunk) == \E i \in DOMAIN chunk : chunk[i] = Negotiation

(* No phrase to read.  If the device does not talk either, select times out   *)
(* and a recv would block.                                                    *)
Idle == sock = "open" /\ inbox = <<>>
Silent == Idle /\ ~talking

(* recv returns 0, now and for ever; a recv that fails, once. *)
AtEof == sock \in {"eof", "dead"} /\ inbox = <<>>
RecvFails == sock = "reset" /\ inbox = <<>>

(* send: the data reaches an open connection; a peer that has closed resets   *)
(* the connection in reply; a reset not yet reported makes send fail.         *)
SendOn(s, x, outcome) ==
  \/ s = "open"  /\ outcome = "sent"   /\ todo' = Append(todo, x) /\ sock' = s
  \/ s = "eof"   /\ outcome = "sent"   /\ todo' = todo /\ sock' \in {"eof", "dead"}
  \/ s = "reset" /\ outcome = "error"  /\ todo' = todo /\ sock' = "dead"
  \/ s = "dead"  /\ outcome = "killed" /\ todo' = todo /\ sock' = "dead"

Send(x, outcome) == SendOn(sock, x, outcome)

(* The socket once TelnetParse has answered a chunk; the refusal tells the    *)
(* device nothing, and what its send returns is not looked at.                *)
AfterParse(chunk) ==
  IF Refuses(chunk)
  THEN CASE sock = "eof" -> {"eof", "dead"}
         [] sock = "reset" -> {"dead"}
         [] sock = "dead" -> {}
         [] OTHER -> {sock}
  ELSE {sock}

(* The refusal finds a dead connection. *)
RefusalKills ==
  /\ pc \in {"login", "peek", "response"}
  /\ sock = "dead"
  /\ \E chunk \in Chunks : Refuses(chunk)
  /\ pc' = "killed"
  /\ UNCHANGED <<cmd, socketConnected, loggedInToHLR, attempts, onLogin, hlrResponse,
                 abandoned, deviceVars, sock, inbox, todo, connects>>

Outcomes == {"sent", "error", "killed"}

(* Fault for mutation: a failed connect leaves loggedInToHLR as it was. *)
ConnectKeepsLogin(failure) ==
  /\ inbox' = <<>> /\ todo' = <<>>
  /\ device' = "new" /\ ordered' = 0 /\ talking' = FALSE
  /\ abandoned' = FALSE
  /\ attempts' = 0
  /\ \/ /\ connects < MaxConnects
        /\ connects' = connects + 1
        /\ sock' = "open"
        /\ socketConnected' = TRUE /\ loggedInToHLR' = FALSE
        /\ pc' = "login"
     \/ /\ sock' = "none"
        /\ socketConnected' = FALSE
        /\ pc' = failure
        /\ UNCHANGED <<connects, loggedInToHLR>>
  /\ UNCHANGED <<cmd, hlrResponse, notices>>

(* CreateSocketAndConnect, after which LoginToHLR runs; `failure' is where    *)
(* its caller goes when it fails.                                             *)
CreateSocketAndConnect(failure) ==
  /\ loggedInToHLR' = FALSE
  /\ inbox' = <<>> /\ todo' = <<>>
  /\ device' = "new" /\ ordered' = 0 /\ talking' = FALSE
  /\ abandoned' = FALSE
  /\ attempts' = 0
  /\ \/ /\ connects < MaxConnects
        /\ connects' = connects + 1
        /\ sock' = "open"
        /\ socketConnected' = TRUE
        /\ pc' = "login"
     \/ /\ sock' = "none"
        /\ socketConnected' = FALSE
        /\ pc' = failure
        /\ UNCHANGED connects
  /\ UNCHANGED <<cmd, hlrResponse, notices>>

(* Initialize: on failure main exits. *)
Initialize ==
  /\ pc = "init"
  /\ CreateSocketAndConnect("failed")
  /\ UNCHANGED onLogin

(* Reconnect, from RestoreConnectionIfNeeded, which goes on at `to' if it     *)
(* succeeds and returns if it does not.                                       *)
Reconnect(to) ==
  /\ CreateSocketAndConnect("check")
  /\ onLogin' = to

-----------------------------------------------------------------------------
(* LoginToHLR and MakeAttemptToLogin, one recv at a time: each chunk is       *)
(* looked at alone.  When recv returns 0, or text without a phrase, the loop  *)
(* goes round and changes nothing, so it is no action.                        *)

loginUnchanged == <<cmd, socketConnected, onLogin, hlrResponse, abandoned, connects,
                    deviceVars>>

(* Fault for mutation: <= for < in the test of the attempt counter. *)
AttemptFailsLate ==
  IF attempts + 1 <= maxLoginAttempts
  THEN attempts' = attempts + 1 /\ UNCHANGED <<pc, loggedInToHLR>>
  ELSE /\ attempts' = 0
       /\ pc' = IF onLogin = "none" THEN "failed" ELSE "check"
       /\ UNCHANGED loggedInToHLR

AttemptFails ==
  IF attempts + 1 < maxLoginAttempts
  THEN attempts' = attempts + 1 /\ UNCHANGED <<pc, loggedInToHLR>>
  ELSE /\ attempts' = 0
       /\ pc' = IF onLogin = "none" THEN "failed" ELSE "check"
       /\ UNCHANGED loggedInToHLR

LoginSucceeds ==
  /\ loggedInToHLR' = TRUE
  /\ attempts' = 0
  /\ pc' = IF onLogin = "none" THEN "idle" ELSE onLogin

LoginRecv ==
  /\ pc = "login"
  /\ \E raw \in Chunks : \E s \in AfterParse(raw) :
       LET chunk == Filtered(raw) IN
       /\ Recv(raw)
       /\ \/ /\ Finds(chunk, "ASK")               \* SendLoginAttribute
             /\ \E outcome \in Outcomes :
                  /\ SendOn(s, <<"attribute", 0>>, outcome)
                  /\ \/ outcome = "sent" /\ UNCHANGED <<pc, loggedInToHLR, attempts>>
                     \/ outcome = "error" /\ AttemptFails
                     \/ outcome = "killed" /\ pc' = "killed"
                          /\ UNCHANGED <<loggedInToHLR, attempts>>
          \/ /\ ~Finds(chunk, "ASK")
             /\ \/ Finds(chunk, "PROMPT") /\ LoginSucceeds
                \/ ~Finds(chunk, "PROMPT") /\ Finds(chunk, "DENIED") /\ AttemptFails
                \/ ~Finds(chunk, "PROMPT") /\ Finds(chunk, "SUCCESS") /\ LoginSucceeds
                \/ /\ \A kind \in {"PROMPT", "DENIED", "SUCCESS"} : ~Finds(chunk, kind)
                   /\ UNCHANGED <<pc, loggedInToHLR, attempts>>
             /\ sock' = s /\ UNCHANGED todo
  /\ UNCHANGED loginUnchanged

LoginRecvFails ==
  /\ pc = "login"
  /\ RecvFails
  /\ sock' = "dead"
  /\ AttemptFails
  /\ UNCHANGED <<loginUnchanged, inbox, todo>>

LoginTimeout ==
  /\ pc = "login"
  /\ Silent
  /\ AttemptFails
  /\ UNCHANGED <<loginUnchanged, sock, inbox, todo>>

(* The handler of a signal runs in this thread: select fails, its set still   *)
(* names the socket, and recv fails with EWOULDBLOCK.  No handler is          *)
(* installed before the first login.                                          *)
LoginInterrupted ==
  /\ pc = "login" /\ onLogin # "none"
  /\ Idle
  /\ AttemptFails
  /\ UNCHANGED <<loginUnchanged, sock, inbox, todo>>

-----------------------------------------------------------------------------
(* ProcessCommand. *)

Call ==
  /\ pc = "idle"
  /\ cmd < MaxCommands
  /\ cmd' = cmd + 1
  /\ onLogin' = "none"
  /\ pc' = "restore"
  /\ UNCHANGED <<socketConnected, loggedInToHLR, attempts, hlrResponse, abandoned,
                 deviceVars, sock, inbox, todo, connects>>

(* RestoreConnectionIfNeeded: the flag. *)
Restore ==
  /\ pc = "restore"
  /\ IF socketConnected
     THEN /\ pc' = "peek"
          /\ UNCHANGED <<cmd, socketConnected, loggedInToHLR, attempts, onLogin,
                         hlrResponse, abandoned, deviceVars, sock, inbox, todo, connects>>
     ELSE Reconnect("peek")

(* RestoreConnectionIfNeeded: one recv, whatever it finds. *)
PeekNothing ==
  /\ pc = "peek"
  /\ Idle \/ AtEof
  /\ pc' = "check"
  /\ UNCHANGED <<cmd, socketConnected, loggedInToHLR, attempts, onLogin, hlrResponse,
                 abandoned, deviceVars, sock, inbox, todo, connects>>

PeekFails ==
  /\ pc = "peek"
  /\ RecvFails
  /\ Reconnect("check")

PeekLoggedOff ==
  /\ pc = "peek"
  /\ \E raw \in Chunks :
       AfterParse(raw) # {} /\ Finds(Filtered(raw), "LOGGED OFF")
  /\ Reconnect("check")

PeekText ==
  /\ pc = "peek"
  /\ \E raw \in Chunks : \E s \in AfterParse(raw) :
       /\ ~Finds(Filtered(raw), "LOGGED OFF")
       /\ Recv(raw)
       /\ IF Finds(Filtered(raw), "TIME OUT")
          THEN \E outcome \in Outcomes :
                 /\ SendOn(s, <<"crlf", 0>>, outcome)
                 /\ pc' = IF outcome = "killed" THEN "killed" ELSE "check"
          ELSE pc' = "check" /\ sock' = s /\ UNCHANGED todo
  /\ UNCHANGED <<cmd, socketConnected, loggedInToHLR, attempts, onLogin, hlrResponse,
                 abandoned, deviceVars, connects>>

(* The rest of ProcessCommand up to ProcessDeviceResponse. *)
SendCommand ==
  /\ pc = "check"
  /\ \/ /\ ~loggedInToHLR
        /\ pc' = "idle"
        /\ UNCHANGED <<sock, todo>>
     \/ /\ loggedInToHLR
        /\ \E outcome \in Outcomes :
             /\ Send(<<"command", cmd>>, outcome)
             /\ pc' = [sent |-> "response", error |-> "idle", killed |-> "killed"][outcome]
  /\ UNCHANGED <<cmd, socketConnected, loggedInToHLR, attempts, onLogin, hlrResponse,
                 abandoned, deviceVars, inbox, connects>>

responseUnchanged == <<cmd, socketConnected, loggedInToHLR, attempts, onLogin, deviceVars,
                       connects>>

(* Faults for mutation: ORDERED is taken for a refusal; the wait has no limit. *)
ResponseRefusesOrdered ==
  /\ pc = "response"
  /\ \E raw \in Chunks : \E s \in AfterParse(raw) :
       LET text == hlrResponse \o Filtered(raw) IN
       /\ Recv(raw)
       /\ Filtered(raw) # <<>>
       /\ \/ /\ Finds(text, "ANSWER")
             /\ pc' = "maintain"
             /\ hlrResponse' = text
             /\ sock' = s /\ UNCHANGED todo
          \/ /\ ~Finds(text, "ANSWER") /\ Finds(text, "ORDERED")
             /\ SendOn(s, <<"escape", 0>>, "sent")
             /\ pc' = "idle"
             /\ hlrResponse' = <<>>
  /\ UNCHANGED <<responseUnchanged, abandoned>>

ResponseWaitsOn ==
  /\ pc = "response"
  /\ Silent
  /\ abandoned' = TRUE
  /\ UNCHANGED <<pc, hlrResponse, responseUnchanged, sock, inbox, todo>>

(* ProcessDeviceResponse: the text accumulates from one recv to the next. *)
ResponseRecv ==
  /\ pc = "response"
  /\ \E raw \in Chunks : \E s \in AfterParse(raw) :
       LET text == hlrResponse \o Filtered(raw) IN
       /\ Recv(raw)
       /\ Filtered(raw) # <<>> \/ talking
       /\ \/ /\ Finds(text, "ANSWER")
             /\ pc' = "maintain"
             /\ hlrResponse' = text
             /\ sock' = s /\ UNCHANGED todo
          \/ /\ ~Finds(text, "ANSWER") /\ Finds(text, "REFUSED")
             /\ pc' = "idle"
             /\ hlrResponse' = <<>>
             /\ sock' = s /\ UNCHANGED todo
          \/ /\ ~Finds(text, "ANSWER") /\ ~Finds(text, "REFUSED")
             /\ hlrResponse' = text
             /\ IF Finds(text, "ORDERED")
                THEN \E outcome \in Outcomes :
                       /\ SendOn(s, <<"escape", 0>>, outcome)
                       /\ pc' = IF outcome = "killed" THEN "killed" ELSE pc
                ELSE sock' = s /\ UNCHANGED <<pc, todo>>
  /\ UNCHANGED <<responseUnchanged, abandoned>>

(* recv returned 0 or failed. *)
ResponseFails ==
  /\ pc = "response"
  /\ AtEof \/ RecvFails
  /\ sock' = IF RecvFails THEN "dead" ELSE sock
  /\ pc' = "idle"
  /\ hlrResponse' = <<>>
  /\ UNCHANGED <<responseUnchanged, inbox, todo, abandoned>>

(* A chunk of nothing but negotiation: the empty buffer is taken for the      *)
(* peer's close, and the command is given up on a working connection.         *)
ResponseNegotiates ==
  /\ pc = "response"
  /\ \E raw \in Chunks : \E s \in AfterParse(raw) :
       /\ Filtered(raw) = <<>>
       /\ Recv(raw)
       /\ sock' = s
  /\ pc' = "idle"
  /\ hlrResponse' = <<>>
  /\ abandoned' = TRUE
  /\ UNCHANGED <<responseUnchanged, todo>>

(* The command is given up, the session kept. *)
ResponseGivenUp ==
  /\ pc' = "idle"
  /\ hlrResponse' = <<>>
  /\ abandoned' = TRUE
  /\ UNCHANGED <<responseUnchanged, sock, inbox, todo>>

(* Five seconds without text. *)
ResponseTimeout == pc = "response" /\ Silent /\ ResponseGivenUp

(* As LoginInterrupted: recv's EWOULDBLOCK is taken for a broken connection.  *)
ResponseInterrupted == pc = "response" /\ Idle /\ ResponseGivenUp

(* Text without a phrase: the wait starts again; after an ORDERED every       *)
(* chunk is answered with one more escape, and otherwise nothing changes.     *)
ResponseTalk ==
  /\ pc = "response"
  /\ Idle /\ talking
  /\ Finds(hlrResponse, "ORDERED")
  /\ Len(todo) < MaxInput
  /\ Send(<<"escape", 0>>, "sent")
  /\ UNCHANGED <<pc, hlrResponse, abandoned, responseUnchanged, inbox>>

(* MaintainDialogIfNeeded; ProcessCommand has succeeded. *)
MaintainDialog ==
  /\ pc = "maintain"
  /\ hlrResponse' = <<>>
  /\ \/ /\ EndsWithPrompt(hlrResponse)
        /\ pc' = "idle"
        /\ UNCHANGED <<sock, todo>>
     \/ /\ ~EndsWithPrompt(hlrResponse) \/ talking      \* text after the prompt
        /\ \E outcome \in Outcomes :
             /\ Send(<<"crlf", 0>>, outcome)
             /\ pc' = IF outcome = "killed" THEN "killed" ELSE "idle"
  /\ UNCHANGED <<responseUnchanged, inbox, abandoned>>

-----------------------------------------------------------------------------
(* The device and the network, as the connector's code expects them. *)

Say(text) ==
  /\ inbox' = inbox \o text
  /\ UNCHANGED <<connectorVars, sock, connects>>

DeviceGreets ==
  /\ sock = "open" /\ device = "new"
  /\ device' = "asking"
  /\ Say(Text("ASK", 0))
  /\ UNCHANGED <<ordered, talking, notices, todo>>

(* It acts on the oldest input, whenever it likes. *)
DeviceHears(kind) ==
  /\ sock = "open"
  /\ todo # <<>>
  /\ Head(todo)[1] = kind
  /\ todo' = Tail(todo)

(* It may ask, or deny and ask, again and again. *)
DeviceLogin ==
  /\ device = "asking"
  /\ DeviceHears("attribute")
  /\ \/ /\ \/ Say(Text("ASK", 0))
           \/ Say(Text("DENIED", 0) \o Text("ASK", 0))
           \/ Say(Text("DENIED", 0))
        /\ UNCHANGED device
     \/ /\ Say(Text("SUCCESS", 0) \o Text("PROMPT", 0))
        /\ device' = "ready"
  /\ UNCHANGED <<ordered, talking, notices>>

DeviceCommand ==
  /\ device = "ready" /\ ordered = 0
  /\ DeviceHears("command")
  /\ LET c == Head(todo)[2] IN
     \/ /\ \/ Say(Text("ANSWER", c) \o Text("PROMPT", 0))
           \/ Say(Text("ANSWER", c))
           \/ Say(Text("REFUSED", c) \o Text("PROMPT", 0))
        /\ UNCHANGED ordered
     \/ /\ Say(Text("ORDERED", c))
        /\ ordered' = c
  /\ UNCHANGED <<device, talking, notices>>

(* ORDERED is followed by the answer once an escape comes; one that comes     *)
(* unasked is ignored.                                                        *)
DeviceEscape ==
  /\ device = "ready"
  /\ DeviceHears("escape")
  /\ IF ordered = 0
     THEN Say(<<>>)
     ELSE Say(Text("ANSWER", ordered) \o Text("PROMPT", 0))
  /\ ordered' = 0
  /\ UNCHANGED <<device, talking, notices>>

DeviceCrlf ==
  /\ device = "ready"
  /\ DeviceHears("crlf")
  /\ Say(Text("PROMPT", 0))
  /\ UNCHANGED <<device, ordered, talking, notices>>

(* An idle session is warned, or ended. *)
DeviceNotice ==
  /\ sock = "open" /\ device = "ready" /\ notices < MaxNotices
  /\ notices' = notices + 1
  /\ \/ Say(Text("TIME OUT", 0)) /\ UNCHANGED device
     \/ Say(Text("LOGGED OFF", 0)) /\ device' = "off"
  /\ UNCHANGED <<ordered, talking, todo>>

(* It negotiates an option, at any time. *)
DeviceNegotiates ==
  /\ sock = "open" /\ device # "off" /\ notices < MaxNotices
  /\ notices' = notices + 1
  /\ Say(<<Negotiation>>)
  /\ UNCHANGED <<device, ordered, talking, todo>>

(* It starts or stops talking. *)
DeviceTalks ==
  /\ sock = "open"
  /\ talking' = ~talking
  /\ Say(<<>>)
  /\ UNCHANGED <<device, ordered, notices, todo>>

DeviceHangsUp ==
  /\ sock = "open"
  /\ sock' \in {"eof", "reset"}
  /\ todo' = <<>>
  /\ talking' = FALSE
  /\ UNCHANGED <<connectorVars, device, ordered, notices, inbox, connects>>

-----------------------------------------------------------------------------
ConnectorStep ==
  \/ Initialize
  \/ LoginRecv \/ LoginRecvFails \/ LoginTimeout
  \/ Restore
  \/ RefusalKills
  \/ PeekNothing \/ PeekFails \/ PeekLoggedOff \/ PeekText
  \/ SendCommand
  \/ ResponseRecv \/ ResponseTalk \/ ResponseNegotiates \/ ResponseFails \/ ResponseTimeout
  \/ MaintainDialog

DeviceStep ==
  \/ DeviceGreets \/ DeviceLogin
  \/ DeviceCommand \/ DeviceEscape \/ DeviceCrlf
  \/ DeviceNotice \/ DeviceNegotiates \/ DeviceTalks \/ DeviceHangsUp

(* A signal for the process happens to be handled by this thread. *)
Interrupted == LoginInterrupted \/ ResponseInterrupted

Next == Call \/ ConnectorStep \/ Interrupted \/ DeviceStep

Spec == Init /\ [][Next]_vars

(* The thread runs on: connect returns, select on a socket where nothing      *)
(* comes times out, and send does not block.  The device owes nothing, and no *)
(* signal need come.                                                          *)
FairSpec == Spec /\ WF_vars(ConnectorStep)

-----------------------------------------------------------------------------
TypeOK ==
  /\ pc \in PCs
  /\ cmd \in 0 .. MaxCommands
  /\ socketConnected \in BOOLEAN /\ loggedInToHLR \in BOOLEAN
  /\ attempts \in 0 .. maxLoginAttempts - 1
  /\ onLogin \in {"none", "peek", "check"}
  /\ hlrResponse \in Seq(Pieces)
  /\ sock \in Sockets
  /\ inbox \in Seq(Pieces)
  /\ todo \in Seq(Inputs)
  /\ device \in {"new", "asking", "ready", "off"}
  /\ ordered \in 0 .. MaxCommands
  /\ connects \in 0 .. MaxConnects
  /\ talking \in BOOLEAN
  /\ notices \in 0 .. MaxNotices
  /\ abandoned \in BOOLEAN

(* The device never takes a command for a login name, nor a password for a    *)
(* command: what is on its way to it fits the state of the session, and the   *)
(* connector believes it is logged in only on a connection whose device       *)
(* accepted the login.                                                        *)
SessionDiscipline ==
  /\ device \in {"new", "asking"} =>
       \A i \in DOMAIN todo : todo[i][1] = "attribute"
  /\ device \in {"ready", "off"} =>
       \A i \in DOMAIN todo : todo[i][1] # "attribute"
  /\ loggedInToHLR => device \in {"ready", "off"}

(* The answer that ProcessCommand returns is the answer to its own command,   *)
(* unless an earlier command on this very connection was given up, at its     *)
(* time-out or because of a negotiation or a signal: however the text was     *)
(* cut, nothing is left over from a command that was answered.                *)
AnswerIsForCommand ==
  pc = "maintain" /\ ~abandoned => Answered(hlrResponse) = cmd

(* Every call of the connector returns (or SIGPIPE ends the process), however *)
(* the device cuts, delays, refuses and closes, but for three devices: one    *)
(* that closes the connection during a login; one that asks its login         *)
(* question for ever, as an answered question, even one that follows a        *)
(* denial, is no failed attempt; one that for ever sends text without a       *)
(* phrase the connector looks for, as each chunk restarts the time-out.       *)
Returned == pc \in {"idle", "failed", "killed"}

ClosedInLogin == pc = "login" /\ sock \in {"eof", "dead"}
AsksInLogin   == pc = "login" /\ Finds(inbox, "ASK")
TalksOn       == pc \in {"login", "response"} /\ talking

CommandReturns ==
  [](\/ <>Returned
     \/ <>[]ClosedInLogin
     \/ []<>AsksInLogin
     \/ []<>TalksOn)

(* Broken by the code: LoginToHLR makes maxLoginAttempts attempts and ends.   *)
LoginEnds == (pc = "login") ~> (pc # "login")

(* Broken by the code: ProcessCommand gives up for want of a login only if it *)
(* has tried to reconnect.                                                    *)
FailsOnlyAfterReconnect == pc = "check" /\ ~loggedInToHLR => onLogin # "none"

(* Broken by the code: a device that drops its connection does not take the   *)
(* gateway down.                                                              *)
SurvivesHangUp == pc # "killed"

=============================================================================
