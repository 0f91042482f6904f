---------------------------- MODULE RequestExecution ----------------------------
(***************************************************************************)
(* What a client is told about a subscriber: ClientRequest.cpp and         *)
(* ConnectionPool::ProcessRequest, with the parser of ResponseParser, one  *)
(* request after the other on one device connection.  Meanwhile the        *)
(* subscribers move about, the device takes its time, and a command given  *)
(* up is answered all the same, when another one may be waiting.           *)
(*                                                                         *)
(* An answer arrives whole here; HLRConnector models how it is received.   *)
(***************************************************************************)
EXTENDS ResponseParser, FiniteSets

CONSTANTS
  Subscribers,
  RequestTypes,  \* the request types clients use
  Home,          \* the address of the VLR that the gateway is connected to
  Abroad,        \* the addresses of other VLRs
  Places,        \* where subscribers may be
  Tails,         \* what may follow the field in vlr[30]
  MaxRequests,   \* bound: packets clients send
  MaxEvents      \* bound: moves of subscribers and connections lost

(* The states a VLR prints, and where a subscriber it does not serve may be,  *)
(* which only the HLR knows.                                                  *)
AtHome    == {"IDLE", "BUSY", "DET", "IDET"}
Unserved  == {"NOT CONNECTED", "PURGED", "UNKNOWN", "RESTRICTED", "BARRED"}

Types == {"stateQuery", "resetRequest", "activateRequest", "deactivateRequest", "imsiQuery"}
Queries == {"stateQuery", "imsiQuery"}

ASSUME NamesAssumption ==
  /\ RequestTypes \subseteq Types
  /\ Home \notin Abroad
  /\ Places \subseteq AtHome \cup Unserved \cup Abroad
  /\ Abroad \cap (AtHome \cup Unserved) = {}
  /\ {"0", Garbled} \cap (Abroad \cup {Home}) = {}
  /\ Tails \subseteq {"end", "digits", "dash", "other"}
  /\ {MaxRequests, MaxEvents} \subseteq Nat

VARIABLES
  pc,         \* where ProcessRequest is
  request,    \* the ClientRequest
  tail,       \* what followed vlr's field when this request read it
  place,      \* where each subscriber is
  commands,   \* sent to the device, which has not acted on them
  answers,    \* sent by the device, not received
  number, events,   \* what the bounds count
  seen,       \* history: where each subscriber has been during the request
  arrived,    \* history: the subscribers who have come home during the request
  executed,   \* history: the device has executed a command of this request
  stale,      \* history: an older answer was to come when this request asked
  heard       \* history: the answers that the last ProcessCommand returned

connectionVars == <<commands, answers>>
worldVars   == <<place, seen, arrived>>
historyVars == <<executed, stale, heard>>
vars == <<pc, request, tail, connectionVars, worldVars, number, events, historyVars>>

(* The attributes of a packet.  Missing, of a wrong size, or in the case of   *)
(* the command a number of no type: the packet is refused.                    *)
Wrong == "wrong"
Packets == [command : RequestTypes \cup {Wrong}, subscriber : Subscribers \cup {Wrong}]

ValidateAndSetRequestParams(packet) ==
  packet.command # Wrong /\ packet.subscriber # Wrong

(* The constructor leaves resultCode and imsiInVlr unset.                     *)
ClientRequest(packet) ==
  [requestType |-> packet.command, subscriberID |-> packet.subscriber,
   subscriberState |-> "notConnected", subscriberOnline |-> "offline",
   vlrAddress |-> "0", imsiInVlr |-> "unset", resultCode |-> "unset"]

NoRequest == ClientRequest([command |-> Wrong, subscriber |-> Wrong])

(* The attributes of the response, and the value of one that it lacks.        *)
Absent == "absent"

SendRequestResultToClient(r) ==
  LET Tells(type) == r.resultCode = "OPERATION_SUCCESS" /\ r.requestType = type
      IsIn(state) == Tells("stateQuery") /\ r.subscriberState = state
  IN
  [result     |-> r.resultCode,
   state      |-> IF Tells("stateQuery") THEN r.subscriberState ELSE Absent,
   online     |-> IF IsIn("connected") THEN r.subscriberOnline ELSE Absent,
   vlrAddress |-> IF IsIn("roaming") THEN r.vlrAddress ELSE Absent,
   imsi       |-> IF Tells("imsiQuery") THEN r.imsiInVlr ELSE Absent]

Init ==
  /\ pc = "idle"
  /\ request = NoRequest /\ tail = "end"
  /\ place \in [Subscribers -> Places]
  /\ seen = [s \in Subscribers |-> {}] /\ arrived = {}
  /\ commands = <<>> /\ answers = <<>>
  /\ number = 0 /\ events = 0
  /\ executed = FALSE /\ stale = FALSE /\ heard = <<>>

-----------------------------------------------------------------------------
(* The server.  A refusal is answered at once, which Gateway models.          *)

Reject(packet) ==
  /\ pc = "idle" /\ number < MaxRequests
  /\ ~ValidateAndSetRequestParams(packet)
  /\ number' = number + 1
  /\ UNCHANGED <<pc, request, tail, connectionVars, worldVars, events, historyVars>>

Accept(packet) ==
  /\ pc = "idle" /\ number < MaxRequests
  /\ ValidateAndSetRequestParams(packet)
  /\ number' = number + 1
  /\ request' = ClientRequest(packet)
  /\ seen' = [s \in Subscribers |-> {place[s]}] /\ arrived' = {}
  /\ pc' = "ask"
  /\ UNCHANGED <<tail, connectionVars, place, events, historyVars>>

-----------------------------------------------------------------------------
(* The worker: ProcessRequest. *)

(* deviceCommand, without the wording.                                        *)
CommandFor(r) ==
  [verb |-> [stateQuery |-> "MGSSP", imsiQuery |-> "MGTRP", resetRequest |-> "HGSLR",
             activateRequest |-> "HGSDC", deactivateRequest |-> "HGSDC"][r.requestType],
   subscriber |-> r.subscriberID, number |-> number]

(* ProcessCommand up to the wait: one recv of RestoreConnectionIfNeeded drops *)
(* what has come unasked, or some of it.                                      *)
SendCommand(command) ==
  /\ \/ answers = <<>> /\ answers' = answers
     \/ \E n \in DOMAIN answers : answers' = SubSeq(answers, n + 1, Len(answers))
  /\ commands' = Append(commands, command)
  /\ stale' = (stale \/ commands # <<>> \/ answers' # <<>>)
  /\ UNCHANGED <<request, tail, worldVars, number, events, executed, heard>>

Ask ==
  /\ pc = "ask"
  /\ pc' = "response"
  /\ SendCommand(CommandFor(request))

AskHLR ==
  /\ pc = "askHLR"
  /\ pc' = "responseHLR"
  /\ SendCommand([CommandFor(request) EXCEPT !.verb = "HGSDP"])

(* END or EXECUTED ends an answer; NOT ACCEPTED counts if neither is there.   *)
Answered(text) == {Word("END"), Word("EXECUTED")} \cap Range(text) # {}

Received(n) ==
  /\ answers' = SubSeq(answers, n + 1, Len(answers))
  /\ heard' = SubSeq(answers, 1, n)

(* ProcessCommand has failed.  Its own answer may still be under way.         *)
CommandFails ==
  /\ request' = [request EXCEPT !.resultCode = "CMD_NOTEXECUTED"]
  /\ pc' = "respond"

Refused ==
  /\ pc \in {"response", "responseHLR"}
  /\ \E n \in DOMAIN answers :
       /\ Received(n)
       /\ ~Answered(FlattenSeq(SubSeq(answers, 1, n)))
  /\ CommandFails
  /\ UNCHANGED <<tail, commands, worldVars, number, events, executed, stale>>

(* The device has been silent for five seconds.                               *)
Timeout ==
  /\ pc \in {"response", "responseHLR"}
  /\ answers = <<>>
  /\ CommandFails
  /\ UNCHANGED <<tail, connectionVars, worldVars, number, events, historyVars>>

(* The connection is replaced before a command, or lost while one waits.      *)
Reset ==
  /\ pc \in {"ask", "askHLR", "response", "responseHLR"} /\ events < MaxEvents
  /\ events' = events + 1
  /\ commands' = <<>> /\ answers' = <<>>
  /\ \/ pc \in {"ask", "askHLR"} /\ UNCHANGED <<pc, request>>
     \/ CommandFails
  /\ UNCHANGED <<tail, worldVars, number, historyVars>>

(* Fault for mutation: any answer to a command is a success. *)
ResponseIsSuccess ==
  /\ pc = "response"
  /\ \E n \in DOMAIN answers : Received(n)
  /\ request' = [request EXCEPT !.resultCode = "OPERATION_SUCCESS"]
  /\ pc' = "respond"
  /\ UNCHANGED <<tail, commands, worldVars, number, events, executed, stale>>

(* The first answer.                                                          *)
Response ==
  /\ pc = "response"
  /\ \E n \in DOMAIN answers :
       LET text   == FlattenSeq(SubSeq(answers, 1, n))
           parsed == ParseAndSetResultCode("VLR", text, tail, request)
       IN
       /\ Received(n)
       /\ Answered(text)
       /\ IF request.requestType \in Queries
          THEN /\ request' = parsed.request
               /\ pc' = IF request.requestType = "stateQuery" /\ parsed.res = "infoNotComplete"
                        THEN "askHLR" ELSE "respond"
          ELSE /\ request' = [request EXCEPT !.resultCode = "OPERATION_SUCCESS"]
               /\ pc' = "respond"
  /\ UNCHANGED <<tail, commands, worldVars, number, events, executed, stale>>

ResponseHLR ==
  /\ pc = "responseHLR"
  /\ tail' \in Tails
  /\ \E n \in DOMAIN answers :
       LET text == FlattenSeq(SubSeq(answers, 1, n)) IN
       /\ Received(n)
       /\ Answered(text)
       /\ request' = ParseAndSetResultCode("HLR", text, tail', request).request
  /\ pc' = "respond"
  /\ UNCHANGED <<commands, worldVars, number, events, executed, stale>>

(* The packet of SendRequestResultToClient is sent, and the request deleted.  *)
Respond ==
  /\ pc = "respond"
  /\ pc' = "idle"
  /\ request' = NoRequest /\ tail' = "end"
  /\ seen' = [s \in Subscribers |-> {}] /\ arrived' = {}
  /\ executed' = FALSE /\ stale' = FALSE /\ heard' = <<>>
  /\ UNCHANGED <<connectionVars, place, number, events>>

-----------------------------------------------------------------------------
(* The device and the subscribers, from the answers quoted in                 *)
(* ResponseParser.h.                                                          *)

VLRState(s, p) ==
  { <<Word("SUBSCRIBER DETAILS"), VLRColumns, Imsi(s), msisdn,
      Word(IF p \in AtHome THEN p ELSE "NOTREG"), Word("END")>>
    : msisdn \in {Blank, Msisdn(s)} }

(* Who is at home is found by the HLR at Home.                                *)
AddressLine(p) ==
  CASE p \in AtHome -> <<Address(Home), Blank>>
    [] p \in Abroad -> <<Address(p), Blank>>
    [] p = "PURGED" -> <<Address(Home), Word("MS PURGED IN VLR")>>
    [] OTHER        -> <<Word(p), Blank>>

HLRData(s, p) ==
  IF p = "NOT CONNECTED"
  THEN <<Word("HLR SUBSCRIBER DATA"), HLRColumns, Msisdn(s), Imsi(s),
         Word("NOT CONNECTED"), Word("END")>>
  ELSE <<Word("HLR SUBSCRIBER DATA"), HLRColumns, Msisdn(s), Imsi(s), Word("CONNECTED"),
         Word("LOCATION DATA"), AddressColumns, AddressLine(p)[1], AddressLine(p)[2],
         Word("END")>>

Translation(s, p) ==
  <<Word("MT MSISDN TO IMSI TRANSLATION DATA"), ImsiColumns, Msisdn(s),
    IF p \in AtHome THEN Imsi(s) ELSE Blank, Word("END")>>

(* What the device may answer to a command about a subscriber at p.           *)
AnswersTo(c, p) ==
  CASE c.verb = "MGSSP" -> VLRState(c.subscriber, p)
    [] c.verb = "HGSDP" -> {HLRData(c.subscriber, p)}
    [] c.verb = "MGTRP" -> {Translation(c.subscriber, p)}
    [] OTHER            -> {<<Word("EXECUTED")>>}

DeviceAnswers ==
  /\ commands # <<>>
  /\ commands' = Tail(commands)
  /\ \E answer \in AnswersTo(Head(commands), place[Head(commands).subscriber]) :
       answers' = Append(answers, answer)
  /\ executed' = (executed \/ (pc # "idle" /\ Head(commands).number = number))
  /\ UNCHANGED <<pc, request, tail, worldVars, number, events, stale, heard>>

DeviceRefuses ==
  /\ commands # <<>>
  /\ commands' = Tail(commands)
  /\ answers' = Append(answers, <<Word("NOT ACCEPTED")>>)
  /\ UNCHANGED <<pc, request, tail, worldVars, number, events, historyVars>>

Move(s, p) ==
  /\ events < MaxEvents
  /\ p # place[s]
  /\ events' = events + 1
  /\ place' = [place EXCEPT ![s] = p]
  /\ seen' = IF pc = "idle" THEN seen ELSE [seen EXCEPT ![s] = @ \cup {p}]
  /\ arrived' = IF pc # "idle" /\ place[s] \notin AtHome /\ p \in AtHome
                THEN arrived \cup {s} ELSE arrived
  /\ UNCHANGED <<pc, request, tail, connectionVars, number, historyVars>>

-----------------------------------------------------------------------------
WorkerStep ==
  \/ Ask \/ AskHLR
  \/ Response \/ ResponseHLR \/ Refused \/ Timeout
  \/ Respond

Next ==
  \/ \E packet \in Packets : Accept(packet) \/ Reject(packet)
  \/ WorkerStep \/ Reset
  \/ DeviceAnswers \/ DeviceRefuses
  \/ \E s \in Subscribers, p \in Places : Move(s, p)

Spec == Init /\ [][Next]_vars

-----------------------------------------------------------------------------
Packet == SendRequestResultToClient(request)

(* The text after the location's field did not look like more of a number.    *)
CleanTails == {"end", "other"}
CleanRead  == tail \in CleanTails

(* What is read as an address: one that the protocol has, unless the text     *)
(* after the field looked like more of a number.                              *)
AddressesRead(after) ==
  Abroad \cup {Home} \cup (IF after \in CleanTails THEN {} ELSE {Garbled})

(* Nothing that the constructor left unset or 0 is ever sent.  What the       *)
(* uninitialised vlr[30] held is: a garbled address, when there were digits,  *)
(* or a dash, where the field should have ended (ResponseParser.cpp:230-231). *)
TypeOK ==
  /\ pc \in {"idle", "ask", "askHLR", "response", "responseHLR", "respond"}
  /\ request.requestType \in RequestTypes \cup {Wrong}
  /\ pc = "respond" =>
       /\ Packet.result \in {"OPERATION_SUCCESS", "BAD_DEVICE_RESPONSE", "CMD_NOTEXECUTED"}
       /\ Packet.imsi \in Subscribers \cup {"0", Absent}
       /\ Packet.vlrAddress \in AddressesRead(tail) \cup {Absent}
  /\ tail \in Tails \cup {"end"}
  /\ place \in [Subscribers -> Places]
  /\ seen \in [Subscribers -> SUBSET Places] /\ arrived \subseteq Subscribers
  /\ number \in 0 .. MaxRequests /\ events \in 0 .. MaxEvents
  /\ {executed, stale} \subseteq BOOLEAN

(* What is true of a subscriber at p: what the VLR has of one it serves, and  *)
(* of another what the HLR has.                                               *)
Report(state, online, address, imsi) ==
  [result |-> "OPERATION_SUCCESS", state |-> state, online |-> online,
   vlrAddress |-> address, imsi |-> imsi]

Connected(online) == Report("connected", online, Absent, Absent)
Roaming(address)  == Report("roaming", Absent, address, Absent)
NotConnected      == Report("notConnected", Absent, Absent, Absent)

TruthOf(p) ==
  CASE p = "IDLE"            -> Connected("offline")
    [] p = "BUSY"            -> Connected("online")
    [] p \in {"DET", "IDET"} -> NotConnected
    [] p \in Abroad          -> Roaming(p)
    [] OTHER                 -> NotConnected

ImsiTruth(s, p) == Report(Absent, Absent, Absent, IF p \in AtHome THEN s ELSE "0")

Reports == pc = "respond" /\ Packet.result = "OPERATION_SUCCESS"

(* A state or an IMSI that a client is told was true of the subscriber at     *)
(* some moment of the request, however he moved between the question to the   *)
(* VLR and the one to the HLR, but for one who came home meanwhile: he may be *)
(* told to be roaming at the gateway's own VLR, where he never was roaming.   *)
(* Nothing is said of a request that asked when an older answer was still to  *)
(* come, or that read past the end of the address.                            *)
ReportWasTrue ==
  Reports /\ ~stale /\ CleanRead =>
    LET s == request.subscriberID IN
    /\ request.requestType = "stateQuery" =>
         \/ \E p \in seen[s] : Packet = TruthOf(p)
         \/ s \in arrived /\ Packet = Roaming(Home)
    /\ request.requestType = "imsiQuery" => \E p \in seen[s] : Packet = ImsiTruth(s, p)

(* What is reported as done was done by the device for this very request,     *)
(* unless an older answer was still to come.                                  *)
SuccessMeansDone == Reports /\ ~stale => executed

(* Even with older answers about: one answer of the HLR, taken alone, is used *)
(* only if it is about the subscriber asked for.  An older question to the    *)
(* HLR is the last the device answers for two requests whose own questions to *)
(* the VLR are answered late.                                                 *)
HLRReportIsOfSubscriber ==
  Reports /\ request.requestType = "stateQuery" /\ Len(heard) = 1
    /\ Word("HLR SUBSCRIBER DATA") \in Range(heard[1])
    => Imsi(request.subscriberID) \in Range(heard[1])

=============================================================================
