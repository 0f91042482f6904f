------------------------ MODULE RequestExecutionProofs ------------------------
(***************************************************************************)
(* Proofs about RequestExecution, for any subscribers, places and bounds:  *)
(* what a client is told was true, was done, and is about the subscriber   *)
(* asked for.                                                              *)
(*                                                                         *)
(* What the device sends is a sequence of Tokens.  An answer is taken out  *)
(* of whatever was received, an unknown number of device texts one behind  *)
(* the other, so the first invariant speaks of Texts, a set closed under   *)
(* concatenation.  As long as nothing older was to come, OwnAnswer says    *)
(* that there is one text and what it is; the parser is then followed      *)
(* through it, word by word.                                               *)
(***************************************************************************)
EXTENDS RequestExecution, SequenceLemmas

Results == {"OPERATION_SUCCESS", "BAD_DEVICE_RESPONSE", "CMD_NOTEXECUTED"}
Addresses == Abroad \cup {Home, Garbled}

Requests ==
  [requestType : RequestTypes \cup {Wrong}, subscriberID : Subscribers \cup {Wrong},
   subscriberState : {"notConnected", "connected", "roaming"},
   subscriberOnline : {"offline", "online"},
   vlrAddress : Addresses \cup {"0"}, imsiInVlr : Subscribers \cup {"0", "unset"},
   resultCode : Results \cup {"unset"}]

Commands ==
  [verb : {"MGSSP", "MGTRP", "HGSLR", "HGSDC", "HGSDP"},
   subscriber : Subscribers, number : 0 .. MaxRequests]

(* All that a device prints.                                                  *)
SubscriberDetails == Word("SUBSCRIBER DETAILS")
SubscriberData    == Word("HLR SUBSCRIBER DATA")
LocationData      == Word("LOCATION DATA")
TranslationData   == Word("MT MSISDN TO IMSI TRANSLATION DATA")
IsConnected       == Word("CONNECTED")
IsNotConnected    == Word("NOT CONNECTED")
IsPurged          == Word("MS PURGED IN VLR")
IsExecuted        == Word("EXECUTED")
IsRefused         == Word("NOT ACCEPTED")
End               == Word("END")

Headers == {SubscriberDetails, VLRColumns, SubscriberData, HLRColumns,
            LocationData, AddressColumns, TranslationData, ImsiColumns}

VLRStates == {Word(w) : w \in AtHome \cup {"NOTREG"}}
NoAddress == {Word(w) : w \in {"UNKNOWN", "RESTRICTED", "BARRED"}}

Words == VLRStates \cup NoAddress
           \cup {IsConnected, IsNotConnected, IsPurged, IsExecuted, IsRefused, End}

ImsiFields == {Blank} \cup {Imsi(s) : s \in Subscribers}

Tokens ==
  Headers \cup Words \cup ImsiFields \cup {Msisdn(s) : s \in Subscribers}
    \cup {Address(a) : a \in Abroad \cup {Home}}

(* The line below the columns of a translation is complete, and has an IMSI   *)
(* or nothing in its second column.                                           *)
ImsiColumnFits(text) ==
  \A j \in DOMAIN text :
    text[j] = ImsiColumns => j + 2 \in DOMAIN text /\ text[j + 2] \in ImsiFields

Texts == {text \in Seq(Tokens) : ImsiColumnFits(text)}

(* No single answer has both a table of the VLR and one of the HLR.           *)
DeviceTexts ==
  {text \in Texts : SubscriberDetails \notin Range(text) \/ SubscriberData \notin Range(text)}

Typing ==
  /\ pc \in {"idle", "ask", "askHLR", "response", "responseHLR", "respond"}
  /\ request \in Requests
  /\ pc # "idle" => request.requestType \in RequestTypes /\ request.subscriberID \in Subscribers
  /\ pc \in {"askHLR", "responseHLR"} => request.requestType = "stateQuery"
  /\ tail \in Tails \cup {"end"}
  /\ place \in [Subscribers -> Places]
  /\ seen \in [Subscribers -> SUBSET Places] /\ arrived \subseteq Subscribers
  /\ commands \in Seq(Commands)
  /\ answers \in Seq(DeviceTexts) /\ heard \in Seq(DeviceTexts)
  /\ number \in 0 .. MaxRequests /\ events \in 0 .. MaxEvents
  /\ executed \in BOOLEAN /\ stale \in BOOLEAN

(* A result is set before the response, and what goes with it.                *)
Told ==
  pc = "respond" =>
    /\ request.resultCode \in Results
    /\ request.resultCode = "OPERATION_SUCCESS" /\ request.requestType = "imsiQuery"
         => request.imsiInVlr \in Subscribers \cup {"0"}
    /\ request.resultCode = "OPERATION_SUCCESS" /\ request.requestType = "stateQuery"
         /\ request.subscriberState = "roaming"
         => request.vlrAddress \in AddressesRead(tail)

TypeInv == Typing /\ Told

(* Where the subscriber is now he has been during the request.                *)
SeenPlaces == pc # "idle" => \A s \in Subscribers : place[s] \in seen[s]

OwnCommand ==
  IF pc = "response" THEN CommandFor(request)
  ELSE [CommandFor(request) EXCEPT !.verb = "HGSDP"]

Refusal == <<IsRefused>>

(* Away, or come home since the request was accepted.                         *)
WasAway(s) == place[s] \notin AtHome \/ s \in arrived

(* What an answer about a subscriber at p says of how he has moved: one that  *)
(* is not at home when the VLR answers has been away, and the HLR, asked only *)
(* about such, finds at home who has arrived.                                 *)
Moved(s, p) ==
  IF pc = "response" THEN p \notin AtHome => WasAway(s)
  ELSE p \in AtHome => s \in arrived

OwnAnswer ==
  ~stale /\ pc \in {"response", "responseHLR"} =>
    \/ commands = <<OwnCommand>> /\ answers = <<>>
    \/ /\ commands = <<>>
       /\ \/ answers = <<Refusal>>
          \/ executed /\ \E p \in seen[request.subscriberID] :
                           /\ Moved(request.subscriberID, p)
                           /\ \E a \in AnswersTo(OwnCommand, p) : answers = <<a>>

(* The HLR is asked only about a subscriber whom the VLR did not know.        *)
AskedWhenAway ==
  ~stale /\ pc \in {"askHLR", "responseHLR"} => WasAway(request.subscriberID)

TruthInv ==
  SeenPlaces /\ OwnAnswer /\ AskedWhenAway /\ ReportWasTrue /\ SuccessMeansDone

-----------------------------------------------------------------------------
(* What the operators of the parser return. *)

(* TryToSkipSubstring stops behind the first t.                               *)
LEMMA AfterAt ==
  ASSUME NEW T, NEW text \in Seq(T), NEW t, NEW n \in 1 .. Len(text), text[n] = t,
         \A i \in 1 .. n - 1 : text[i] # t
  PROVE  After(text, t) = SubSeq(text, n + 1, Len(text))
<1> DEFINE I == {i \in 1 .. Len(text) : text[i] = t}
<1>1. n \in I /\ (\A i \in I : n <= i) /\ I \subseteq Nat
  OBVIOUS
<1>2. Min(I) = n
  <2>1. Min(I) \in I /\ \A i \in I : Min(I) <= i
    <3> HIDE DEF I
    <3> QED BY <1>1 DEF Min
  <2> QED BY <1>1, <2>1
<1>3. t \in Range(text)
  BY DEF Range
<1>4. After(text, t) = SubSeq(text, Min(I) + 1, Len(text))
  BY <1>1, <1>3 DEF After, SelectInSeq
<1> QED BY <1>2, <1>4

LEMMA AfterFound ==
  ASSUME NEW T, NEW text \in Seq(T), NEW t, t \in Range(text)
  PROVE  \E n \in 1 .. Len(text) :
           /\ text[n] = t /\ \A i \in 1 .. n - 1 : text[i] # t
           /\ After(text, t) = SubSeq(text, n + 1, Len(text))
<1> DEFINE I == {i \in 1 .. Len(text) : text[i] = t}
<1>1. I # {} /\ I \subseteq Nat
  BY DEF Range
<1>2. PICK n \in I : \A i \in I : n <= i
  <2> HIDE DEF I
  <2> QED BY <1>1, LeastNat
<1>3. \A i \in 1 .. n - 1 : text[i] # t
  BY <1>2
<1>4. After(text, t) = SubSeq(text, n + 1, Len(text))
  BY <1>2, <1>3, AfterAt
<1> QED BY <1>2, <1>3, <1>4

(* What is skipped to is a part of the text, and only if t is there is any.   *)
LEMMA AfterPart ==
  ASSUME NEW T, NEW text \in Seq(T), NEW t
  PROVE  /\ After(text, t) \in Seq(T) /\ Range(After(text, t)) \subseteq Range(text)
         /\ Range(After(text, t)) # {} => t \in Range(text)
<1>1. CASE t \notin Range(text)
  BY <1>1 DEF After, Range
<1>2. CASE t \in Range(text)
  <2>1. PICK n \in 1 .. Len(text) : After(text, t) = SubSeq(text, n + 1, Len(text))
    BY <1>2, AfterFound
  <2>2. n \in 0 .. Len(text)
    BY <2>1
  <2> QED BY <1>2, <2>1, <2>2, PartsRange, SplitElements
<1> QED BY <1>1, <1>2

(* Through an answer that is known, one word at a time.                       *)
LEMMA AfterStep ==
  ASSUME NEW T, NEW text \in Seq(T), text # <<>>, NEW t
  PROVE  /\ text[1] = t => After(text, t) = Tail(text)
         /\ text[1] # t => After(text, t) = After(Tail(text), t)
<1> DEFINE rest == Tail(text)
<1>1. /\ rest \in Seq(T) /\ Len(rest) = Len(text) - 1 /\ Len(text) \in Nat \ {0}
      /\ DOMAIN text = 1 .. Len(text) /\ DOMAIN rest = 1 .. Len(text) - 1
      /\ \A i \in 1 .. Len(rest) : rest[i] = text[i + 1]
  OBVIOUS
<1>2. text[1] = t => After(text, t) = Tail(text)
  <2>1. SUFFICES ASSUME text[1] = t PROVE After(text, t) = Tail(text)
    OBVIOUS
  <2>2. After(text, t) = SubSeq(text, 1 + 1, Len(text))
    BY <1>1, <2>1, AfterAt
  <2>3. SubSeq(text, 1 + 1, Len(text)) = Tail(text)
    BY <1>1
  <2> QED BY <2>2, <2>3
<1>3. text[1] # t => After(text, t) = After(rest, t)
  <2>1. SUFFICES ASSUME text[1] # t PROVE After(text, t) = After(rest, t)
    OBVIOUS
  <2>2. CASE t \in Range(text)
    <3>1. PICK n \in 1 .. Len(text) :
            /\ text[n] = t /\ \A i \in 1 .. n - 1 : text[i] # t
            /\ After(text, t) = SubSeq(text, n + 1, Len(text))
      BY <2>2, AfterFound
    <3>2. n - 1 \in 1 .. Len(rest) /\ rest[n - 1] = t
      BY <1>1, <2>1, <3>1
    <3>3. \A i \in 1 .. (n - 1) - 1 : rest[i] # t
      BY <1>1, <3>1
    <3>4. After(rest, t) = SubSeq(rest, (n - 1) + 1, Len(rest))
      <4> HIDE DEF rest
      <4> QED BY <1>1, <3>2, <3>3, AfterAt
    <3>5. SubSeq(rest, n, Len(text) - 1) = SubSeq(text, n + 1, Len(text))
      BY <1>1
    <3>6. (n - 1) + 1 = n /\ Len(rest) = Len(text) - 1
      BY <1>1
    <3> HIDE DEF rest
    <3> QED BY <3>1, <3>4, <3>5, <3>6
  <2>3. CASE t \notin Range(text)
    <3>1. t \notin Range(rest)
      BY <1>1, <2>3 DEF Range
    <3> QED BY <2>3, <3>1 DEF After
  <2> QED BY <2>2, <2>3
<1> QED BY <1>2, <1>3

(* TryToSkipDelimiters stays where it is if a field is there, and otherwise   *)
(* goes past the empty column.                                                *)
LEMMA FieldsStep ==
  ASSUME NEW T, NEW text \in Seq(T), text # <<>>
  PROVE  /\ text[1] # Blank => Fields(text) = text
         /\ text[1] = Blank /\ Len(text) > 1 /\ text[2] # Blank => Fields(text) = Tail(text)
<1> DEFINE filled == {i \in DOMAIN text : text[i] # Blank}
<1>1. Len(text) \in Nat \ {0} /\ DOMAIN text = 1 .. Len(text)
  OBVIOUS
<1>2. ASSUME NEW n \in filled, \A i \in filled : n <= i
      PROVE  Fields(text) = SubSeq(text, n, Len(text))
  <2>1. filled \subseteq Nat
    BY <1>1
  <2>2. Min(filled) = n
    <3> HIDE DEF filled
    <3>1. Min(filled) \in filled /\ \A i \in filled : Min(filled) <= i
      BY <1>2, <2>1 DEF Min
    <3>2. Min(filled) \in Nat /\ n \in Nat /\ n <= Min(filled) /\ Min(filled) <= n
      BY <1>2, <2>1, <3>1
    <3> QED BY <3>2
  <2>3. Fields(text) = SubSeq(text, Min(filled), Len(text))
    BY <1>2 DEF Fields
  <2> QED BY <2>2, <2>3
<1>3. ASSUME text[1] # Blank PROVE Fields(text) = text
  <2>1. 1 \in filled /\ \A i \in filled : 1 <= i
    BY <1>1, <1>3
  <2>2. Fields(text) = SubSeq(text, 1, Len(text))
    BY <1>2, <2>1
  <2> QED BY <1>1, <2>2
<1>4. ASSUME text[1] = Blank, Len(text) > 1, text[2] # Blank PROVE Fields(text) = Tail(text)
  <2>1. 2 \in filled /\ \A i \in filled : 2 <= i
    BY <1>1, <1>4
  <2>2. Fields(text) = SubSeq(text, 2, Len(text))
    BY <1>2, <2>1
  <2> QED BY <1>1, <2>2
<1> QED BY <1>3, <1>4

LEMMA FieldsPart ==
  ASSUME NEW T, NEW text \in Seq(T)
  PROVE  Fields(text) \in Seq(T) /\ Range(Fields(text)) \subseteq Range(text)
<1> DEFINE filled == {i \in DOMAIN text : text[i] # Blank}
<1>1. CASE filled = {}
  BY <1>1 DEF Fields, Range
<1>2. CASE filled # {}
  <2>1. filled \subseteq Nat
    OBVIOUS
  <2>2. Min(filled) \in filled
    <3> HIDE DEF filled
    <3> QED BY <1>2, <2>1, LeastNat DEF Min
  <2>3. Fields(text) = SubSeq(text, Min(filled), Len(text))
    BY <1>2 DEF Fields
  <2> DEFINE n == Min(filled) - 1
  <2>4. n \in 0 .. Len(text) /\ n + 1 = Min(filled)
    <3>1. Min(filled) \in 1 .. Len(text)
      BY <2>2
    <3> HIDE DEF filled
    <3> QED BY <3>1
  <2> HIDE DEF filled, n
  <2> QED BY <2>3, <2>4, PartsRange, SplitElements
<1> QED BY <1>1, <1>2

(* ProcessCommand's response: what is received, one behind the other, is in   *)
(* any set that concatenation does not leave.                                 *)
LEMMA FlattenStays ==
  ASSUME NEW S, NEW seqs \in Seq(S), seqs # <<>>, \A a, b \in S : a \o b \in S
  PROVE  FlattenSeq(seqs) \in S
<1> DEFINE n == Len(seqs)
<1>1. n \in Nat \ {0} /\ \A i \in 1 .. n : seqs[i] \in S
  OBVIOUS
<1>2. PICK flatten : /\ flatten = [i \in 1 .. n |-> IF i = 1 THEN seqs[i]
                                                  ELSE flatten[i - 1] \o seqs[i]]
                     /\ FlattenSeq(seqs) = flatten[n]
  BY FlattenRecursion
<1> HIDE DEF n
<1>3. \A i \in 1 .. n : flatten[i] = IF i = 1 THEN seqs[i] ELSE flatten[i - 1] \o seqs[i]
  BY <1>2
<1>4. flatten[n] \in S
  <2> DEFINE outside == {i \in 1 .. n : flatten[i] \notin S}
  <2>1. SUFFICES ASSUME outside # {} PROVE FALSE
    BY <1>1
  <2>2. PICK i \in outside : \A j \in outside : i <= j
    <3>1. outside \subseteq Nat
      BY <1>1
    <3> HIDE DEF outside
    <3> QED BY <2>1, <3>1, LeastNat
  <2>3. CASE i = 1
    BY <1>1, <1>3, <2>2, <2>3
  <2>4. CASE i # 1
    <3>1. i - 1 \in 1 .. n /\ flatten[i - 1] \in S
      BY <1>1, <2>2, <2>4
    <3> QED BY <1>1, <1>3, <2>2, <2>4, <3>1
  <2> QED BY <2>3, <2>4
<1> QED BY <1>2, <1>4

LEMMA FlattenOne ==
  ASSUME NEW a
  PROVE  FlattenSeq(<<a>>) = a
<1> DEFINE seqs == <<a>>
<1>1. seqs \in Seq({a}) /\ seqs # <<>> /\ Len(seqs) = 1 /\ seqs[1] = a
  OBVIOUS
<1> HIDE DEF seqs
<1>2. PICK f : /\ f = [i \in 1 .. Len(seqs) |-> IF i = 1 THEN seqs[i] ELSE f[i - 1] \o seqs[i]]
               /\ FlattenSeq(seqs) = f[Len(seqs)]
  BY <1>1, FlattenRecursion
<1>3. f[1] = a
  BY <1>1, <1>2
<1> QED BY <1>1, <1>2, <1>3 DEF seqs

-----------------------------------------------------------------------------
(* What a device may print, and what the parser makes of any of it.           *)

LEMMA TextsJoin ==
  ASSUME NEW a \in Texts, NEW b \in Texts
  PROVE  a \o b \in Texts
<1> DEFINE ab == a \o b
<1>1. a \in Seq(Tokens) /\ b \in Seq(Tokens) /\ ImsiColumnFits(a) /\ ImsiColumnFits(b)
  BY DEF Texts
<1>2. /\ ab \in Seq(Tokens)
      /\ Len(a) \in Nat /\ DOMAIN a = 1 .. Len(a)
      /\ Len(b) \in Nat /\ DOMAIN b = 1 .. Len(b)
      /\ DOMAIN ab = 1 .. Len(a) + Len(b)
      /\ \A i \in 1 .. Len(a) : ab[i] = a[i]
      /\ \A i \in 1 .. Len(b) : ab[Len(a) + i] = b[i]
  <2> HIDE DEF Tokens
  <2> QED BY <1>1, ConcatElements
<1> HIDE DEF ab
<1>3. ASSUME NEW j \in DOMAIN ab, ab[j] = ImsiColumns
      PROVE  j + 2 \in DOMAIN ab /\ ab[j + 2] \in ImsiFields
  <2>1. CASE j \in DOMAIN a
    <3>1. j + 2 \in DOMAIN a /\ a[j + 2] \in ImsiFields
      BY <1>1, <1>2, <1>3, <2>1 DEF ImsiColumnFits
    <3> QED BY <1>2, <3>1
  <2>2. CASE j \notin DOMAIN a
    <3> DEFINE i == j - Len(a)
    <3>1. i \in DOMAIN b /\ b[i] = ImsiColumns /\ j = Len(a) + i
      BY <1>2, <1>3, <2>2
    <3>2. i + 2 \in DOMAIN b /\ b[i + 2] \in ImsiFields
      BY <1>1, <3>1 DEF ImsiColumnFits
    <3>3. j + 2 = Len(a) + (i + 2)
      BY <1>2, <3>1
    <3> QED BY <1>2, <3>2, <3>3
  <2> QED BY <2>1, <2>2
<1> QED BY <1>2, <1>3 DEF Texts, ImsiColumnFits, ab

(* Whatever part of the answers is received.                                  *)
LEMMA ReceivedIsText ==
  ASSUME NEW seqs \in Seq(DeviceTexts), NEW n \in DOMAIN seqs
  PROVE  /\ SubSeq(seqs, 1, n) \in Seq(DeviceTexts)
         /\ SubSeq(seqs, n + 1, Len(seqs)) \in Seq(DeviceTexts)
         /\ FlattenSeq(SubSeq(seqs, 1, n)) \in Texts
<1> DEFINE part == SubSeq(seqs, 1, n)
<1> HIDE DEF DeviceTexts
<1>1. n \in 0 .. Len(seqs) /\ n \in Nat \ {0}
  OBVIOUS
<1>2. /\ part \in Seq(DeviceTexts) /\ SubSeq(seqs, n + 1, Len(seqs)) \in Seq(DeviceTexts)
      /\ DOMAIN part = 1 .. n
  BY <1>1, SplitElements
<1> HIDE DEF part
<1>3. part \in Seq(Texts) /\ part # <<>>
  <2>1. DeviceTexts \subseteq Texts
    BY DEF DeviceTexts
  <2> HIDE DEF Texts
  <2> QED BY <1>1, <1>2, <2>1
<1>4. FlattenSeq(part) \in Texts
  <2>1. \A a, b \in Texts : a \o b \in Texts
    BY TextsJoin
  <2> HIDE DEF Texts
  <2> QED BY <1>3, <2>1, FlattenStays
<1> QED BY <1>2, <1>4 DEF part

LEMMA AfterIsText ==
  ASSUME NEW text \in Texts, NEW t
  PROVE  After(text, t) \in Texts
<1> DEFINE rest == After(text, t)
<1>1. text \in Seq(Tokens) /\ ImsiColumnFits(text)
  BY DEF Texts
<1>2. CASE t \notin Range(text)
  BY <1>2 DEF After, Texts, ImsiColumnFits
<1>3. CASE t \in Range(text)
  <2> HIDE DEF Tokens
  <2>1. PICK n \in 1 .. Len(text) : rest = SubSeq(text, n + 1, Len(text))
    BY <1>1, <1>3, AfterFound
  <2>2. /\ rest \in Seq(Tokens)
        /\ Len(text) \in Nat /\ DOMAIN text = 1 .. Len(text)
        /\ DOMAIN rest = 1 .. Len(text) - n
        /\ \A i \in 1 .. Len(text) - n : rest[i] = text[n + i]
    <3>1. n \in 0 .. Len(text)
      BY <1>1
    <3> QED BY <1>1, <2>1, <3>1, SplitElements
  <2> HIDE DEF rest
  <2>3. ASSUME NEW j \in DOMAIN rest, rest[j] = ImsiColumns
        PROVE  j + 2 \in DOMAIN rest /\ rest[j + 2] \in ImsiFields
    <3>1. n + j \in DOMAIN text /\ text[n + j] = ImsiColumns
      BY <2>2, <2>3
    <3>2. (n + j) + 2 \in DOMAIN text /\ text[(n + j) + 2] \in ImsiFields
      BY <1>1, <3>1 DEF ImsiColumnFits
    <3>3. j + 2 \in DOMAIN rest /\ (n + j) + 2 = n + (j + 2)
      BY <2>2, <3>2
    <3> QED BY <2>2, <3>2, <3>3
  <2> QED BY <2>2, <2>3 DEF Texts, ImsiColumnFits, rest
<1> QED BY <1>2, <1>3

(* The IMSI is read where it is printed.                                      *)
LEMMA ImsiRead ==
  ASSUME NEW text \in Texts, NEW t, Len(After(After(text, t), ImsiColumns)) >= 2
  PROVE  After(After(text, t), ImsiColumns)[2] \in ImsiFields
<1> DEFINE table == After(text, t)
           row   == After(table, ImsiColumns)
<1>1. table \in Seq(Tokens) /\ ImsiColumnFits(table)
  BY AfterIsText DEF Texts
<1> HIDE DEF table, Tokens
<1>2. ImsiColumns \in Range(table)
  <2>1. SUFFICES ASSUME ImsiColumns \notin Range(table) PROVE FALSE
    OBVIOUS
  <2>2. row = <<>>
    BY <2>1 DEF After
  <2> QED BY <2>2 DEF table
<1>3. PICK n \in 1 .. Len(table) :
        table[n] = ImsiColumns /\ row = SubSeq(table, n + 1, Len(table))
  BY <1>1, <1>2, AfterFound
<1>4. /\ Len(table) \in Nat /\ DOMAIN table = 1 .. Len(table)
      /\ \A i \in 1 .. Len(table) - n : row[i] = table[n + i]
  <2>1. n \in 0 .. Len(table)
    BY <1>1
  <2> QED BY <1>1, <1>3, <2>1, SplitElements
<1>5. n + 2 \in DOMAIN table /\ table[n + 2] \in ImsiFields
  BY <1>1, <1>3, <1>4 DEF ImsiColumnFits
<1>6. row[2] = table[n + 2]
  BY <1>4, <1>5
<1> QED BY <1>5, <1>6 DEF table

(* The words of an answer. *)
LEMMA OneElement ==
  ASSUME NEW x1, NEW text,
         text = <<x1>>
  PROVE  Range(text) = {x1}
<1>1. DOMAIN text = 1 .. 1
  OBVIOUS
<1>2. text[1] = x1
  OBVIOUS
<1>3. 1 .. 1 = {1}
  OBVIOUS
<1> QED BY <1>1, <1>2, <1>3 DEF Range

LEMMA ThreeElements ==
  ASSUME NEW x1, NEW x2, NEW x3, NEW text, text = <<x1, x2, x3>>
  PROVE  Range(text) = {x1, x2, x3}
<1>1. DOMAIN text = 1 .. 3
  OBVIOUS
<1>2. text[1] = x1 /\ text[2] = x2 /\ text[3] = x3
  OBVIOUS
<1>3. 1 .. 3 = {1, 2, 3}
  OBVIOUS
<1> QED BY <1>1, <1>2, <1>3 DEF Range

LEMMA FiveElements ==
  ASSUME NEW x1, NEW x2, NEW x3, NEW x4, NEW x5, NEW text,
         text = <<x1, x2, x3, x4, x5>>
  PROVE  Range(text) = {x1, x2, x3, x4, x5}
<1>1. DOMAIN text = 1 .. 5
  OBVIOUS
<1>2. text[1] = x1 /\ text[2] = x2 /\ text[3] = x3 /\ text[4] = x4 /\
      text[5] = x5
  OBVIOUS
<1>3. 1 .. 5 = {1, 2, 3, 4, 5}
  OBVIOUS
<1> QED BY <1>1, <1>2, <1>3 DEF Range

LEMMA SixElements ==
  ASSUME NEW x1, NEW x2, NEW x3, NEW x4, NEW x5, NEW x6, NEW text,
         text = <<x1, x2, x3, x4, x5, x6>>
  PROVE  Range(text) = {x1, x2, x3, x4, x5, x6}
<1>1. DOMAIN text = 1 .. 6
  OBVIOUS
<1>2. text[1] = x1 /\ text[2] = x2 /\ text[3] = x3 /\ text[4] = x4 /\
      text[5] = x5 /\ text[6] = x6
  OBVIOUS
<1>3. 1 .. 6 = {1, 2, 3, 4, 5, 6}
  OBVIOUS
<1> QED BY <1>1, <1>2, <1>3 DEF Range

LEMMA TenElements ==
  ASSUME NEW x1, NEW x2, NEW x3, NEW x4, NEW x5, NEW x6, NEW x7, NEW x8,
         NEW x9, NEW x10, NEW text,
         text = <<x1, x2, x3, x4, x5, x6, x7, x8, x9, x10>>
  PROVE  Range(text) = {x1, x2, x3, x4, x5, x6, x7, x8, x9, x10}
<1>1. DOMAIN text = 1 .. 10
  OBVIOUS
<1>2. text[1] = x1 /\ text[2] = x2 /\ text[3] = x3 /\ text[4] = x4 /\
      text[5] = x5 /\ text[6] = x6 /\ text[7] = x7 /\ text[8] = x8
      /\ text[9] = x9 /\ text[10] = x10
  OBVIOUS
<1>3. 1 .. 10 = {1, 2, 3, 4, 5, 6, 7, 8, 9, 10}
  OBVIOUS
<1> QED BY <1>1, <1>2, <1>3 DEF Range

LEMMA TokensPrinted ==
  /\ SubscriberDetails \in Tokens /\ VLRColumns \in Tokens
  /\ SubscriberData \in Tokens /\ HLRColumns \in Tokens
  /\ LocationData \in Tokens /\ AddressColumns \in Tokens
  /\ TranslationData \in Tokens /\ ImsiColumns \in Tokens
  /\ VLRStates \subseteq Tokens /\ NoAddress \subseteq Tokens
  /\ IsConnected \in Tokens /\ IsNotConnected \in Tokens /\ IsPurged \in Tokens
  /\ IsExecuted \in Tokens /\ IsRefused \in Tokens /\ End \in Tokens
  /\ ImsiFields \subseteq Tokens /\ Blank \in Tokens
  /\ \A s \in Subscribers : Msisdn(s) \in Tokens /\ Imsi(s) \in Tokens
  /\ \A a \in Abroad \cup {Home} : Address(a) \in Tokens
BY DEF Tokens, Headers, Words, ImsiFields

(* What the parser looks for is none of the rest.                             *)
LEMMA TokensDiffer ==
  /\ \A t \in {ImsiColumns, SubscriberDetails, SubscriberData} :
       /\ t \notin {VLRColumns, HLRColumns, AddressColumns, LocationData, TranslationData,
                    IsConnected, IsNotConnected, IsPurged, IsExecuted, IsRefused, End, Blank}
       /\ t \notin VLRStates \cup NoAddress
       /\ \A x : t # Imsi(x) /\ t # Msisdn(x) /\ t # Address(x)
  /\ ImsiColumns # SubscriberDetails /\ ImsiColumns # SubscriberData
  /\ SubscriberDetails # SubscriberData
<1>1. \A v, w : Word(v) = Word(w) => v = w
  BY DEF Word
<1>2. \A v, x : Word(v) # Imsi(x) /\ Word(v) # Msisdn(x) /\ Word(v) # Address(x) /\ Word(v) # Blank
  BY DEF Word, Imsi, Msisdn, Address, Blank
<1> QED
  BY <1>1, <1>2 DEF ImsiColumns, SubscriberDetails, SubscriberData, VLRColumns, HLRColumns,
                    AddressColumns, LocationData, TranslationData, IsConnected, IsNotConnected,
                    IsPurged, IsExecuted, IsRefused, End, VLRStates, NoAddress, AtHome

(* A text without the columns of a translation needs no IMSI in it.           *)
LEMMA PlainText ==
  ASSUME NEW text \in Seq(Tokens), ImsiColumns \notin Range(text),
         SubscriberDetails \notin Range(text) \/ SubscriberData \notin Range(text)
  PROVE  text \in DeviceTexts
BY DEF DeviceTexts, Texts, ImsiColumnFits, Range

LEMMA VLRStateIsText ==
  ASSUME NEW s \in Subscribers, NEW p, NEW text \in VLRState(s, p)
  PROVE  text \in DeviceTexts
<1>1. PICK msisdn \in {Blank, Msisdn(s)}, state \in VLRStates :
        text = <<SubscriberDetails, VLRColumns, Imsi(s), msisdn, state, End>>
  <2> DEFINE w == IF p \in AtHome THEN p ELSE "NOTREG"
  <2>1. Word(w) \in VLRStates
    BY DEF VLRStates
  <2> QED BY <2>1 DEF VLRState, SubscriberDetails, End
<1>2. /\ SubscriberDetails \in Tokens /\ VLRColumns \in Tokens /\ Imsi(s) \in Tokens
      /\ msisdn \in Tokens /\ state \in Tokens /\ End \in Tokens
  BY TokensPrinted
<1>3. text \in Seq(Tokens)
  BY <1>1, <1>2
<1>4. Range(text) = {SubscriberDetails, VLRColumns, Imsi(s), msisdn, state, End}
  BY <1>1, SixElements
<1>5. ImsiColumns \notin Range(text) /\ SubscriberData \notin Range(text)
  BY <1>4, TokensDiffer
<1> QED BY <1>3, <1>5, PlainText

LEMMA AddressLineOf ==
  ASSUME NEW p \in Places
  PROVE  /\ p \in AtHome => AddressLine(p) = <<Address(Home), Blank>>
         /\ p \in Abroad => AddressLine(p) = <<Address(p), Blank>>
         /\ p = "PURGED" => AddressLine(p) = <<Address(Home), IsPurged>>
         /\ p \in {"UNKNOWN", "RESTRICTED", "BARRED"} => AddressLine(p) = <<Word(p), Blank>>
<1>1. ASSUME p \in AtHome PROVE AddressLine(p) = <<Address(Home), Blank>>
  <2>1. p \notin Abroad /\ p # "PURGED"
    BY <1>1, NamesAssumption DEF AtHome
  <2> QED BY <1>1, <2>1, Zenon DEF AddressLine
<1>2. ASSUME p \in Abroad PROVE AddressLine(p) = <<Address(p), Blank>>
  <2>1. p \notin AtHome /\ p # "PURGED"
    BY <1>2, NamesAssumption DEF Unserved
  <2> QED BY <1>2, <2>1, Zenon DEF AddressLine
<1>3. ASSUME p = "PURGED" PROVE AddressLine(p) = <<Address(Home), IsPurged>>
  <2>1. p \notin AtHome /\ p \notin Abroad
    BY <1>3, NamesAssumption DEF Unserved, AtHome
  <2> QED BY <1>3, <2>1, Zenon DEF AddressLine, IsPurged
<1>4. ASSUME p \in {"UNKNOWN", "RESTRICTED", "BARRED"} PROVE AddressLine(p) = <<Word(p), Blank>>
  <2>1. p \notin AtHome /\ p \notin Abroad /\ p # "PURGED"
    BY <1>4, NamesAssumption DEF Unserved, AtHome
  <2> QED BY <2>1, Zenon DEF AddressLine
<1> QED BY <1>1, <1>2, <1>3, <1>4

(* The two forms of the HLR's answer.                                         *)
LEMMA HLRDataForms ==
  ASSUME NEW s, NEW p \in Places
  PROVE  \/ /\ p = "NOT CONNECTED"
            /\ HLRData(s, p) = <<SubscriberData, HLRColumns, Msisdn(s), Imsi(s),
                                 IsNotConnected, End>>
         \/ /\ p # "NOT CONNECTED"
            /\ \E a \in {Address(x) : x \in Abroad \cup {Home}} \cup NoAddress,
                  b \in {Blank, IsPurged} :
              /\ AddressLine(p) = <<a, b>>
              /\ HLRData(s, p) = <<SubscriberData, HLRColumns, Msisdn(s), Imsi(s), IsConnected,
                                   LocationData, AddressColumns, a, b, End>>
<1>1. CASE p = "NOT CONNECTED"
  BY <1>1 DEF HLRData, SubscriberData, IsNotConnected, End
<1>2. CASE p # "NOT CONNECTED"
  <2>1. p \in AtHome \cup Abroad \cup {"PURGED"} \cup {"UNKNOWN", "RESTRICTED", "BARRED"}
    BY <1>2, NamesAssumption DEF Unserved
  <2>2. ASSUME NEW a, NEW b, AddressLine(p) = <<a, b>>
        PROVE  HLRData(s, p) = <<SubscriberData, HLRColumns, Msisdn(s), Imsi(s), IsConnected,
                                 LocationData, AddressColumns, a, b, End>>
    <3>1. AddressLine(p)[1] = a /\ AddressLine(p)[2] = b
      BY <2>2
    <3> QED BY <1>2, <3>1 DEF HLRData, SubscriberData, IsConnected, LocationData, End
  <2>3. \E a \in {Address(x) : x \in Abroad \cup {Home}} \cup NoAddress, b \in {Blank, IsPurged} :
          AddressLine(p) = <<a, b>>
    BY <2>1, AddressLineOf DEF NoAddress
  <2> QED BY <1>2, <2>2, <2>3
<1> QED BY <1>1, <1>2

LEMMA HLRDataIsText ==
  ASSUME NEW s \in Subscribers, NEW p \in Places, NEW text, text = HLRData(s, p)
  PROVE  text \in DeviceTexts
<1>1. SubscriberData \in Tokens /\ HLRColumns \in Tokens /\ Msisdn(s) \in Tokens
      /\ Imsi(s) \in Tokens /\ End \in Tokens
  BY TokensPrinted
<1>2. CASE text = <<SubscriberData, HLRColumns, Msisdn(s), Imsi(s), IsNotConnected, End>>
  <2>1. IsNotConnected \in Tokens
    BY TokensPrinted
  <2>2. text \in Seq(Tokens)
    BY <1>1, <1>2, <2>1
  <2>3. Range(text) = {SubscriberData, HLRColumns, Msisdn(s), Imsi(s), IsNotConnected, End}
    BY <1>2, SixElements
  <2>4. ImsiColumns \notin Range(text) /\ SubscriberDetails \notin Range(text)
    BY <2>3, TokensDiffer
  <2> QED BY <2>2, <2>4, PlainText
<1>3. CASE \E a \in {Address(x) : x \in Abroad \cup {Home}} \cup NoAddress, b \in {Blank, IsPurged} :
             text = <<SubscriberData, HLRColumns, Msisdn(s), Imsi(s), IsConnected,
                      LocationData, AddressColumns, a, b, End>>
  <2>1. PICK a \in {Address(x) : x \in Abroad \cup {Home}} \cup NoAddress, b \in {Blank, IsPurged} :
          text = <<SubscriberData, HLRColumns, Msisdn(s), Imsi(s), IsConnected,
                   LocationData, AddressColumns, a, b, End>>
    BY <1>3
  <2>2. IsConnected \in Tokens /\ LocationData \in Tokens /\ AddressColumns \in Tokens
        /\ a \in Tokens /\ b \in Tokens
    BY TokensPrinted
  <2>3. text \in Seq(Tokens)
    BY <1>1, <2>1, <2>2
  <2>4. Range(text) = {SubscriberData, HLRColumns, Msisdn(s), Imsi(s), IsConnected,
                       LocationData, AddressColumns, a, b, End}
    BY <2>1, TenElements
  <2>5. ImsiColumns \notin Range(text) /\ SubscriberDetails \notin Range(text)
    BY <2>4, TokensDiffer
  <2> QED BY <2>3, <2>5, PlainText
<1> QED BY <1>2, <1>3, HLRDataForms

LEMMA TranslationIsText ==
  ASSUME NEW s \in Subscribers, NEW p, NEW text, text = Translation(s, p)
  PROVE  text \in DeviceTexts
<1>1. PICK imsi \in ImsiFields :
        text = <<TranslationData, ImsiColumns, Msisdn(s), imsi, End>>
  BY DEF Translation, TranslationData, End, ImsiFields
<1>2. /\ TranslationData \in Tokens /\ ImsiColumns \in Tokens /\ Msisdn(s) \in Tokens
      /\ imsi \in Tokens /\ End \in Tokens
  BY TokensPrinted
<1>3. text \in Seq(Tokens)
  BY <1>1, <1>2
<1>4. Range(text) = {TranslationData, ImsiColumns, Msisdn(s), imsi, End}
  BY <1>1, FiveElements
<1>5. ImsiColumnFits(text)
  <2>1. /\ TranslationData # ImsiColumns /\ Msisdn(s) # ImsiColumns
        /\ imsi # ImsiColumns /\ End # ImsiColumns
    BY TokensDiffer DEF ImsiFields
  <2>2. DOMAIN text = 1 .. 5 /\ text[1] = TranslationData /\ text[2] = ImsiColumns
        /\ text[3] = Msisdn(s) /\ text[4] = imsi /\ text[5] = End
    BY <1>1
  <2>3. ASSUME NEW j \in DOMAIN text, text[j] = ImsiColumns
        PROVE  j + 2 \in DOMAIN text /\ text[j + 2] \in ImsiFields
    <3>1. j = 2
      BY <2>1, <2>2, <2>3
    <3> QED BY <2>2, <3>1
  <2> QED BY <2>3 DEF ImsiColumnFits
<1>6. SubscriberDetails \notin Range(text)
  BY <1>4, TokensDiffer DEF ImsiFields
<1> QED BY <1>3, <1>5, <1>6 DEF DeviceTexts, Texts

LEMMA WordIsText ==
  ASSUME NEW word \in {IsExecuted, IsRefused}, NEW text, text = <<word>>
  PROVE  text \in DeviceTexts
<1>1. word \in Tokens
  BY TokensPrinted
<1>2. text \in Seq(Tokens)
  BY <1>1
<1>3. Range(text) = {word}
  BY OneElement
<1>4. word # ImsiColumns /\ word # SubscriberDetails
  BY TokensDiffer
<1> QED BY <1>2, <1>3, <1>4, PlainText

LEMMA AnswersAreTexts ==
  ASSUME NEW c \in Commands, NEW p \in Places, NEW answer \in AnswersTo(c, p)
  PROVE  answer \in DeviceTexts
<1>1. c.subscriber \in Subscribers
  BY DEF Commands
<1>2. \/ answer \in VLRState(c.subscriber, p)
      \/ answer = HLRData(c.subscriber, p)
      \/ answer = Translation(c.subscriber, p)
      \/ answer = <<IsExecuted>>
  BY Zenon DEF AnswersTo, IsExecuted
<1> QED BY <1>1, <1>2, VLRStateIsText, HLRDataIsText, TranslationIsText, WordIsText

-----------------------------------------------------------------------------
(* What the parsers make of any text. *)

(* A parser sets what it has read, and nothing else of the request.           *)
Outcome(r, out) ==
  /\ out = [res |-> out.res, request |-> out.request]
  /\ out.res \in {"success", "failure", "infoNotComplete"}
  /\ out.request \in Requests
  /\ out.request.requestType = r.requestType /\ out.request.subscriberID = r.subscriberID

LEMMA FailureLeaves ==
  ASSUME NEW r \in Requests
  PROVE  Outcome(r, Failure(r)) /\ Failure(r).res = "failure"
BY DEF Outcome, Failure

LEMMA SuccessSets ==
  ASSUME NEW r \in Requests, NEW q \in Requests,
         q.requestType = r.requestType, q.subscriberID = r.subscriberID
  PROVE  Outcome(r, Success(q)) /\ Success(q).res = "success" /\ Success(q).request = q
BY DEF Outcome, Success

LEMMA VLRParse ==
  ASSUME NEW text \in Texts, NEW r \in Requests, NEW out,
         out = ParseStateQueryVLRResponse(text, r)
  PROVE  /\ Outcome(r, out)
         /\ out.res = "success" => /\ out.request.subscriberState # "roaming"
                                   /\ SubscriberDetails \in Range(text)
<1> DEFINE table == After(text, SubscriberDetails)
           first == Fields(After(table, VLRColumns))
<1>1. \/ out = Failure(r)
      \/ out = [res |-> "infoNotComplete", request |-> r]
      \/ /\ first # <<>>
         /\ \E st \in {"connected", "notConnected"}, on \in {"offline", "online"} :
              out = Success([r EXCEPT !.subscriberState = st, !.subscriberOnline = on])
  BY DEF ParseStateQueryVLRResponse, SubscriberDetails
<1>2. ASSUME first # <<>> PROVE SubscriberDetails \in Range(text)
  <2>1. text \in Seq(Tokens)
    BY DEF Texts
  <2> HIDE DEF Tokens
  <2>2. table \in Seq(Tokens) /\ (Range(table) # {} => SubscriberDetails \in Range(text))
    BY <2>1, AfterPart
  <2> HIDE DEF table
  <2> DEFINE row == After(table, VLRColumns)
  <2>3. row \in Seq(Tokens) /\ Range(row) \subseteq Range(table)
    BY <2>2, AfterPart
  <2> HIDE DEF row
  <2>4. first \in Seq(Tokens) /\ Range(first) \subseteq Range(row)
    BY <2>3, FieldsPart DEF row
  <2> HIDE DEF first
  <2>5. first[1] \in Range(first)
    BY <1>2, <2>4 DEF Range
  <2> QED BY <2>2, <2>3, <2>4, <2>5
<1> HIDE DEF first
<1>3. CASE out = Failure(r)
  BY <1>3, FailureLeaves
<1>4. CASE out = [res |-> "infoNotComplete", request |-> r]
  BY <1>4 DEF Outcome
<1>5. CASE /\ first # <<>>
           /\ \E st \in {"connected", "notConnected"}, on \in {"offline", "online"} :
                out = Success([r EXCEPT !.subscriberState = st, !.subscriberOnline = on])
  <2>0. PICK st \in {"connected", "notConnected"}, on \in {"offline", "online"} :
          out = Success([r EXCEPT !.subscriberState = st, !.subscriberOnline = on])
    BY <1>5
  <2> DEFINE q == [r EXCEPT !.subscriberState = st, !.subscriberOnline = on]
  <2>1. /\ q \in Requests /\ q.requestType = r.requestType /\ q.subscriberID = r.subscriberID
        /\ q.subscriberState # "roaming"
    BY DEF Requests
  <2> HIDE DEF q
  <2>2. Outcome(r, Success(q)) /\ Success(q).request = q
    BY <2>1, SuccessSets
  <2> QED BY <1>2, <1>5, <2>0, <2>1, <2>2 DEF q
<1> QED BY <1>1, <1>3, <1>4, <1>5

LEMMA AddressesAreRead ==
  ASSUME NEW tl
  PROVE  AddressesRead(tl) \subseteq Addresses
BY DEF AddressesRead, Addresses

LEMMA VlrAddrParse ==
  ASSUME NEW field \in Tokens, NEW tl, NEW r \in Requests, NEW out,
         out = ParseVlrAddr(field, tl, r)
  PROVE  /\ Outcome(r, out)
         /\ out.res = "success" /\ out.request.subscriberState = "roaming"
              => out.request.vlrAddress \in AddressesRead(tl)
<1>1. field[1] = "address" => field[2] \in Abroad \cup {Home}
  <2>1. \A w : Word(w)[1] # "address"
    BY DEF Word
  <2>2. \A t \in Headers : t[1] # "address"
    BY <2>1 DEF Headers, SubscriberDetails, VLRColumns, SubscriberData, HLRColumns, LocationData,
                AddressColumns, TranslationData, ImsiColumns
  <2>3. \A t \in Words : t[1] # "address"
    BY <2>1 DEF Words, VLRStates, NoAddress, IsConnected, IsNotConnected, IsPurged, IsExecuted,
                IsRefused, End
  <2>4. \A s : Imsi(s)[1] # "address" /\ Msisdn(s)[1] # "address" /\ Blank[1] # "address"
    BY DEF Imsi, Msisdn, Blank
  <2>5. \A a : Address(a)[2] = a
    BY DEF Address
  <2> QED BY <2>2, <2>3, <2>4, <2>5 DEF Tokens, ImsiFields
<1>2. \/ out = Success([r EXCEPT !.subscriberState = "notConnected"])
      \/ \E a \in AddressesRead(tl) :
           out = Success([r EXCEPT !.subscriberState = "roaming", !.vlrAddress = a])
      \/ out = Failure(r)
  BY <1>1 DEF ParseVlrAddr, AddressesRead, CleanTails
<1>3. CASE out = Success([r EXCEPT !.subscriberState = "notConnected"])
  <2> DEFINE q == [r EXCEPT !.subscriberState = "notConnected"]
  <2>1. /\ q \in Requests /\ q.requestType = r.requestType /\ q.subscriberID = r.subscriberID
        /\ q.subscriberState # "roaming"
    BY DEF Requests
  <2> HIDE DEF q
  <2> QED BY <1>3, <2>1, SuccessSets DEF q
<1>4. ASSUME NEW a \in AddressesRead(tl),
             out = Success([r EXCEPT !.subscriberState = "roaming", !.vlrAddress = a])
      PROVE  Outcome(r, out) /\ out.request.vlrAddress \in AddressesRead(tl)
  <2> DEFINE q == [r EXCEPT !.subscriberState = "roaming", !.vlrAddress = a]
  <2>1. /\ q \in Requests /\ q.requestType = r.requestType /\ q.subscriberID = r.subscriberID
        /\ q.vlrAddress \in AddressesRead(tl)
    BY AddressesAreRead DEF Requests
  <2> HIDE DEF q
  <2> QED BY <1>4, <2>1, SuccessSets DEF q
<1> QED BY <1>2, <1>3, <1>4, FailureLeaves

LEMMA HLRParse ==
  ASSUME NEW text \in Texts, NEW tl, NEW r \in Requests, NEW out,
         out = ParseStateQueryHLRResponse(text, tl, r)
  PROVE  /\ Outcome(r, out)
         /\ out.res = "success" /\ out.request.subscriberState = "roaming"
              => out.request.vlrAddress \in AddressesRead(tl)
         /\ out.res = "success" => Imsi(r.subscriberID) \in Range(text)
<1> DEFINE data  == After(text, SubscriberData)
           table == After(data, HLRColumns)
           row   == After(table, Imsi(r.subscriberID))
           location == Location(row)
<1>1. /\ data \in Seq(Tokens) /\ Range(data) \subseteq Range(text)
      /\ table \in Seq(Tokens) /\ Range(table) \subseteq Range(data)
      /\ row \in Seq(Tokens) /\ (Range(row) # {} => Imsi(r.subscriberID) \in Range(table))
  <2>1. text \in Seq(Tokens)
    BY DEF Texts
  <2> HIDE DEF Tokens
  <2>2. data \in Seq(Tokens) /\ Range(data) \subseteq Range(text)
    BY <2>1, AfterPart
  <2> HIDE DEF data
  <2>3. table \in Seq(Tokens) /\ Range(table) \subseteq Range(data)
    BY <2>2, AfterPart
  <2> HIDE DEF table
  <2>4. row \in Seq(Tokens) /\ (Range(row) # {} => Imsi(r.subscriberID) \in Range(table))
    BY <2>3, AfterPart
  <2> QED BY <2>2, <2>3, <2>4
<1>2. location \in Seq(Tokens)
  <2> HIDE DEF Tokens, row
  <2> DEFINE found == After(row, LocationData)
             line  == After(found, AddressColumns)
  <2>1. found \in Seq(Tokens)
    BY <1>1, AfterPart
  <2> HIDE DEF found
  <2>2. line \in Seq(Tokens)
    BY <2>1, AfterPart
  <2> HIDE DEF line
  <2>3. location = Fields(line)
    BY DEF Location, line, found, LocationData
  <2> QED BY <2>2, <2>3, FieldsPart
<1> HIDE DEF row, location
<1>3. \/ out = Failure(r)
      \/ /\ Range(row) # {}
         /\ \/ out = Success([r EXCEPT !.subscriberState = "notConnected"])
            \/ location # <<>> /\ out = ParseVlrAddr(Head(location), tl, r)
  BY DEF ParseStateQueryHLRResponse, row, location, SubscriberData
<1>4. location # <<>> => Head(location) \in Tokens
  <2> HIDE DEF Tokens
  <2> QED BY <1>2
<1>5. CASE out = Failure(r)
  BY <1>5, FailureLeaves
<1>6. CASE Range(row) # {} /\ out = Success([r EXCEPT !.subscriberState = "notConnected"])
  <2> DEFINE q == [r EXCEPT !.subscriberState = "notConnected"]
  <2>1. /\ q \in Requests /\ q.requestType = r.requestType /\ q.subscriberID = r.subscriberID
        /\ q.subscriberState # "roaming"
    BY DEF Requests
  <2> HIDE DEF q
  <2> QED BY <1>1, <1>6, <2>1, SuccessSets DEF q
<1>7. CASE Range(row) # {} /\ location # <<>> /\ out = ParseVlrAddr(Head(location), tl, r)
  BY <1>1, <1>4, <1>7, VlrAddrParse
<1> QED BY <1>3, <1>5, <1>6, <1>7

LEMMA ImsiParse ==
  ASSUME NEW text \in Texts, NEW r \in Requests, NEW out,
         out = ParseImsiQueryVLRResponse(text, r)
  PROVE  /\ Outcome(r, out)
         /\ out.res = "success" => out.request.imsiInVlr \in Subscribers \cup {"0"}
<1> DEFINE row == After(After(text, TranslationData), ImsiColumns)
<1>1. Len(row) \in Nat /\ (Len(row) >= 2 => row[2] \in ImsiFields)
  <2>1. row \in Texts
    BY AfterIsText
  <2>2. row \in Seq(Tokens)
    BY <2>1 DEF Texts
  <2>3. Len(row) \in Nat
    <3> HIDE DEF row, Tokens
    <3> QED BY <2>2
  <2> QED BY <2>3, ImsiRead
<1> HIDE DEF row
<1>2. \/ out = Failure(r)
      \/ /\ Len(row) >= 2
         /\ out = Success([r EXCEPT !.imsiInVlr = IF row[2] = Blank THEN "0" ELSE row[2][2]])
  <2>1. out = IF Len(row) < 2 THEN Failure(r)
              ELSE Success([r EXCEPT !.imsiInVlr = IF row[2] = Blank THEN "0" ELSE row[2][2]])
    BY Zenon DEF ParseImsiQueryVLRResponse, row, TranslationData
  <2> QED BY <1>1, <2>1
<1>3. Len(row) >= 2 => (IF row[2] = Blank THEN "0" ELSE row[2][2]) \in Subscribers \cup {"0"}
  BY <1>1 DEF ImsiFields, Imsi
<1> QED BY <1>2, <1>3 DEF Outcome, Success, Failure, Requests

LEMMA Parsed ==
  ASSUME NEW text \in Texts, NEW tl, NEW r \in Requests, NEW device \in {"VLR", "HLR"}, NEW out,
         out = ParseAndSetResultCode(device, text, tl, r)
  PROVE  /\ Outcome(r, out)
         /\ out.request.resultCode \in {"OPERATION_SUCCESS", "BAD_DEVICE_RESPONSE"}
         /\ out.request.resultCode = "OPERATION_SUCCESS" <=> out.res = "success"
         /\ out.res = "success" =>
              /\ r.requestType \in Queries
              /\ r.requestType = "imsiQuery" => out.request.imsiInVlr \in Subscribers \cup {"0"}
              /\ r.requestType = "stateQuery" /\ out.request.subscriberState = "roaming"
                   => out.request.vlrAddress \in AddressesRead(tl)
              /\ r.requestType = "stateQuery" /\ device = "VLR" => SubscriberDetails \in Range(text)
              /\ r.requestType = "stateQuery" /\ device = "HLR"
                   => Imsi(r.subscriberID) \in Range(text)
<1> DEFINE parsed == Parse(device, text, tl, r)
<1>1. \/ r.requestType = "stateQuery" /\ device = "VLR" /\ parsed = ParseStateQueryVLRResponse(text, r)
      \/ r.requestType = "stateQuery" /\ device = "HLR"
           /\ parsed = ParseStateQueryHLRResponse(text, tl, r)
      \/ r.requestType = "imsiQuery" /\ parsed = ParseImsiQueryVLRResponse(text, r)
      \/ r.requestType \notin Queries /\ parsed = Failure(r)
  BY DEF Parse, Queries
<1>2. out = [parsed EXCEPT !.request.resultCode =
               IF parsed.res = "success" THEN "OPERATION_SUCCESS" ELSE "BAD_DEVICE_RESPONSE"]
  BY DEF ParseAndSetResultCode
<1> HIDE DEF parsed
<1>3. /\ Outcome(r, parsed)
      /\ parsed.res = "success" =>
              /\ r.requestType \in Queries
              /\ r.requestType = "imsiQuery" => parsed.request.imsiInVlr \in Subscribers \cup {"0"}
              /\ r.requestType = "stateQuery" /\ parsed.request.subscriberState = "roaming"
                   => parsed.request.vlrAddress \in AddressesRead(tl)
              /\ r.requestType = "stateQuery" /\ device = "VLR" => SubscriberDetails \in Range(text)
              /\ r.requestType = "stateQuery" /\ device = "HLR"
                   => Imsi(r.subscriberID) \in Range(text)
  <2>1. Outcome(r, Failure(r)) /\ Failure(r).res # "success"
    BY DEF Outcome, Failure
  <2> QED BY <1>1, <2>1, VLRParse, HLRParse, ImsiParse DEF Queries
<1>4. /\ out.res = parsed.res
      /\ out = [res |-> out.res, request |-> out.request]
      /\ out.request = [parsed.request EXCEPT !.resultCode =
           IF parsed.res = "success" THEN "OPERATION_SUCCESS" ELSE "BAD_DEVICE_RESPONSE"]
  BY <1>2, <1>3 DEF Outcome
<1> QED BY <1>3, <1>4 DEF Outcome, Requests, Results

-----------------------------------------------------------------------------
(* The first invariant, step by step. *)

LEMMA CommandTyped ==
  ASSUME Typing, request.requestType \in RequestTypes, request.subscriberID \in Subscribers
  PROVE  /\ CommandFor(request) \in Commands
         /\ CommandFor(request).subscriber = request.subscriberID
         /\ CommandFor(request).number = number
         /\ request.requestType = "stateQuery" => CommandFor(request).verb = "MGSSP"
         /\ request.requestType = "imsiQuery" => CommandFor(request).verb = "MGTRP"
         /\ request.requestType \notin Queries => CommandFor(request).verb \in {"HGSLR", "HGSDC"}
         /\ [CommandFor(request) EXCEPT !.verb = "HGSDP"] \in Commands
<1> DEFINE verb == [stateQuery |-> "MGSSP", imsiQuery |-> "MGTRP", resetRequest |-> "HGSLR",
                    activateRequest |-> "HGSDC", deactivateRequest |-> "HGSDC"][request.requestType]
<1>1. /\ request.requestType = "stateQuery" => verb = "MGSSP"
      /\ request.requestType = "imsiQuery" => verb = "MGTRP"
      /\ request.requestType = "resetRequest" => verb = "HGSLR"
      /\ request.requestType \in {"activateRequest", "deactivateRequest"} => verb = "HGSDC"
  OBVIOUS
<1>2. request.requestType \in Types
  BY NamesAssumption
<1>3. CommandFor(request) = [verb |-> verb, subscriber |-> request.subscriberID, number |-> number]
  BY DEF CommandFor
<1> HIDE DEF verb
<1>4. number \in 0 .. MaxRequests
  BY DEF Typing
<1> QED BY <1>1, <1>2, <1>3, <1>4 DEF Commands, Types, Queries

LEMMA TypeInit == Init => TypeInv
<1> SUFFICES ASSUME Init PROVE TypeInv
  OBVIOUS
<1>1. request \in Requests
  BY DEF Init, NoRequest, ClientRequest, Requests, Wrong
<1>2. /\ commands \in Seq(Commands) /\ answers \in Seq(DeviceTexts) /\ heard \in Seq(DeviceTexts)
      /\ seen \in [Subscribers -> SUBSET Places] /\ arrived \subseteq Subscribers
  BY DEF Init
<1>3. number \in 0 .. MaxRequests /\ events \in 0 .. MaxEvents
  BY NamesAssumption DEF Init
<1> QED BY <1>1, <1>2, <1>3 DEF Init, TypeInv, Typing, Told

LEMMA SendCommandTypes ==
  ASSUME Typing, NEW command \in Commands, SendCommand(command)
  PROVE  commands' \in Seq(Commands) /\ answers' \in Seq(DeviceTexts) /\ stale' \in BOOLEAN
<1>1. commands \in Seq(Commands) /\ answers \in Seq(DeviceTexts) /\ stale \in BOOLEAN
  BY DEF Typing
<1>2. commands' \in Seq(Commands)
  <2> HIDE DEF Commands
  <2> QED BY <1>1 DEF SendCommand
<1>3. answers' \in Seq(DeviceTexts)
  BY <1>1, ReceivedIsText DEF SendCommand
<1>4. stale' \in BOOLEAN
  BY <1>1 DEF SendCommand
<1> QED BY <1>2, <1>3, <1>4

LEMMA ReceivedTypes ==
  ASSUME Typing, NEW n \in DOMAIN answers, Received(n)
  PROVE  /\ answers' \in Seq(DeviceTexts) /\ heard' \in Seq(DeviceTexts)
         /\ FlattenSeq(SubSeq(answers, 1, n)) \in Texts
BY ReceivedIsText DEF Typing, Received

(* ProcessCommand has failed.                                                 *)
LEMMA CommandFailsTypes ==
  ASSUME Typing, CommandFails, pc # "idle"
  PROVE  /\ request' \in Requests
         /\ request'.requestType = request.requestType
         /\ request'.subscriberID = request.subscriberID
         /\ pc' = "respond" /\ Told'
BY DEF Typing, CommandFails, Requests, Results, Told

LEMMA TypeStep == TypeInv /\ [Next]_vars => TypeInv'
<1> SUFFICES ASSUME TypeInv, [Next]_vars PROVE TypeInv'
  OBVIOUS
<1> USE DEF TypeInv
<1>1. ASSUME NEW packet \in Packets, Accept(packet) PROVE TypeInv'
  <2>1. packet.command \in RequestTypes /\ packet.subscriber \in Subscribers
    BY <1>1 DEF Accept, ValidateAndSetRequestParams, Packets
  <2>2. /\ request' \in Requests
        /\ request'.requestType \in RequestTypes /\ request'.subscriberID \in Subscribers
    BY <1>1, <2>1 DEF Accept, ClientRequest, Requests
  <2>3. seen' \in [Subscribers -> SUBSET Places] /\ arrived' \subseteq Subscribers
    BY <1>1 DEF Accept, Typing
  <2>4. number' \in 0 .. MaxRequests
    BY <1>1, NamesAssumption DEF Accept, Typing
  <2> QED BY <1>1, <2>2, <2>3, <2>4 DEF Accept, Typing, Told, connectionVars, historyVars
<1>2. ASSUME NEW packet \in Packets, Reject(packet) PROVE TypeInv'
  <2>1. number' \in 0 .. MaxRequests
    BY <1>2, NamesAssumption DEF Reject, Typing
  <2> QED BY <1>2, <2>1 DEF Reject, Typing, Told, connectionVars, historyVars, worldVars
<1>3. CASE Ask
  <2>1. CommandFor(request) \in Commands
    BY <1>3, CommandTyped DEF Ask, Typing
  <2>2. SendCommand(CommandFor(request))
    BY <1>3 DEF Ask
  <2>3. commands' \in Seq(Commands) /\ answers' \in Seq(DeviceTexts) /\ stale' \in BOOLEAN
    BY <2>1, <2>2, SendCommandTypes
  <2> QED BY <1>3, <2>2, <2>3 DEF Ask, SendCommand, Typing, Told, worldVars
<1>4. CASE AskHLR
  <2> DEFINE command == [CommandFor(request) EXCEPT !.verb = "HGSDP"]
  <2>1. command \in Commands
    BY <1>4, CommandTyped DEF AskHLR, Typing
  <2>2. SendCommand(command)
    BY <1>4 DEF AskHLR
  <2> HIDE DEF command
  <2>3. commands' \in Seq(Commands) /\ answers' \in Seq(DeviceTexts) /\ stale' \in BOOLEAN
    BY <2>1, <2>2, SendCommandTypes
  <2> QED BY <1>4, <2>2, <2>3 DEF AskHLR, SendCommand, Typing, Told, worldVars
<1>5. CASE Response
  <2>1. PICK n \in DOMAIN answers :
          LET text   == FlattenSeq(SubSeq(answers, 1, n))
              parsed == ParseAndSetResultCode("VLR", text, tail, request)
          IN
          /\ Received(n)
          /\ IF request.requestType \in Queries
             THEN /\ request' = parsed.request
                  /\ pc' = IF request.requestType = "stateQuery" /\ parsed.res = "infoNotComplete"
                           THEN "askHLR" ELSE "respond"
             ELSE /\ request' = [request EXCEPT !.resultCode = "OPERATION_SUCCESS"]
                  /\ pc' = "respond"
    BY <1>5 DEF Response
  <2> DEFINE text   == FlattenSeq(SubSeq(answers, 1, n))
             parsed == ParseAndSetResultCode("VLR", text, tail, request)
  <2>2. answers' \in Seq(DeviceTexts) /\ heard' \in Seq(DeviceTexts) /\ text \in Texts
    BY <2>1, ReceivedTypes
  <2>3. /\ request' \in Requests /\ request'.requestType = request.requestType
        /\ request'.subscriberID = request.subscriberID
        /\ pc' \in {"askHLR", "respond"} /\ Told'
        /\ pc' = "askHLR" => request.requestType = "stateQuery"
    <3>1. CASE request.requestType \in Queries
      <4>1. /\ request' = parsed.request
            /\ pc' = IF request.requestType = "stateQuery" /\ parsed.res = "infoNotComplete"
                     THEN "askHLR" ELSE "respond"
        BY <2>1, <3>1
      <4> HIDE DEF text
      <4>2. request \in Requests
        BY DEF Typing
      <4>3. /\ Outcome(request, parsed)
            /\ parsed.request.resultCode \in {"OPERATION_SUCCESS", "BAD_DEVICE_RESPONSE"}
            /\ parsed.request.resultCode = "OPERATION_SUCCESS" <=> parsed.res = "success"
            /\ parsed.res = "success" =>
                 /\ request.requestType = "imsiQuery"
                      => parsed.request.imsiInVlr \in Subscribers \cup {"0"}
                 /\ request.requestType = "stateQuery"
                      /\ parsed.request.subscriberState = "roaming"
                      => parsed.request.vlrAddress \in AddressesRead(tail)
        BY <2>2, <4>2, Parsed
      <4> HIDE DEF parsed
      <4>4. tail' = tail
        BY <1>5 DEF Response
      <4> QED BY <4>1, <4>3, <4>4 DEF Outcome, Told, Results
    <3>2. CASE request.requestType \notin Queries
      BY <2>1, <3>2 DEF Typing, Requests, Told, Queries, Results
    <3> QED BY <3>1, <3>2
  <2> QED BY <1>5, <2>2, <2>3 DEF Response, Typing, worldVars
<1>6. CASE ResponseHLR
  <2>1. PICK n \in DOMAIN answers :
          LET text == FlattenSeq(SubSeq(answers, 1, n)) IN
          /\ Received(n)
          /\ request' = ParseAndSetResultCode("HLR", text, tail', request).request
    BY <1>6 DEF ResponseHLR
  <2> DEFINE text   == FlattenSeq(SubSeq(answers, 1, n))
             parsed == ParseAndSetResultCode("HLR", text, tail', request)
  <2>2. answers' \in Seq(DeviceTexts) /\ heard' \in Seq(DeviceTexts) /\ text \in Texts
    BY <2>1, ReceivedTypes
  <2>3. /\ request' \in Requests /\ request'.requestType = request.requestType
        /\ request'.subscriberID = request.subscriberID /\ Told'
    <3>1. request' = parsed.request
      BY <2>1
    <3> HIDE DEF text
    <3>2. request \in Requests
      BY DEF Typing
    <3>3. /\ Outcome(request, parsed)
          /\ parsed.request.resultCode \in {"OPERATION_SUCCESS", "BAD_DEVICE_RESPONSE"}
          /\ parsed.request.resultCode = "OPERATION_SUCCESS" <=> parsed.res = "success"
          /\ parsed.res = "success" =>
               /\ request.requestType = "imsiQuery"
                    => parsed.request.imsiInVlr \in Subscribers \cup {"0"}
               /\ request.requestType = "stateQuery"
                    /\ parsed.request.subscriberState = "roaming"
                    => parsed.request.vlrAddress \in AddressesRead(tail')
      BY <2>2, <3>2, Parsed
    <3> HIDE DEF parsed
    <3> QED BY <3>1, <3>3 DEF Outcome, Told, Results
  <2> QED BY <1>6, <2>2, <2>3 DEF ResponseHLR, Typing, worldVars
<1>7. CASE Refused
  <2>1. PICK n \in DOMAIN answers : Received(n)
    BY <1>7 DEF Refused
  <2>2. answers' \in Seq(DeviceTexts) /\ heard' \in Seq(DeviceTexts)
    BY <2>1, ReceivedTypes
  <2>3. pc # "idle" /\ CommandFails
    BY <1>7 DEF Refused
  <2> QED BY <1>7, <2>2, <2>3, CommandFailsTypes DEF Refused, Typing, worldVars
<1>8. CASE Timeout
  <2>1. pc # "idle" /\ CommandFails
    BY <1>8 DEF Timeout
  <2> QED BY <1>8, <2>1, CommandFailsTypes DEF Timeout, Typing, worldVars, connectionVars,
      historyVars
<1>9. CASE Respond
  <2>1. request' \in Requests
    BY <1>9 DEF Respond, NoRequest, ClientRequest, Requests, Wrong
  <2>2. /\ seen' \in [Subscribers -> SUBSET Places] /\ arrived' \subseteq Subscribers
        /\ heard' \in Seq(DeviceTexts)
    BY <1>9 DEF Respond
  <2> QED BY <1>9, <2>1, <2>2 DEF Respond, Typing, Told, connectionVars
<1>10. CASE Reset
  <2>1. events' \in 0 .. MaxEvents
    BY <1>10, NamesAssumption DEF Reset, Typing
  <2>2. commands' \in Seq(Commands) /\ answers' \in Seq(DeviceTexts)
    BY <1>10 DEF Reset
  <2>3. CASE UNCHANGED <<pc, request>>
    BY <1>10, <2>1, <2>2, <2>3 DEF Reset, Typing, Told, worldVars, historyVars
  <2>4. CASE CommandFails
    <3>1. pc # "idle"
      BY <1>10 DEF Reset
    <3> QED BY <1>10, <2>1, <2>2, <2>4, <3>1, CommandFailsTypes
             DEF Reset, Typing, worldVars, historyVars
  <2> QED BY <1>10, <2>3, <2>4 DEF Reset
<1>11. CASE DeviceAnswers
  <2>1. /\ Head(commands) \in Commands /\ commands' \in Seq(Commands)
    <3> HIDE DEF Commands
    <3> QED BY <1>11, TailElements DEF DeviceAnswers, Typing
  <2>2. place[Head(commands).subscriber] \in Places
    BY <2>1 DEF Commands, Typing
  <2>3. PICK answer \in AnswersTo(Head(commands), place[Head(commands).subscriber]) :
          answers' = Append(answers, answer)
    BY <1>11 DEF DeviceAnswers
  <2>4. answer \in DeviceTexts
    BY <2>1, <2>2, <2>3, AnswersAreTexts
  <2>5. answers' \in Seq(DeviceTexts)
    <3> HIDE DEF DeviceTexts
    <3> QED BY <2>3, <2>4 DEF Typing
  <2>6. executed' \in BOOLEAN
    BY <1>11 DEF DeviceAnswers, Typing
  <2> QED BY <1>11, <2>1, <2>5, <2>6 DEF DeviceAnswers, Typing, Told, worldVars
<1>12. CASE DeviceRefuses
  <2>1. commands' \in Seq(Commands)
    <3> HIDE DEF Commands
    <3> QED BY <1>12, TailElements DEF DeviceRefuses, Typing
  <2>2. Refusal \in DeviceTexts
    BY WordIsText DEF Refusal
  <2>3. answers' \in Seq(DeviceTexts)
    <3>1. answers' = Append(answers, Refusal)
      BY <1>12 DEF DeviceRefuses, Refusal, IsRefused
    <3> HIDE DEF DeviceTexts
    <3> QED BY <2>2, <3>1 DEF Typing
  <2> QED BY <1>12, <2>1, <2>3 DEF DeviceRefuses, Typing, Told, worldVars, historyVars
<1>13. ASSUME NEW s \in Subscribers, NEW p \in Places, Move(s, p) PROVE TypeInv'
  <2>1. events' \in 0 .. MaxEvents
    BY <1>13, NamesAssumption DEF Move, Typing
  <2>2. place' \in [Subscribers -> Places] /\ seen' \in [Subscribers -> SUBSET Places]
        /\ arrived' \subseteq Subscribers
    BY <1>13 DEF Move, Typing
  <2> QED BY <1>13, <2>1, <2>2 DEF Move, Typing, Told, connectionVars, historyVars
<1>14. CASE UNCHANGED vars
  BY <1>14 DEF vars, Typing, Told, connectionVars, worldVars, historyVars
<1> QED
  BY <1>1, <1>2, <1>3, <1>4, <1>5, <1>6, <1>7, <1>8, <1>9, <1>10, <1>11, <1>12, <1>13, <1>14
     DEF Next, WorkerStep

LEMMA TypeInvariant == Spec => []TypeInv
BY TypeInit, TypeStep, PTL DEF Spec

(* TypeOK: among the rest, a result is set before it is sent, and so is the   *)
(* IMSI or the address that is sent with it, which the constructor leaves     *)
(* unset or 0 (ClientRequest.cpp).  The address is one that the protocol has, *)
(* but for one garbled by what the uninitialised vlr[30] held behind the      *)
(* field (ResponseParser.cpp:230-231).                                        *)
THEOREM TypeCorrect == Spec => []TypeOK
<1>1. TypeInv => TypeOK
  <2> SUFFICES ASSUME TypeInv PROVE TypeOK
    OBVIOUS
  <2>1. pc = "respond" =>
          /\ Packet.result \in {"OPERATION_SUCCESS", "BAD_DEVICE_RESPONSE", "CMD_NOTEXECUTED"}
          /\ Packet.imsi \in Subscribers \cup {"0", Absent}
          /\ Packet.vlrAddress \in AddressesRead(tail) \cup {Absent}
    BY DEF TypeInv, Told, Results, Packet, SendRequestResultToClient, Absent
  <2> QED BY <2>1 DEF TypeInv, Typing, TypeOK, Requests
<1> QED BY <1>1, TypeInvariant, PTL

-----------------------------------------------------------------------------
(* A single text. *)

LEMMA ReceivedOne ==
  ASSUME NEW seqs \in Seq(DeviceTexts), NEW n \in DOMAIN seqs, Len(SubSeq(seqs, 1, n)) = 1
  PROVE  /\ n = 1 /\ SubSeq(seqs, 1, n) = <<seqs[1]>>
         /\ FlattenSeq(SubSeq(seqs, 1, n)) = seqs[1] /\ seqs[1] \in DeviceTexts
<1> HIDE DEF DeviceTexts
<1>1. n = 1
  OBVIOUS
<1>2. SubSeq(seqs, 1, 1) = <<seqs[1]>>
  <2> DEFINE part == SubSeq(seqs, 1, 1)
  <2>1. part \in Seq(DeviceTexts) /\ Len(part) = 1 /\ part[1] = seqs[1]
    BY <1>1
  <2> HIDE DEF part
  <2>2. part = <<seqs[1]>>
    BY <2>1
  <2> QED BY <2>2 DEF part
<1>3. seqs[1] \in DeviceTexts
  BY <1>1
<1> QED BY <1>1, <1>2, <1>3, FlattenOne

LEMMA OfSubscriberStep == TypeInv /\ HLRReportIsOfSubscriber /\ [Next]_vars => HLRReportIsOfSubscriber'
<1> SUFFICES ASSUME TypeInv, HLRReportIsOfSubscriber, [Next]_vars,
                    pc' = "respond", request'.resultCode = "OPERATION_SUCCESS",
                    request'.requestType = "stateQuery",
                    Len(heard') = 1, SubscriberData \in Range(heard'[1])
             PROVE  Imsi(request'.subscriberID) \in Range(heard'[1])
  BY DEF HLRReportIsOfSubscriber, Reports, Packet, SendRequestResultToClient, SubscriberData
<1>1. request \in Requests /\ answers \in Seq(DeviceTexts)
  BY DEF TypeInv, Typing
<1>2. ASSUME NEW n \in DOMAIN answers, Received(n)
      PROVE  /\ FlattenSeq(SubSeq(answers, 1, n)) = heard'[1]
             /\ heard'[1] \in Texts /\ SubscriberDetails \notin Range(heard'[1])
  <2>1. Len(SubSeq(answers, 1, n)) = 1 /\ heard' = SubSeq(answers, 1, n)
    BY <1>2 DEF Received
  <2>2. heard' = <<answers[1]>> /\ FlattenSeq(SubSeq(answers, 1, n)) = answers[1]
        /\ answers[1] \in DeviceTexts
    BY <1>1, <1>2, <2>1, ReceivedOne
  <2>3. heard'[1] = answers[1]
    BY <2>2
  <2> QED BY <2>2, <2>3 DEF DeviceTexts
<1>3. CASE Response
  <2>1. PICK n \in DOMAIN answers :
          LET parsed == ParseAndSetResultCode("VLR", FlattenSeq(SubSeq(answers, 1, n)), tail, request)
          IN
          /\ Received(n)
          /\ \/ request.requestType \in Queries /\ request' = parsed.request
             \/ /\ request.requestType \notin Queries
                /\ request' = [request EXCEPT !.resultCode = "OPERATION_SUCCESS"]
    BY <1>3 DEF Response
  <2> DEFINE parsed == ParseAndSetResultCode("VLR", heard'[1], tail, request)
  <2>2. /\ heard'[1] \in Texts /\ SubscriberDetails \notin Range(heard'[1])
        /\ \/ request.requestType \in Queries /\ request' = parsed.request
           \/ /\ request.requestType \notin Queries
              /\ request' = [request EXCEPT !.resultCode = "OPERATION_SUCCESS"]
    BY <1>2, <2>1
  <2>3. request.requestType \in Queries /\ request' = parsed.request
    BY <1>1, <2>2 DEF Queries, Requests
  <2>4. /\ parsed.request.requestType = request.requestType
        /\ parsed.request.resultCode = "OPERATION_SUCCESS" <=> parsed.res = "success"
        /\ parsed.res = "success" /\ request.requestType = "stateQuery"
             => SubscriberDetails \in Range(heard'[1])
    BY <1>1, <2>2, Parsed DEF Outcome
  <2> QED BY <2>2, <2>3, <2>4
<1>4. CASE ResponseHLR
  <2>1. PICK n \in DOMAIN answers :
          /\ Received(n)
          /\ request' = ParseAndSetResultCode("HLR", FlattenSeq(SubSeq(answers, 1, n)),
                                              tail', request).request
    BY <1>4 DEF ResponseHLR
  <2> DEFINE parsed == ParseAndSetResultCode("HLR", heard'[1], tail', request)
  <2>2. heard'[1] \in Texts /\ request' = parsed.request
    BY <1>2, <2>1
  <2>3. /\ parsed.request.requestType = request.requestType
        /\ parsed.request.subscriberID = request.subscriberID
        /\ parsed.request.resultCode = "OPERATION_SUCCESS" <=> parsed.res = "success"
        /\ parsed.res = "success" /\ request.requestType = "stateQuery"
             => Imsi(request.subscriberID) \in Range(heard'[1])
    BY <1>1, <2>2, Parsed DEF Outcome
  <2> QED BY <2>2, <2>3
<1>5. CASE Refused \/ Timeout \/ Reset
  <2>1. \/ request' = [request EXCEPT !.resultCode = "CMD_NOTEXECUTED"]
        \/ UNCHANGED <<pc, request>> /\ pc \in {"ask", "askHLR"}
    BY <1>5 DEF Refused, Timeout, Reset, CommandFails
  <2> QED BY <1>1, <2>1 DEF Requests
<1>6. CASE UNCHANGED <<pc, request, heard>>
  BY <1>6 DEF HLRReportIsOfSubscriber, Reports, Packet, SendRequestResultToClient, SubscriberData
<1>7. CASE pc' \in {"idle", "ask", "response", "responseHLR"}
  BY <1>7
<1> QED
  BY <1>3, <1>4, <1>5, <1>6, <1>7
     DEF Next, WorkerStep, Accept, Reject, Ask, AskHLR, Respond, DeviceAnswers, DeviceRefuses, Move,
         vars, historyVars

(* HLRReportIsOfSubscriber: even with older answers about, an answer of the   *)
(* HLR that is taken alone is used only if it is about the subscriber asked   *)
(* for (ParseStateQueryHLRResponse searches it for his IMSI).                 *)
THEOREM HLRAnswersFit == Spec => []HLRReportIsOfSubscriber
<1>1. Init => HLRReportIsOfSubscriber
  BY DEF Init, HLRReportIsOfSubscriber, Reports
<1> QED BY <1>1, TypeInvariant, OfSubscriberStep, PTL DEF Spec

-----------------------------------------------------------------------------
(* What the parser reads in an answer that is known. *)

LEMMA VLRWalk ==
  ASSUME NEW s \in Subscribers, NEW m \in {Blank, Msisdn(s)}, NEW st \in VLRStates,
         NEW text \in Seq(Tokens), text = <<SubscriberDetails, VLRColumns, Imsi(s), m, st, End>>
  PROVE  /\ Fields(After(After(text, SubscriberDetails), VLRColumns)) = <<Imsi(s), m, st, End>>
         /\ Fields(<<m, st, End>>) = IF m = Blank THEN <<st, End>> ELSE <<m, st, End>>
         /\ Fields(<<st, End>>) = <<st, End>>
<1> HIDE DEF Tokens
<1> DEFINE columns == <<VLRColumns, Imsi(s), m, st, End>>
           row     == <<Imsi(s), m, st, End>>
           second  == <<m, st, End>>
           third   == <<st, End>>
<1>1. /\ Tail(text) = columns /\ columns \in Seq(Tokens)
      /\ Tail(columns) = row /\ row \in Seq(Tokens)
      /\ Tail(row) = second /\ second \in Seq(Tokens)
      /\ Tail(second) = third /\ third \in Seq(Tokens)
  OBVIOUS
<1>2. /\ text # <<>> /\ text[1] = SubscriberDetails
      /\ columns # <<>> /\ columns[1] = VLRColumns
      /\ row # <<>> /\ row[1] = Imsi(s)
      /\ second # <<>> /\ second[1] = m /\ second[2] = st /\ Len(second) > 1
      /\ third # <<>> /\ third[1] = st
  OBVIOUS
<1>3. Imsi(s) # Blank
  BY DEF Imsi, Blank
<1>4. st # Blank
  <2>1. \A w : Word(w) # Blank
    BY DEF Word, Blank
  <2> QED BY <2>1 DEF VLRStates
<1> HIDE DEF columns, row, second, third
<1>5. After(text, SubscriberDetails) = columns /\ After(columns, VLRColumns) = row
  BY <1>1, <1>2, AfterStep
<1>6. Fields(row) = row /\ Fields(third) = third
  BY <1>1, <1>2, <1>3, <1>4, FieldsStep
<1>7. Fields(second) = IF m = Blank THEN third ELSE second
  BY <1>1, <1>2, <1>4, FieldsStep
<1> QED BY <1>5, <1>6, <1>7 DEF row, second, third

LEMMA VLRReads ==
  ASSUME NEW s \in Subscribers, NEW p, NEW text \in VLRState(s, p), NEW r \in Requests,
         NEW out, out = ParseStateQueryVLRResponse(text, r)
  PROVE  /\ out.res = "success" =>
              /\ p \in AtHome
              /\ p = "IDLE" => /\ out.request.subscriberState = "connected"
                               /\ out.request.subscriberOnline = "offline"
              /\ p = "BUSY" => /\ out.request.subscriberState = "connected"
                               /\ out.request.subscriberOnline = "online"
              /\ p \in {"DET", "IDET"} => out.request.subscriberState = "notConnected"
         /\ out.res = "infoNotComplete" => p \notin AtHome
<1> DEFINE w  == IF p \in AtHome THEN p ELSE "NOTREG"
           st == Word(w)
           third == <<st, End>>
<1>1. PICK m \in {Blank, Msisdn(s)} :
        text = <<SubscriberDetails, VLRColumns, Imsi(s), m, st, End>>
  BY DEF VLRState, SubscriberDetails, End
<1>2. st \in VLRStates /\ text \in Seq(Tokens)
  BY VLRStateIsText DEF VLRStates, DeviceTexts, Texts
<1>3. \A v : st = Word(v) <=> w = v
  BY DEF Word
<1>4. ~ AllCharsAreDigits(st) /\ AllCharsAreDigits(Msisdn(s))
  BY DEF AllCharsAreDigits, Word, Msisdn
<1>5. Blank # Msisdn(s)
  BY DEF Blank, Msisdn
<1> HIDE DEF w, st, Tokens
<1> DEFINE first  == Fields(After(After(text, SubscriberDetails), VLRColumns))
           second == Fields(Tail(first))
           state  == IF AllCharsAreDigits(Head(second)) THEN Fields(Tail(second)) ELSE second
<1>6. first = <<Imsi(s), m, st, End>> /\ second = IF m = Blank THEN third ELSE <<m, st, End>>
  <2>1. /\ first = <<Imsi(s), m, st, End>>
        /\ Fields(<<m, st, End>>) = IF m = Blank THEN <<st, End>> ELSE <<m, st, End>>
    BY <1>1, <1>2, VLRWalk
  <2> HIDE DEF first
  <2>2. Tail(first) = <<m, st, End>>
    BY <2>1
  <2> QED BY <2>1, <2>2
<1> HIDE DEF first
<1>7. state = third /\ second # <<>>
  <2> HIDE DEF second
  <2>1. CASE m = Blank
    <3>1. Head(second) = st /\ second # <<>>
      BY <1>6, <2>1
    <3> QED BY <1>4, <1>6, <2>1, <3>1
  <2>2. CASE m = Msisdn(s)
    <3>1. Head(second) = m /\ Tail(second) = third /\ second # <<>>
      BY <1>5, <1>6, <2>2
    <3>2. Fields(third) = third
      BY <1>1, <1>2, VLRWalk
    <3> QED BY <1>4, <2>2, <3>1, <3>2
  <2> QED BY <2>1, <2>2
<1>8. first # <<>> /\ state # <<>> /\ Head(state) = st
  BY <1>6, <1>7
<1> HIDE DEF second, state
<1>9. out = IF w = "NOTREG" THEN [res |-> "infoNotComplete", request |-> r]
            ELSE IF w = "IDLE"
                 THEN Success([r EXCEPT !.subscriberState = "connected",
                                        !.subscriberOnline = "offline"])
            ELSE IF w = "BUSY"
                 THEN Success([r EXCEPT !.subscriberState = "connected",
                                        !.subscriberOnline = "online"])
            ELSE IF w = "DET" \/ w = "IDET"
                 THEN Success([r EXCEPT !.subscriberState = "notConnected",
                                        !.subscriberOnline = "offline"])
            ELSE Failure(r)
  <2> DEFINE Is(v) == Head(state) = Word(v)
  <2>1. out = IF first = <<>> \/ second = <<>> \/ state = <<>> THEN Failure(r)
              ELSE IF Is("NOTREG") THEN [res |-> "infoNotComplete", request |-> r]
              ELSE IF Is("IDLE")
                   THEN Success([r EXCEPT !.subscriberState = "connected",
                                          !.subscriberOnline = "offline"])
              ELSE IF Is("BUSY")
                   THEN Success([r EXCEPT !.subscriberState = "connected",
                                          !.subscriberOnline = "online"])
              ELSE IF Is("DET") \/ Is("IDET")
                   THEN Success([r EXCEPT !.subscriberState = "notConnected",
                                          !.subscriberOnline = "offline"])
              ELSE Failure(r)
    BY DEF ParseStateQueryVLRResponse, first, second, state, SubscriberDetails
  <2>2. \A v : Is(v) <=> w = v
    BY <1>3, <1>8
  <2> HIDE DEF Is
  <2> QED BY <1>7, <1>8, <2>1, <2>2
<1>10. /\ out.res = "success" => w \in AtHome
       /\ out.res = "infoNotComplete" => w = "NOTREG"
  BY <1>9 DEF w, AtHome, Success, Failure
<1>11. /\ out.res = "success" => p \in AtHome /\ w = p
       /\ out.res = "infoNotComplete" => p \notin AtHome
  BY <1>10 DEF w, AtHome
<1>12. ASSUME out.res = "success"
       PROVE  /\ p = "IDLE" => /\ out.request.subscriberState = "connected"
                               /\ out.request.subscriberOnline = "offline"
              /\ p = "BUSY" => /\ out.request.subscriberState = "connected"
                               /\ out.request.subscriberOnline = "online"
              /\ p \in {"DET", "IDET"} => out.request.subscriberState = "notConnected"
  BY <1>9, <1>11, <1>12 DEF Success, Requests
<1> QED BY <1>11, <1>12

LEMMA Reported ==
  ASSUME NEW q, q.resultCode = "OPERATION_SUCCESS"
  PROVE  /\ q.requestType = "stateQuery" /\ q.subscriberState = "connected"
              => SendRequestResultToClient(q) = Connected(q.subscriberOnline)
         /\ q.requestType = "stateQuery" /\ q.subscriberState = "notConnected"
              => SendRequestResultToClient(q) = NotConnected
         /\ q.requestType = "stateQuery" /\ q.subscriberState = "roaming"
              => SendRequestResultToClient(q) = Roaming(q.vlrAddress)
         /\ q.requestType = "imsiQuery"
              => SendRequestResultToClient(q) = Report(Absent, Absent, Absent, q.imsiInVlr)
BY DEF SendRequestResultToClient, Connected, NotConnected, Roaming, Report

LEMMA TruthOfPlace ==
  ASSUME NEW p \in Places
  PROVE  /\ p = "IDLE" => TruthOf(p) = Connected("offline")
         /\ p = "BUSY" => TruthOf(p) = Connected("online")
         /\ p \in {"DET", "IDET"} => TruthOf(p) = NotConnected
         /\ p \in Abroad => TruthOf(p) = Roaming(p)
         /\ p \in Unserved => TruthOf(p) = NotConnected
<1>1. ASSUME p = "IDLE" PROVE TruthOf(p) = Connected("offline")
  <2>1. p # "BUSY" /\ p \notin {"DET", "IDET"} /\ p \notin Abroad
    BY <1>1, NamesAssumption DEF AtHome
  <2> QED BY <1>1, <2>1, Zenon DEF TruthOf
<1>2. ASSUME p = "BUSY" PROVE TruthOf(p) = Connected("online")
  <2>1. p # "IDLE" /\ p \notin {"DET", "IDET"} /\ p \notin Abroad
    BY <1>2, NamesAssumption DEF AtHome
  <2> QED BY <1>2, <2>1, Zenon DEF TruthOf
<1>3. ASSUME p \in {"DET", "IDET"} PROVE TruthOf(p) = NotConnected
  <2>1. p # "IDLE" /\ p # "BUSY" /\ p \notin Abroad
    BY <1>3, NamesAssumption DEF AtHome
  <2> QED BY <1>3, <2>1, Zenon DEF TruthOf
<1>4. ASSUME p \in Abroad PROVE TruthOf(p) = Roaming(p)
  <2>1. p # "IDLE" /\ p # "BUSY" /\ p \notin {"DET", "IDET"}
    BY <1>4, NamesAssumption DEF AtHome
  <2> QED BY <1>4, <2>1, Zenon DEF TruthOf
<1>5. ASSUME p \in Unserved PROVE TruthOf(p) = NotConnected
  <2>1. p # "IDLE" /\ p # "BUSY" /\ p \notin {"DET", "IDET"} /\ p \notin Abroad
    BY <1>5, NamesAssumption DEF Unserved
  <2> QED BY <2>1, Zenon DEF TruthOf
<1> QED BY <1>1, <1>2, <1>3, <1>4, <1>5

LEMMA VLRStateTells ==
  ASSUME NEW s \in Subscribers, NEW p \in Places, NEW text \in VLRState(s, p), NEW tl,
         NEW r \in Requests, r.requestType = "stateQuery",
         NEW out, out = ParseAndSetResultCode("VLR", text, tl, r)
  PROVE  /\ out.res = "success" => SendRequestResultToClient(out.request) = TruthOf(p)
         /\ out.res = "infoNotComplete" => p \notin AtHome
<1>0. PICK parsed : parsed = ParseStateQueryVLRResponse(text, r)
  OBVIOUS
<1>1. out = [parsed EXCEPT !.request.resultCode =
               IF parsed.res = "success" THEN "OPERATION_SUCCESS" ELSE "BAD_DEVICE_RESPONSE"]
  BY <1>0 DEF ParseAndSetResultCode, Parse
<1>2. Outcome(r, parsed)
  BY <1>0, VLRStateIsText, VLRParse DEF DeviceTexts
<1>3. /\ out.res = parsed.res
      /\ parsed.res = "success" =>
           /\ p \in AtHome
           /\ p = "IDLE" => /\ parsed.request.subscriberState = "connected"
                            /\ parsed.request.subscriberOnline = "offline"
           /\ p = "BUSY" => /\ parsed.request.subscriberState = "connected"
                            /\ parsed.request.subscriberOnline = "online"
           /\ p \in {"DET", "IDET"} => parsed.request.subscriberState = "notConnected"
      /\ parsed.res = "infoNotComplete" => p \notin AtHome
  <2>1. out.res = parsed.res
    BY <1>1, <1>2 DEF Outcome
  <2> QED BY <1>0, <2>1, VLRReads
<1>4. ASSUME out.res = "success" PROVE SendRequestResultToClient(out.request) = TruthOf(p)
  <2>1. out.request = [parsed.request EXCEPT !.resultCode = "OPERATION_SUCCESS"]
    BY <1>1, <1>2, <1>3, <1>4 DEF Outcome
  <2>2. out.request.resultCode = "OPERATION_SUCCESS" /\ out.request.requestType = "stateQuery"
    BY <1>2, <2>1 DEF Outcome, Requests
  <2>3. /\ out.request.subscriberState = parsed.request.subscriberState
        /\ out.request.subscriberOnline = parsed.request.subscriberOnline
    BY <1>2, <2>1 DEF Outcome, Requests
  <2> QED BY <1>3, <1>4, <2>2, <2>3, Reported, TruthOfPlace DEF AtHome
<1> QED BY <1>3, <1>4

LEMMA HLRWalk ==
  ASSUME NEW s \in Subscribers, NEW a \in Tokens, a # Blank, NEW b \in {Blank, IsPurged},
         NEW text \in Seq(Tokens),
         text = <<SubscriberData, HLRColumns, Msisdn(s), Imsi(s), IsConnected,
                  LocationData, AddressColumns, a, b, End>>
  PROVE  LET row == After(After(After(text, SubscriberData), HLRColumns), Imsi(s)) IN
         /\ row = <<IsConnected, LocationData, AddressColumns, a, b, End>>
         /\ Location(row) = <<a, b, End>>
<1> HIDE DEF Tokens
<1> DEFINE t1 == <<HLRColumns, Msisdn(s), Imsi(s), IsConnected, LocationData, AddressColumns,
                   a, b, End>>
           t2 == <<Msisdn(s), Imsi(s), IsConnected, LocationData, AddressColumns, a, b, End>>
           t3 == <<Imsi(s), IsConnected, LocationData, AddressColumns, a, b, End>>
           row == <<IsConnected, LocationData, AddressColumns, a, b, End>>
           t5 == <<LocationData, AddressColumns, a, b, End>>
           t6 == <<AddressColumns, a, b, End>>
           location == <<a, b, End>>
<1>1. /\ Tail(text) = t1 /\ t1 \in Seq(Tokens) /\ Tail(t1) = t2 /\ t2 \in Seq(Tokens)
      /\ Tail(t2) = t3 /\ t3 \in Seq(Tokens) /\ Tail(t3) = row /\ row \in Seq(Tokens)
  OBVIOUS
<1>2. /\ Tail(row) = t5 /\ t5 \in Seq(Tokens) /\ Tail(t5) = t6 /\ t6 \in Seq(Tokens)
      /\ Tail(t6) = location /\ location \in Seq(Tokens)
  <2>1. row \in Seq(Tokens)
    BY <1>1
  <2> QED BY <2>1
<1>3. /\ text # <<>> /\ text[1] = SubscriberData /\ t1 # <<>> /\ t1[1] = HLRColumns
      /\ t2 # <<>> /\ t2[1] = Msisdn(s) /\ t3 # <<>> /\ t3[1] = Imsi(s)
  OBVIOUS
<1>4. /\ row # <<>> /\ row[1] = IsConnected /\ t5 # <<>> /\ t5[1] = LocationData
      /\ t6 # <<>> /\ t6[1] = AddressColumns /\ location # <<>> /\ location[1] = a
  OBVIOUS
<1>5. Msisdn(s) # Imsi(s) /\ IsConnected # LocationData
  BY DEF Msisdn, Imsi, IsConnected, LocationData, Word
<1> HIDE DEF t1, t2, t3, row, t5, t6, location
<1>6. After(text, SubscriberData) = t1 /\ After(t1, HLRColumns) = t2
  BY <1>1, <1>3, AfterStep
<1>7. After(t2, Imsi(s)) = row
  <2>1. After(t2, Imsi(s)) = After(t3, Imsi(s))
    BY <1>1, <1>3, <1>5, AfterStep
  <2>2. After(t3, Imsi(s)) = row
    BY <1>1, <1>3, AfterStep
  <2> QED BY <2>1, <2>2
<1>8. After(row, LocationData) = t6 /\ After(t6, AddressColumns) = location
  <2>1. After(row, LocationData) = After(t5, LocationData)
    BY <1>1, <1>2, <1>4, <1>5, AfterStep
  <2>2. After(t5, LocationData) = t6
    BY <1>2, <1>4, AfterStep
  <2>3. After(t6, AddressColumns) = location
    BY <1>2, <1>4, AfterStep
  <2> QED BY <2>1, <2>2, <2>3
<1>9. Fields(location) = location
  BY <1>2, <1>4, FieldsStep
<1>10. Location(row) = location
  BY <1>8, <1>9 DEF Location, LocationData
<1> QED BY <1>6, <1>7, <1>10 DEF row, location

LEMMA HLRShortWalk ==
  ASSUME NEW s \in Subscribers, NEW text \in Seq(Tokens),
         text = <<SubscriberData, HLRColumns, Msisdn(s), Imsi(s), IsNotConnected, End>>
  PROVE  After(After(After(text, SubscriberData), HLRColumns), Imsi(s)) = <<IsNotConnected, End>>
<1> HIDE DEF Tokens
<1> DEFINE t1 == <<HLRColumns, Msisdn(s), Imsi(s), IsNotConnected, End>>
           t2 == <<Msisdn(s), Imsi(s), IsNotConnected, End>>
           t3 == <<Imsi(s), IsNotConnected, End>>
           row == <<IsNotConnected, End>>
<1>1. /\ Tail(text) = t1 /\ t1 \in Seq(Tokens) /\ Tail(t1) = t2 /\ t2 \in Seq(Tokens)
      /\ Tail(t2) = t3 /\ t3 \in Seq(Tokens) /\ Tail(t3) = row
  OBVIOUS
<1>2. /\ text # <<>> /\ text[1] = SubscriberData /\ t1 # <<>> /\ t1[1] = HLRColumns
      /\ t2 # <<>> /\ t2[1] = Msisdn(s) /\ t3 # <<>> /\ t3[1] = Imsi(s)
  OBVIOUS
<1>3. Msisdn(s) # Imsi(s)
  BY DEF Msisdn, Imsi
<1> HIDE DEF t1, t2, t3, row
<1>4. After(text, SubscriberData) = t1 /\ After(t1, HLRColumns) = t2
  BY <1>1, <1>2, AfterStep
<1>5. After(t2, Imsi(s)) = After(t3, Imsi(s))
  BY <1>1, <1>2, <1>3, AfterStep
<1>6. After(t3, Imsi(s)) = row
  BY <1>1, <1>2, AfterStep
<1> QED BY <1>4, <1>5, <1>6 DEF row

LEMMA HLRReads ==
  ASSUME NEW r \in Requests, r.subscriberID \in Subscribers, NEW p \in Places,
         NEW text, text = HLRData(r.subscriberID, p), NEW tl \in CleanTails,
         NEW out, out = ParseStateQueryHLRResponse(text, tl, r), out.res = "success"
  PROVE  /\ p \in AtHome => /\ out.request.subscriberState = "roaming"
                            /\ out.request.vlrAddress = Home
         /\ p \in Abroad => /\ out.request.subscriberState = "roaming"
                            /\ out.request.vlrAddress = p
         /\ p \in Unserved => out.request.subscriberState = "notConnected"
<1> DEFINE s   == r.subscriberID
           row == After(After(After(text, SubscriberData), HLRColumns), Imsi(s))
           location == Location(row)
<1>1. text \in Seq(Tokens)
  BY HLRDataIsText DEF DeviceTexts, Texts
<1>2. out = IF IsNotConnected \in Range(row)
            THEN Success([r EXCEPT !.subscriberState = "notConnected"])
            ELSE IF IsConnected \notin Range(row) \/ location = <<>> THEN Failure(r)
            ELSE IF IsPurged \in Range(location)
                 THEN Success([r EXCEPT !.subscriberState = "notConnected"])
            ELSE ParseVlrAddr(Head(location), tl, r)
  BY DEF ParseStateQueryHLRResponse, SubscriberData, IsNotConnected, IsConnected, IsPurged
<1>3. out = Success([r EXCEPT !.subscriberState = "notConnected"])
        => out.request.subscriberState = "notConnected"
  BY DEF Success, Requests
<1> HIDE DEF row, location
<1>4. CASE /\ p = "NOT CONNECTED"
           /\ text = <<SubscriberData, HLRColumns, Msisdn(s), Imsi(s), IsNotConnected, End>>
  <2>1. row = <<IsNotConnected, End>>
    BY <1>1, <1>4, HLRShortWalk DEF row
  <2>2. row[1] = IsNotConnected /\ 1 \in DOMAIN row
    BY <2>1
  <2>3. IsNotConnected \in Range(row)
    BY <2>2 DEF Range
  <2>4. p \notin AtHome /\ p \notin Abroad
    BY <1>4, NamesAssumption DEF AtHome, Unserved
  <2> QED BY <1>2, <1>3, <2>3, <2>4
<1>5. CASE p # "NOT CONNECTED" /\ \E a \in {Address(x) : x \in Abroad \cup {Home}} \cup NoAddress,
              b \in {Blank, IsPurged} :
             /\ AddressLine(p) = <<a, b>>
             /\ text = <<SubscriberData, HLRColumns, Msisdn(s), Imsi(s), IsConnected,
                         LocationData, AddressColumns, a, b, End>>
  <2>1. PICK a \in {Address(x) : x \in Abroad \cup {Home}} \cup NoAddress, b \in {Blank, IsPurged} :
             /\ AddressLine(p) = <<a, b>>
             /\ text = <<SubscriberData, HLRColumns, Msisdn(s), Imsi(s), IsConnected,
                         LocationData, AddressColumns, a, b, End>>
    BY <1>5
  <2>2. /\ \A w, x : Word(w) # Address(x) /\ Word(w) # Blank /\ Address(x) # Blank
        /\ \A v, w : Word(v) = Word(w) => v = w
        /\ \A x, y : Address(x) = Address(y) => x = y
    BY DEF Word, Address, Blank
  <2>3. /\ a \in Tokens /\ a # Blank /\ a # IsNotConnected /\ a # IsConnected /\ a # IsPurged
        /\ b # IsNotConnected
    BY <2>1, <2>2, TokensPrinted DEF NoAddress, IsNotConnected, IsConnected, IsPurged
  <2>4. /\ row = <<IsConnected, LocationData, AddressColumns, a, b, End>>
        /\ location = <<a, b, End>>
    BY <1>1, <2>1, <2>3, HLRWalk DEF row, location
  <2>5. Range(row) = {IsConnected, LocationData, AddressColumns, a, b, End}
    BY <2>4, SixElements
  <2>6. /\ location # <<>> /\ Head(location) = a
        /\ Range(location) = {a, b, End}
    BY <2>4, ThreeElements
  <2>7. /\ IsNotConnected \notin {IsConnected, LocationData, AddressColumns, End}
        /\ IsPurged # End
    BY <2>2 DEF IsNotConnected, IsConnected, LocationData, AddressColumns, End, IsPurged
  <2>8. out = IF b = IsPurged THEN Success([r EXCEPT !.subscriberState = "notConnected"])
              ELSE ParseVlrAddr(a, tl, r)
    BY <1>2, <2>3, <2>5, <2>6, <2>7
  <2>9. ASSUME NEW x \in Abroad \cup {Home}, a = Address(x), b = Blank
        PROVE  out.request.subscriberState = "roaming" /\ out.request.vlrAddress = x
    <3>1. out = ParseVlrAddr(a, tl, r)
      BY <2>2, <2>8, <2>9 DEF IsPurged
    <3>2. a \notin {Word(w) : w \in {"UNKNOWN", "RESTRICTED", "BARRED"}}
      BY <2>2, <2>9
    <3>3. a[1] = "address" /\ a[2] = x
      BY <2>9 DEF Address
    <3>4. out = Success([r EXCEPT !.subscriberState = "roaming", !.vlrAddress = x])
      BY <3>1, <3>2, <3>3 DEF ParseVlrAddr, CleanTails
    <3>5. out.request = [r EXCEPT !.subscriberState = "roaming", !.vlrAddress = x]
      BY <3>4 DEF Success
    <3>6. r = [requestType |-> r.requestType, subscriberID |-> r.subscriberID,
               subscriberState |-> r.subscriberState, subscriberOnline |-> r.subscriberOnline,
               vlrAddress |-> r.vlrAddress, imsiInVlr |-> r.imsiInVlr,
               resultCode |-> r.resultCode]
      BY DEF Requests
    <3> QED BY <3>5, <3>6
  <2>10. ASSUME NEW w \in {"UNKNOWN", "RESTRICTED", "BARRED"}, a = Word(w), b = Blank
         PROVE  out.request.subscriberState = "notConnected"
    <3>1. out = ParseVlrAddr(a, tl, r)
      BY <2>2, <2>8, <2>10 DEF IsPurged
    <3>2. a[1] # "address" /\ tl # "dash" /\ out # Failure(r)
      BY <2>10 DEF Word, Failure, CleanTails
    <3>3. out = Success([r EXCEPT !.subscriberState = "notConnected"])
      BY <3>1, <3>2 DEF ParseVlrAddr
    <3> QED BY <1>3, <3>3
  <2>11. b = IsPurged => out.request.subscriberState = "notConnected"
    BY <1>3, <2>8
  <2>12. ASSUME p \in AtHome PROVE a = Address(Home) /\ b = Blank
    BY <2>1, <2>12, AddressLineOf
  <2>13. ASSUME p \in Abroad PROVE a = Address(p) /\ b = Blank
    BY <2>1, <2>13, AddressLineOf
  <2>14. ASSUME p = "PURGED" PROVE b = IsPurged
    BY <2>1, <2>14, AddressLineOf
  <2>15. ASSUME p \in {"UNKNOWN", "RESTRICTED", "BARRED"} PROVE a = Word(p) /\ b = Blank
    BY <2>1, <2>15, AddressLineOf
  <2>16. p \in Unserved => p = "PURGED" \/ p \in {"UNKNOWN", "RESTRICTED", "BARRED"}
    BY <1>5 DEF Unserved
  <2> QED BY <2>9, <2>10, <2>11, <2>12, <2>13, <2>14, <2>15, <2>16
<1> QED BY <1>4, <1>5, HLRDataForms

LEMMA HLRDataTells ==
  ASSUME NEW r \in Requests, r.subscriberID \in Subscribers, r.requestType = "stateQuery",
         NEW p \in Places, NEW text, text = HLRData(r.subscriberID, p), NEW tl \in CleanTails,
         NEW out, out = ParseAndSetResultCode("HLR", text, tl, r), out.res = "success"
  PROVE  SendRequestResultToClient(out.request) =
           IF p \in AtHome THEN Roaming(Home) ELSE TruthOf(p)
<1>1. PICK parsed : parsed = ParseStateQueryHLRResponse(text, tl, r)
  OBVIOUS
<1>2. out = [parsed EXCEPT !.request.resultCode =
               IF parsed.res = "success" THEN "OPERATION_SUCCESS" ELSE "BAD_DEVICE_RESPONSE"]
  BY <1>1 DEF ParseAndSetResultCode, Parse
<1>3. Outcome(r, parsed)
  BY <1>1, HLRDataIsText, HLRParse DEF DeviceTexts
<1>4. /\ parsed.res = "success"
      /\ out.request = [parsed.request EXCEPT !.resultCode = "OPERATION_SUCCESS"]
  BY <1>2, <1>3 DEF Outcome
<1>5. out.request.resultCode = "OPERATION_SUCCESS" /\ out.request.requestType = "stateQuery"
  BY <1>3, <1>4 DEF Outcome, Requests
<1>6. /\ p \in AtHome => /\ parsed.request.subscriberState = "roaming"
                         /\ parsed.request.vlrAddress = Home
      /\ p \in Abroad => /\ parsed.request.subscriberState = "roaming"
                         /\ parsed.request.vlrAddress = p
      /\ p \in Unserved => parsed.request.subscriberState = "notConnected"
  BY <1>1, <1>4, HLRReads
<1>7. /\ out.request.subscriberState = parsed.request.subscriberState
      /\ out.request.vlrAddress = parsed.request.vlrAddress
  BY <1>3, <1>4 DEF Outcome, Requests
<1>8. CASE p \in AtHome
  <2>1. SendRequestResultToClient(out.request) = Roaming(Home)
    BY <1>5, <1>6, <1>7, <1>8, Reported
  <2> QED BY <1>8, <2>1
<1>9. CASE p \in Abroad
  <2>1. p \notin AtHome
    BY <1>9, NamesAssumption
  <2> QED BY <1>5, <1>6, <1>7, <1>9, <2>1, Reported, TruthOfPlace
<1>10. CASE p \in Unserved
  <2>1. p \notin AtHome
    BY <1>10 DEF AtHome, Unserved
  <2> QED BY <1>5, <1>6, <1>7, <1>10, <2>1, Reported, TruthOfPlace
<1> QED BY <1>8, <1>9, <1>10, NamesAssumption

LEMMA TranslationTells ==
  ASSUME NEW r \in Requests, r.subscriberID \in Subscribers, r.requestType = "imsiQuery",
         NEW p, NEW text, text = Translation(r.subscriberID, p), NEW tl,
         NEW out, out = ParseAndSetResultCode("VLR", text, tl, r), out.res = "success"
  PROVE  SendRequestResultToClient(out.request) = ImsiTruth(r.subscriberID, p)
<1> DEFINE s    == r.subscriberID
           imsi == IF p \in AtHome THEN Imsi(s) ELSE Blank
           row  == <<Msisdn(s), imsi, End>>
<1>1. text = <<TranslationData, ImsiColumns, Msisdn(s), imsi, End>>
  BY DEF Translation, TranslationData, End
<1>2. (IF imsi = Blank THEN "0" ELSE imsi[2]) = IF p \in AtHome THEN s ELSE "0"
  BY DEF Imsi, Blank
<1>3. imsi \in Tokens
  BY TokensPrinted
<1> HIDE DEF imsi
<1>4. After(After(text, TranslationData), ImsiColumns) = row
  <2> DEFINE table == <<ImsiColumns, Msisdn(s), imsi, End>>
  <2>1. text \in Seq(Tokens) /\ text # <<>> /\ text[1] = TranslationData
    <3>1. text \in Seq(Tokens)
      BY TranslationIsText DEF DeviceTexts, Texts
    <3> QED BY <1>1, <3>1
  <2>2. /\ Tail(text) = table /\ Tail(table) = row /\ table # <<>> /\ table[1] = ImsiColumns
    BY <1>1
  <2>3. table \in Seq(Tokens)
    BY <1>3, TokensPrinted
  <2> HIDE DEF table, row, Tokens
  <2>4. After(text, TranslationData) = Tail(text)
    BY <2>1, AfterStep
  <2>5. After(table, ImsiColumns) = Tail(table)
    BY <2>2, <2>3, AfterStep
  <2> QED BY <2>2, <2>4, <2>5
<1>5. Len(row) = 3 /\ row[2] = imsi
  OBVIOUS
<1> HIDE DEF row
<1>6. PICK parsed : parsed = ParseImsiQueryVLRResponse(text, r)
  OBVIOUS
<1>7. out = [parsed EXCEPT !.request.resultCode =
               IF parsed.res = "success" THEN "OPERATION_SUCCESS" ELSE "BAD_DEVICE_RESPONSE"]
  BY <1>6 DEF ParseAndSetResultCode, Parse
<1>8. parsed = Success([r EXCEPT !.imsiInVlr = IF imsi = Blank THEN "0" ELSE imsi[2]])
  <2>1. parsed = IF Len(row) < 2 THEN Failure(r)
                 ELSE Success([r EXCEPT !.imsiInVlr = IF row[2] = Blank THEN "0" ELSE row[2][2]])
    BY <1>4, <1>6, Zenon DEF ParseImsiQueryVLRResponse, TranslationData
  <2> QED BY <1>5, <2>1
<1>9. parsed = Success([r EXCEPT !.imsiInVlr = IF p \in AtHome THEN s ELSE "0"])
  BY <1>2, <1>8
<1>10. /\ out.request.resultCode = "OPERATION_SUCCESS" /\ out.request.requestType = "imsiQuery"
       /\ out.request.imsiInVlr = IF p \in AtHome THEN s ELSE "0"
  <2>1. /\ out.request = [parsed.request EXCEPT !.resultCode = "OPERATION_SUCCESS"]
        /\ parsed.request = [r EXCEPT !.imsiInVlr = IF p \in AtHome THEN s ELSE "0"]
    BY <1>7, <1>9 DEF Success
  <2>2. r = [requestType |-> r.requestType, subscriberID |-> r.subscriberID,
             subscriberState |-> r.subscriberState, subscriberOnline |-> r.subscriberOnline,
             vlrAddress |-> r.vlrAddress, imsiInVlr |-> r.imsiInVlr,
             resultCode |-> r.resultCode]
    BY DEF Requests
  <2> QED BY <2>1, <2>2
<1> QED BY <1>10, Reported DEF ImsiTruth

-----------------------------------------------------------------------------
(* The second invariant, step by step. *)

(* What a request that had nothing older to fear is answered with.            *)
LEMMA OwnReceived ==
  ASSUME TypeInv, OwnAnswer, ~stale, pc \in {"response", "responseHLR"},
         NEW n \in DOMAIN answers, NEW text, text = FlattenSeq(SubSeq(answers, 1, n)), Answered(text)
  PROVE  /\ executed
         /\ \E p \in seen[request.subscriberID] :
              p \in Places /\ Moved(request.subscriberID, p) /\ text \in AnswersTo(OwnCommand, p)
<1>1. answers \in Seq(DeviceTexts)
  BY DEF TypeInv, Typing
<1>2. answers # <<>> /\ Len(answers) \in Nat
  <2> HIDE DEF DeviceTexts
  <2> QED BY <1>1
<1>3. \/ answers = <<Refusal>>
      \/ executed /\ \E p \in seen[request.subscriberID] :
                       /\ Moved(request.subscriberID, p)
                       /\ \E a \in AnswersTo(OwnCommand, p) : answers = <<a>>
  BY <1>2 DEF OwnAnswer
<1>4. ASSUME NEW a, answers = <<a>> PROVE text = a
  <2>1. Len(SubSeq(answers, 1, n)) = 1
    <3>1. n = 1 /\ Len(answers) = 1
      BY <1>4
    <3> HIDE DEF DeviceTexts
    <3> QED BY <1>1, <3>1
  <2>2. text = answers[1]
    BY <1>1, <2>1, ReceivedOne
  <2> QED BY <1>4, <2>2
<1>5. answers # <<Refusal>>
  <2>1. Range(Refusal) = {IsRefused}
    BY OneElement DEF Refusal
  <2>2. IsRefused # Word("END") /\ IsRefused # Word("EXECUTED")
    BY DEF IsRefused, Word
  <2>3. ~ Answered(Refusal)
    BY <2>1, <2>2 DEF Answered
  <2> QED BY <1>4, <2>3
<1>6. request.subscriberID \in Subscribers /\ seen \in [Subscribers -> SUBSET Places]
  BY DEF TypeInv, Typing
<1> QED BY <1>3, <1>4, <1>5, <1>6

LEMMA OwnAnswersAre ==
  ASSUME TypeInv, pc \in {"response", "responseHLR"}, NEW p
  PROVE  /\ OwnCommand \in Commands /\ OwnCommand.subscriber = request.subscriberID
         /\ OwnCommand.number = number
         /\ pc = "response" /\ request.requestType = "stateQuery"
              => AnswersTo(OwnCommand, p) = VLRState(request.subscriberID, p)
         /\ pc = "response" /\ request.requestType = "imsiQuery"
              => AnswersTo(OwnCommand, p) = {Translation(request.subscriberID, p)}
         /\ pc = "responseHLR" => AnswersTo(OwnCommand, p) = {HLRData(request.subscriberID, p)}
<1>1. Typing /\ request.requestType \in RequestTypes /\ request.subscriberID \in Subscribers
  BY DEF TypeInv, Typing
<1>2. /\ OwnCommand \in Commands /\ OwnCommand.subscriber = request.subscriberID
      /\ OwnCommand.number = number
      /\ pc = "response" /\ request.requestType = "stateQuery" => OwnCommand.verb = "MGSSP"
      /\ pc = "response" /\ request.requestType = "imsiQuery" => OwnCommand.verb = "MGTRP"
      /\ pc = "responseHLR" => OwnCommand.verb = "HGSDP"
  BY <1>1, CommandTyped DEF OwnCommand, Commands
<1>3. ASSUME NEW c PROVE
        /\ c.verb = "MGSSP" => AnswersTo(c, p) = VLRState(c.subscriber, p)
        /\ c.verb = "HGSDP" => AnswersTo(c, p) = {HLRData(c.subscriber, p)}
        /\ c.verb = "MGTRP" => AnswersTo(c, p) = {Translation(c.subscriber, p)}
  <2>1. ASSUME c.verb = "MGSSP" PROVE AnswersTo(c, p) = VLRState(c.subscriber, p)
    <3>1. c.verb # "HGSDP" /\ c.verb # "MGTRP"
      BY <2>1
    <3> QED BY <2>1, <3>1, Zenon DEF AnswersTo
  <2>2. ASSUME c.verb = "HGSDP" PROVE AnswersTo(c, p) = {HLRData(c.subscriber, p)}
    <3>1. c.verb # "MGSSP" /\ c.verb # "MGTRP"
      BY <2>2
    <3> QED BY <2>2, <3>1, Zenon DEF AnswersTo
  <2>3. ASSUME c.verb = "MGTRP" PROVE AnswersTo(c, p) = {Translation(c.subscriber, p)}
    <3>1. c.verb # "MGSSP" /\ c.verb # "HGSDP"
      BY <2>3
    <3> QED BY <2>3, <3>1, Zenon DEF AnswersTo
  <2> QED BY <2>1, <2>2, <2>3
<1> QED BY <1>2, <1>3

LEMMA SeenStep == TypeInv /\ SeenPlaces /\ [Next]_vars => SeenPlaces'
<1> SUFFICES ASSUME TypeInv, SeenPlaces, [Next]_vars PROVE SeenPlaces'
  OBVIOUS
<1>1. ASSUME NEW packet \in Packets, Accept(packet) PROVE SeenPlaces'
  BY <1>1 DEF Accept, SeenPlaces
<1>2. ASSUME NEW s \in Subscribers, NEW p \in Places, Move(s, p) PROVE SeenPlaces'
  BY <1>2 DEF Move, SeenPlaces, TypeInv, Typing
<1>3. CASE pc # "idle" /\ UNCHANGED worldVars
  BY <1>3 DEF SeenPlaces, worldVars
<1>4. CASE UNCHANGED <<pc, place, seen>>
  BY <1>4 DEF SeenPlaces
<1>5. CASE pc' = "idle"
  BY <1>5 DEF SeenPlaces
<1> QED
  BY <1>1, <1>2, <1>3, <1>4, <1>5
     DEF Next, WorkerStep, Reject, Ask, AskHLR, SendCommand, Response, ResponseHLR, Refused,
         Timeout, Respond, Reset, DeviceAnswers, DeviceRefuses, vars, worldVars

LEMMA AskedAlone ==
  ASSUME TypeInv, NEW command, SendCommand(command), ~stale'
  PROVE  commands' = <<command>> /\ answers' = <<>> /\ request' = request /\ number' = number
<1>1. commands = <<>> /\ answers' = <<>>
  BY DEF SendCommand
<1> QED BY <1>1 DEF SendCommand

(* Whoever has been away, wherever he moves.                                  *)
LEMMA WasAwayStays ==
  ASSUME TypeInv, pc # "idle", NEW t \in Subscribers, WasAway(t),
         \/ UNCHANGED <<place, arrived>>
         \/ \E s \in Subscribers, p \in Places : Move(s, p)
  PROVE  WasAway(t)'
<1>1. CASE UNCHANGED <<place, arrived>>
  BY <1>1 DEF WasAway
<1>2. ASSUME NEW s \in Subscribers, NEW p \in Places, Move(s, p) PROVE WasAway(t)'
  <2>1. place' = [place EXCEPT ![s] = p] /\ place \in [Subscribers -> Places]
    BY <1>2 DEF Move, TypeInv, Typing
  <2>2. arrived' = IF place[s] \notin AtHome /\ p \in AtHome THEN arrived \cup {s} ELSE arrived
    BY <1>2 DEF Move
  <2>3. CASE t = s
    BY <2>1, <2>2, <2>3 DEF WasAway
  <2>4. CASE t # s
    BY <2>1, <2>2, <2>4 DEF WasAway
  <2> QED BY <2>3, <2>4
<1> QED BY <1>1, <1>2

LEMMA OwnAnswerStep ==
  TypeInv /\ SeenPlaces /\ OwnAnswer /\ AskedWhenAway /\ [Next]_vars => OwnAnswer'
<1> SUFFICES ASSUME TypeInv, SeenPlaces, OwnAnswer, AskedWhenAway, [Next]_vars,
                    ~stale', pc' \in {"response", "responseHLR"}
             PROVE  \/ commands' = <<OwnCommand'>> /\ answers' = <<>>
                    \/ /\ commands' = <<>>
                       /\ \/ answers' = <<Refusal>>
                          \/ executed' /\ \E p \in seen'[request'.subscriberID] :
                               /\ Moved(request.subscriberID, p)'
                               /\ \E a \in AnswersTo(OwnCommand', p) : answers' = <<a>>
  BY DEF OwnAnswer
<1>1. CASE Ask
  <2>1. commands' = <<CommandFor(request)>> /\ answers' = <<>>
        /\ request' = request /\ number' = number
    BY <1>1, AskedAlone DEF Ask
  <2>2. OwnCommand' = CommandFor(request)
    BY <1>1, <2>1 DEF Ask, OwnCommand, CommandFor
  <2> QED BY <2>1, <2>2
<1>2. CASE AskHLR
  <2>1. commands' = <<[CommandFor(request) EXCEPT !.verb = "HGSDP"]>> /\ answers' = <<>>
        /\ request' = request /\ number' = number
    BY <1>2, AskedAlone DEF AskHLR
  <2>2. OwnCommand' = [CommandFor(request) EXCEPT !.verb = "HGSDP"]
    BY <1>2, <2>1 DEF AskHLR, OwnCommand, CommandFor
  <2> QED BY <2>1, <2>2
<1>3. ASSUME UNCHANGED <<pc, request, number>> PROVE OwnCommand' = OwnCommand
  BY <1>3 DEF OwnCommand, CommandFor
<1>4. CASE DeviceAnswers
  <2>1. /\ UNCHANGED <<pc, request, number, stale, place, seen, arrived>>
        /\ OwnCommand' = OwnCommand
        /\ commands # <<>> /\ pc \in {"response", "responseHLR"}
    BY <1>3, <1>4 DEF DeviceAnswers, worldVars
  <2>2. commands = <<OwnCommand>> /\ answers = <<>>
    BY <2>1 DEF OwnAnswer
  <2>3. Head(commands) = OwnCommand /\ commands' = <<>>
    BY <1>4, <2>2 DEF DeviceAnswers
  <2>4. OwnCommand.subscriber = request.subscriberID /\ OwnCommand.number = number
    BY <2>1, OwnAnswersAre
  <2>5. executed'
    BY <1>4, <2>1, <2>3, <2>4 DEF DeviceAnswers
  <2>6. PICK a \in AnswersTo(OwnCommand, place[request.subscriberID]) : answers' = Append(answers, a)
    BY <1>4, <2>3, <2>4 DEF DeviceAnswers
  <2>7. answers' = <<a>>
    BY <2>2, <2>6
  <2>8. place[request.subscriberID] \in seen[request.subscriberID]
    BY <2>1 DEF SeenPlaces, TypeInv, Typing
  <2>9. Moved(request.subscriberID, place[request.subscriberID])'
    BY <2>1 DEF Moved, WasAway, AskedWhenAway
  <2> QED BY <2>1, <2>3, <2>5, <2>6, <2>7, <2>8, <2>9
<1>5. CASE DeviceRefuses
  <2>1. /\ UNCHANGED <<pc, request, number, stale>>
        /\ commands # <<>> /\ pc \in {"response", "responseHLR"}
    BY <1>5 DEF DeviceRefuses, historyVars
  <2>2. commands = <<OwnCommand>> /\ answers = <<>>
    BY <2>1 DEF OwnAnswer
  <2>3. commands' = Tail(commands) /\ answers' = Append(answers, Refusal)
    BY <1>5 DEF DeviceRefuses, Refusal, IsRefused
  <2>4. commands' = <<>> /\ answers' = <<Refusal>>
    BY <2>2, <2>3
  <2> QED BY <2>4
<1>6. ASSUME NEW s \in Subscribers, NEW p \in Places, Move(s, p)
      PROVE  \/ commands' = <<OwnCommand'>> /\ answers' = <<>>
             \/ /\ commands' = <<>>
                /\ \/ answers' = <<Refusal>>
                   \/ executed' /\ \E q \in seen'[request'.subscriberID] :
                        /\ Moved(request.subscriberID, q)'
                        /\ \E a \in AnswersTo(OwnCommand', q) : answers' = <<a>>
  <2>1. UNCHANGED <<pc, request, number, stale, executed, commands, answers>>
        /\ OwnCommand' = OwnCommand
    BY <1>3, <1>6 DEF Move, connectionVars, historyVars
  <2>2. seen[request.subscriberID] \subseteq seen'[request.subscriberID]
    BY <1>6 DEF Move, TypeInv, Typing
  <2>3. ASSUME NEW q, Moved(request.subscriberID, q) PROVE Moved(request.subscriberID, q)'
    <3>1. request.subscriberID \in Subscribers /\ pc # "idle"
      BY <2>1 DEF TypeInv, Typing
    <3>2. WasAway(request.subscriberID) => WasAway(request.subscriberID)'
      BY <1>6, <2>1, <3>1, WasAwayStays DEF WasAway
    <3>3. arrived \subseteq arrived'
      BY <1>6 DEF Move
    <3> QED BY <2>1, <2>3, <3>2, <3>3 DEF Moved
  <2> QED BY <2>1, <2>2, <2>3 DEF OwnAnswer
<1>7. CASE UNCHANGED vars
  <2>1. UNCHANGED <<pc, request, number, stale, executed, commands, answers>>
        /\ UNCHANGED <<place, seen, arrived>> /\ OwnCommand' = OwnCommand
    BY <1>3, <1>7 DEF vars, connectionVars, historyVars, worldVars
  <2> QED BY <2>1 DEF OwnAnswer, Moved, WasAway
<1>8. CASE pc' \notin {"response", "responseHLR"}
  BY <1>8
<1> QED
  BY <1>1, <1>2, <1>4, <1>5, <1>6, <1>7, <1>8
     DEF Next, WorkerStep, Accept, Reject, Response, ResponseHLR, Refused, Timeout, Respond,
         Reset, CommandFails

LEMMA AskedWhenAwayStep == TypeInv /\ OwnAnswer /\ AskedWhenAway /\ [Next]_vars => AskedWhenAway'
<1> SUFFICES ASSUME TypeInv, OwnAnswer, AskedWhenAway, [Next]_vars,
                    ~stale', pc' \in {"askHLR", "responseHLR"}
             PROVE  WasAway(request.subscriberID)'
  BY DEF AskedWhenAway
<1>1. CASE Response
  <2>1. PICK n \in DOMAIN answers :
          LET text   == FlattenSeq(SubSeq(answers, 1, n))
              parsed == ParseAndSetResultCode("VLR", text, tail, request) IN
          /\ Answered(text)
          /\ request.requestType = "stateQuery" /\ parsed.res = "infoNotComplete"
          /\ request' = parsed.request
    BY <1>1 DEF Response, Queries
  <2>2. UNCHANGED <<stale, place, arrived>> /\ pc = "response" /\ ~stale
    BY <1>1 DEF Response, worldVars
  <2>3. PICK text : text = FlattenSeq(SubSeq(answers, 1, n))
    OBVIOUS
  <2>4. PICK p \in seen[request.subscriberID] :
          p \in Places /\ Moved(request.subscriberID, p) /\ text \in AnswersTo(OwnCommand, p)
    BY <2>1, <2>2, <2>3, OwnReceived
  <2>5. request \in Requests /\ request.subscriberID \in Subscribers /\ answers \in Seq(DeviceTexts)
    BY <2>2 DEF TypeInv, Typing
  <2>6. PICK parsed : parsed = ParseAndSetResultCode("VLR", text, tail, request)
    OBVIOUS
  <2>7. text \in VLRState(request.subscriberID, p)
    BY <2>1, <2>2, <2>4, OwnAnswersAre
  <2>8. parsed.res = "infoNotComplete" /\ request' = parsed.request
    BY <2>1, <2>3, <2>6
  <2>9. p \notin AtHome
    BY <2>1, <2>4, <2>5, <2>6, <2>7, <2>8, VLRStateTells
  <2>10. request'.subscriberID = request.subscriberID
    <3>1. text \in Texts
      BY <2>3, <2>5, ReceivedIsText
    <3>2. Outcome(request, parsed)
      BY <2>5, <2>6, <3>1, Parsed
    <3> QED BY <2>8, <3>2 DEF Outcome
  <2> QED BY <2>2, <2>4, <2>9, <2>10 DEF Moved, WasAway
<1>2. ASSUME UNCHANGED request, ~stale, pc \in {"askHLR", "responseHLR"},
             \/ UNCHANGED <<place, arrived>>
             \/ \E s \in Subscribers, p \in Places : Move(s, p)
      PROVE  WasAway(request.subscriberID)'
  <2>1. request.subscriberID \in Subscribers /\ pc # "idle" /\ WasAway(request.subscriberID)
    BY <1>2 DEF TypeInv, Typing, AskedWhenAway
  <2>2. \A t \in Subscribers : WasAway(t) => WasAway(t)'
    BY <1>2, <2>1, WasAwayStays
  <2>3. request'.subscriberID = request.subscriberID
    BY <1>2
  <2> QED BY <2>1, <2>2, <2>3 DEF WasAway
<1>3. CASE AskHLR
  <2>1. UNCHANGED <<request, place, arrived>> /\ pc = "askHLR" /\ ~stale
    BY <1>3 DEF AskHLR, SendCommand, worldVars
  <2> QED BY <1>2, <2>1
<1>4. CASE Reset
  <2>1. UNCHANGED <<pc, request, stale, place, arrived>>
    BY <1>4 DEF Reset, CommandFails, historyVars, worldVars
  <2> QED BY <1>2, <2>1
<1>5. CASE DeviceAnswers
  <2>1. UNCHANGED <<pc, request, stale, place, arrived>>
    BY <1>5 DEF DeviceAnswers, worldVars
  <2> QED BY <1>2, <2>1
<1>6. CASE DeviceRefuses
  <2>1. UNCHANGED <<pc, request, stale, place, arrived>>
    BY <1>6 DEF DeviceRefuses, historyVars, worldVars
  <2> QED BY <1>2, <2>1
<1>7. ASSUME NEW s \in Subscribers, NEW p \in Places, Move(s, p)
      PROVE  WasAway(request.subscriberID)'
  <2>1. UNCHANGED <<pc, request, stale>>
    BY <1>7 DEF Move, historyVars
  <2> QED BY <1>2, <1>7, <2>1
<1>8. CASE UNCHANGED vars
  <2>1. UNCHANGED <<pc, request, stale, place, arrived>>
    BY <1>8 DEF vars, historyVars, worldVars
  <2> QED BY <1>2, <2>1
<1>9. CASE pc' \notin {"askHLR", "responseHLR"}
  BY <1>9
<1>10. CASE \E packet \in Packets : Accept(packet) \/ Reject(packet)
  BY <1>10 DEF Accept, Reject
<1> QED
  BY <1>1, <1>3, <1>4, <1>5, <1>6, <1>7, <1>8, <1>9, <1>10
     DEF Next, WorkerStep, Ask, ResponseHLR, Refused, Timeout, Respond, CommandFails

(* What can become true or false of a request that is answered.               *)
LEMMA TruthStep ==
  TypeInv /\ OwnAnswer /\ ReportWasTrue /\ SuccessMeansDone /\ [Next]_vars
    => ReportWasTrue' /\ SuccessMeansDone'
<1> SUFFICES ASSUME TypeInv, OwnAnswer, ReportWasTrue, SuccessMeansDone, [Next]_vars,
                    pc' = "respond", request'.resultCode = "OPERATION_SUCCESS", ~stale'
             PROVE  /\ executed'
                    /\ CleanRead' =>
                         /\ request'.requestType = "stateQuery" =>
                              \/ \E p \in seen'[request'.subscriberID] : Packet' = TruthOf(p)
                              \/ /\ request'.subscriberID \in arrived'
                                 /\ Packet' = Roaming(Home)
                         /\ request'.requestType = "imsiQuery"
                              => \E p \in seen'[request'.subscriberID] :
                                   Packet' = ImsiTruth(request'.subscriberID, p)
  BY DEF ReportWasTrue, SuccessMeansDone, Reports, Packet, SendRequestResultToClient
<1>1. request \in Requests /\ request.subscriberID \in Subscribers \cup {Wrong}
      /\ answers \in Seq(DeviceTexts)
  BY DEF TypeInv, Typing, Requests
<1>2. CASE Response
  <2>1. PICK n \in DOMAIN answers :
          LET text   == FlattenSeq(SubSeq(answers, 1, n))
              parsed == ParseAndSetResultCode("VLR", text, tail, request) IN
          /\ Answered(text)
          /\ \/ request.requestType \in Queries /\ request' = parsed.request
             \/ /\ request.requestType \notin Queries
                /\ request' = [request EXCEPT !.resultCode = "OPERATION_SUCCESS"]
    BY <1>2 DEF Response
  <2>2. /\ UNCHANGED <<stale, executed, seen, arrived>> /\ pc = "response" /\ ~stale
    BY <1>2 DEF Response, worldVars
  <2>3. PICK text : text = FlattenSeq(SubSeq(answers, 1, n))
    OBVIOUS
  <2>4. Answered(text) /\ text \in Texts
    BY <1>1, <2>1, <2>3, ReceivedIsText
  <2>5. /\ executed
        /\ \E p \in seen[request.subscriberID] :
             p \in Places /\ Moved(request.subscriberID, p) /\ text \in AnswersTo(OwnCommand, p)
    BY <2>2, <2>3, <2>4, OwnReceived
  <2>6. PICK p \in seen[request.subscriberID] :
          p \in Places /\ Moved(request.subscriberID, p) /\ text \in AnswersTo(OwnCommand, p)
    BY <2>5
  <2>7. CASE request.requestType \notin Queries
    <3>1. request' = [request EXCEPT !.resultCode = "OPERATION_SUCCESS"]
      BY <2>1, <2>7
    <3>2. request'.requestType \notin Queries
      BY <1>1, <2>7, <3>1 DEF Requests
    <3> QED BY <2>2, <2>5, <3>2 DEF Queries
  <2>8. CASE request.requestType \in Queries
    <3>1. PICK parsed : parsed = ParseAndSetResultCode("VLR", text, tail, request)
      OBVIOUS
    <3>2. request' = parsed.request
      BY <2>1, <2>3, <2>8, <3>1
    <3>3. Outcome(request, parsed) /\ parsed.res = "success"
      BY <1>1, <2>4, <3>1, <3>2, Parsed
    <3>4. request'.requestType = request.requestType
          /\ request'.subscriberID = request.subscriberID
      BY <3>2, <3>3 DEF Outcome
    <3>5. request.subscriberID \in Subscribers
      BY <2>2 DEF TypeInv, Typing
    <3>6. ASSUME request.requestType = "stateQuery" PROVE Packet' = TruthOf(p)
      <4>1. text \in VLRState(request.subscriberID, p)
        BY <2>2, <2>6, <3>6, OwnAnswersAre
      <4>2. SendRequestResultToClient(parsed.request) = TruthOf(p)
        BY <1>1, <2>6, <3>1, <3>3, <3>5, <3>6, <4>1, VLRStateTells
      <4> QED BY <3>2, <4>2 DEF Packet
    <3>7. ASSUME request.requestType = "imsiQuery"
          PROVE  Packet' = ImsiTruth(request.subscriberID, p)
      <4>1. text = Translation(request.subscriberID, p)
        BY <2>2, <2>6, <3>7, OwnAnswersAre
      <4>2. SendRequestResultToClient(parsed.request) = ImsiTruth(request.subscriberID, p)
        BY <1>1, <3>1, <3>3, <3>5, <3>7, <4>1, TranslationTells
      <4> QED BY <3>2, <4>2 DEF Packet
    <3> QED BY <2>2, <2>5, <2>6, <3>4, <3>6, <3>7
  <2> QED BY <2>7, <2>8
<1>3. CASE ResponseHLR
  <2>1. PICK n \in DOMAIN answers :
          LET text == FlattenSeq(SubSeq(answers, 1, n)) IN
          /\ Answered(text)
          /\ request' = ParseAndSetResultCode("HLR", text, tail', request).request
    BY <1>3 DEF ResponseHLR
  <2>2. /\ UNCHANGED <<stale, executed, seen, arrived>> /\ pc = "responseHLR" /\ ~stale /\ tail' \in Tails
    BY <1>3 DEF ResponseHLR, worldVars
  <2>3. PICK text : text = FlattenSeq(SubSeq(answers, 1, n))
    OBVIOUS
  <2>4. Answered(text) /\ text \in Texts
    BY <1>1, <2>1, <2>3, ReceivedIsText
  <2>5. /\ executed
        /\ \E p \in seen[request.subscriberID] :
             p \in Places /\ Moved(request.subscriberID, p) /\ text \in AnswersTo(OwnCommand, p)
    BY <2>2, <2>3, <2>4, OwnReceived
  <2>6. PICK p \in seen[request.subscriberID] :
          p \in Places /\ Moved(request.subscriberID, p) /\ text \in AnswersTo(OwnCommand, p)
    BY <2>5
  <2>7. request.requestType = "stateQuery" /\ request.subscriberID \in Subscribers
    BY <2>2 DEF TypeInv, Typing
  <2>8. PICK parsed : parsed = ParseAndSetResultCode("HLR", text, tail', request)
    OBVIOUS
  <2>9. request' = parsed.request
    BY <2>1, <2>3, <2>8
  <2>10. Outcome(request, parsed) /\ parsed.res = "success"
    BY <1>1, <2>4, <2>8, <2>9, Parsed
  <2>11. request'.requestType = "stateQuery" /\ request'.subscriberID = request.subscriberID
    BY <2>7, <2>9, <2>10 DEF Outcome
  <2>12. ASSUME CleanRead'
         PROVE  \/ Packet' = TruthOf(p)
                \/ request.subscriberID \in arrived /\ Packet' = Roaming(Home)
    <3>1. tail' \in CleanTails
      BY <2>12 DEF CleanRead
    <3>2. text = HLRData(request.subscriberID, p)
      BY <2>2, <2>6, OwnAnswersAre
    <3>3. SendRequestResultToClient(parsed.request) =
            IF p \in AtHome THEN Roaming(Home) ELSE TruthOf(p)
      BY <1>1, <2>6, <2>7, <2>8, <2>10, <3>1, <3>2, HLRDataTells
    <3>4. p \in AtHome => request.subscriberID \in arrived
      BY <2>2, <2>6 DEF Moved
    <3> QED BY <2>9, <3>3, <3>4 DEF Packet
  <2> QED BY <2>2, <2>5, <2>6, <2>11, <2>12
<1>4. CASE Refused \/ Timeout \/ Reset
  <2>1. \/ request' = [request EXCEPT !.resultCode = "CMD_NOTEXECUTED"]
        \/ UNCHANGED <<pc, request>> /\ pc \in {"ask", "askHLR"}
    BY <1>4 DEF Refused, Timeout, Reset, CommandFails
  <2> QED BY <1>1, <2>1 DEF Requests
<1>5. CASE UNCHANGED <<pc, request, tail, stale, seen, arrived>> /\ (executed => executed')
  <2>1. Packet' = Packet /\ CleanRead' = CleanRead
    BY <1>5 DEF Packet, SendRequestResultToClient, CleanRead
  <2>2. pc = "respond" /\ ~stale /\ request'.resultCode = request.resultCode
    BY <1>5
  <2>3. Packet.result = "OPERATION_SUCCESS"
    BY <1>5 DEF Packet, SendRequestResultToClient
  <2>4. /\ executed
        /\ CleanRead =>
             /\ request.requestType = "stateQuery" =>
                  \/ \E p \in seen[request.subscriberID] : Packet = TruthOf(p)
                  \/ request.subscriberID \in arrived /\ Packet = Roaming(Home)
             /\ request.requestType = "imsiQuery"
                  => \E p \in seen[request.subscriberID] :
                       Packet = ImsiTruth(request.subscriberID, p)
    BY <2>2, <2>3 DEF ReportWasTrue, SuccessMeansDone, Reports
  <2>5. /\ request'.requestType = request.requestType
        /\ request'.subscriberID = request.subscriberID
        /\ seen' = seen /\ arrived' = arrived /\ executed'
    BY <1>5, <2>4
  <2> QED BY <2>1, <2>4, <2>5
<1>6. ASSUME NEW s \in Subscribers, NEW p \in Places, Move(s, p)
      PROVE  /\ executed'
             /\ CleanRead' =>
                  /\ request'.requestType = "stateQuery" =>
                       \/ \E q \in seen'[request'.subscriberID] : Packet' = TruthOf(q)
                       \/ request'.subscriberID \in arrived' /\ Packet' = Roaming(Home)
                  /\ request'.requestType = "imsiQuery"
                       => \E q \in seen'[request'.subscriberID] :
                            Packet' = ImsiTruth(request'.subscriberID, q)
  <2>1. UNCHANGED <<pc, request, tail, stale, executed>>
    BY <1>6 DEF Move, historyVars
  <2>2. request.subscriberID \in Subscribers
    BY <2>1 DEF TypeInv, Typing
  <2>3. seen[request.subscriberID] \subseteq seen'[request.subscriberID] /\ arrived \subseteq arrived'
    BY <1>6, <2>2 DEF Move, TypeInv, Typing
  <2>4. Packet' = Packet /\ CleanRead' = CleanRead /\ Packet.result = "OPERATION_SUCCESS"
    BY <2>1 DEF Packet, SendRequestResultToClient, CleanRead
  <2> QED BY <2>1, <2>3, <2>4 DEF ReportWasTrue, SuccessMeansDone, Reports
<1>7. CASE \/ \E packet \in Packets : Accept(packet)
           \/ Ask \/ AskHLR \/ Respond
  BY <1>7 DEF Accept, Ask, AskHLR, Respond
<1>8. CASE \/ \E packet \in Packets : Reject(packet)
           \/ DeviceAnswers \/ DeviceRefuses \/ UNCHANGED vars
  <2>1. UNCHANGED <<pc, request, tail, stale, seen, arrived>> /\ (executed => executed')
    <3>1. CASE \E packet \in Packets : Reject(packet)
      BY <3>1 DEF Reject, historyVars, worldVars
    <3>2. CASE DeviceAnswers
      BY <3>2 DEF DeviceAnswers, worldVars
    <3>3. CASE DeviceRefuses
      BY <3>3 DEF DeviceRefuses, historyVars, worldVars
    <3>4. CASE UNCHANGED vars
      BY <3>4 DEF vars, historyVars, worldVars
    <3> QED BY <1>8, <3>1, <3>2, <3>3, <3>4
  <2> QED BY <1>5, <2>1
<1> QED
  BY <1>2, <1>3, <1>4, <1>6, <1>7, <1>8 DEF Next, WorkerStep

(* The second invariant holds of every behaviour, given the first.            *)
LEMMA TruthInvariant == Spec => []TruthInv
<1>1. Init => TruthInv
  BY DEF Init, TruthInv, SeenPlaces, OwnAnswer, AskedWhenAway, ReportWasTrue, SuccessMeansDone,
         Reports
<1>2. TypeInv /\ TruthInv /\ [Next]_vars => TruthInv'
  BY SeenStep, OwnAnswerStep, AskedWhenAwayStep, TruthStep DEF TruthInv
<1> QED BY <1>1, <1>2, TypeInvariant, PTL DEF Spec

(* What is reported as done was done by the device for this very request,     *)
(* unless an older answer was still to come when it asked: ProcessCommand     *)
(* takes the next answer for the command's own, and ProcessRequest reports a  *)
(* success only of an answer that accepts.                                    *)
THEOREM DoneWhatIsReported == Spec => []SuccessMeansDone
BY TruthInvariant, PTL DEF TruthInv

(* A state or an IMSI that a client is told was true at some moment of its    *)
(* request, wherever the subscribers move between the questions to the VLR    *)
(* and to the HLR: what ParseAndSetResultCode makes of the device's texts and *)
(* SendRequestResultToClient of the request.  The one report that never was   *)
(* true, roaming at the gateway's own VLR, is given only of a subscriber who  *)
(* came home during the request.  Of a request that asked behind an older     *)
(* answer, or read past the end of an address, nothing is said.               *)
THEOREM ReportsWereTrue == Spec => []ReportWasTrue
BY TruthInvariant, PTL DEF TruthInv

=============================================================================
