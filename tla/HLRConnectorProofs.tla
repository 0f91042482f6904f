------------------------- MODULE HLRConnectorProofs -------------------------
(***************************************************************************)
(* Proofs about HLRConnector, for any number of commands, connections,     *)
(* notices, attempts and login questions, and however TCP cuts the text:   *)
(* the device is told what it asked for and nothing else, and the answer   *)
(* that ProcessCommand returns is the answer to its own command, unless an *)
(* earlier command was given up on the same connection.                    *)
(***************************************************************************)
EXTENDS HLRConnector, SequenceLemmas, FiniteSetTheorems, TLAPS

(* What ends a command; ORDERED does not. *)
Replies == {"ANSWER", "REFUSED"}

(* No piece of these kinds. *)
Free(s, kinds) == \A x \in Range(s) : x[1] \notin kinds

(* Each piece of these kinds is there once. *)
Once(s, kinds) == \A i, j \in DOMAIN s : s[i] = s[j] /\ s[i][1] \in kinds => i = j

(* No piece of these kinds is in both. *)
Apart(s, t, kinds) == \A x \in Range(s) \cap Range(t) : x[1] \notin kinds

(* The inductive invariant, in named parts. *)

(* Nothing reaches a device that has gone. *)
GoneHearsNothing == sock # "open" => todo = <<>>

(* Between a question and the device's hearing of the answer, nothing else is *)
(* on its way to it, and a question is asked once.  What the device says      *)
(* before it has accepted the login never ends one.                           *)
LoginFits ==
  /\ pc \in {"response", "maintain"} => loggedInToHLR
  /\ device = "new" => todo = <<>> /\ Free(inbox, {"ASK"})
  /\ device = "asking" =>
       Len(todo) <= 1 /\ (Free(inbox, {"ASK"}) \/ todo = <<>>)
  /\ device \in {"new", "asking"} =>
       \A x \in Range(inbox) : x[1] \in {"ASK", "DENIED", "NEGOTIATION"}
  /\ device \in {"ready", "off"} => Free(inbox, {"ASK"})
  /\ Once(inbox, {"ASK"})
  /\ \A x \in Range(inbox) : x[1] = "ASK" => x[2] = 0

NoCommand == \A i \in DOMAIN todo : todo[i][1] # "command"

(* No command is on its way, and no reply, ordered or said. *)
NothingDue ==
  /\ NoCommand
  /\ sock = "open" => ordered = 0
  /\ Free(inbox, Replies)

(* No reply to the command has come yet. *)
NoReplyYet == Free(inbox, Replies) /\ Free(hlrResponse, Replies)

(* The command is on its way, or was ordered, or its one reply is in what the *)
(* device has said since.                                                     *)
OneReplyDue ==
  /\ \A i \in DOMAIN todo : todo[i][1] = "command" => todo[i][2] = cmd
  /\ \A i, j \in DOMAIN todo : todo[i][1] = "command" /\ todo[j][1] = "command" => i = j
  /\ NoCommand \/ (ordered = 0 /\ NoReplyYet)
  /\ sock = "open" /\ ordered # 0 => ordered = cmd /\ NoReplyYet
  /\ Once(inbox, Replies) /\ Once(hlrResponse, Replies)
  /\ Apart(inbox, hlrResponse, Replies)
  /\ \E kind \in Replies : \A x \in Range(inbox) \cup Range(hlrResponse) :
       x[1] \in Replies => x[1] = kind /\ x[2] = cmd

CommandFits ==
  /\ pc \notin {"response", "maintain", "killed"} => hlrResponse = <<>>
  /\ ~abandoned /\ pc \notin {"response", "killed"} => NothingDue
  /\ ~abandoned /\ pc = "response" => OneReplyDue
  /\ ~abandoned /\ pc = "maintain" =>
       /\ Finds(hlrResponse, "ANSWER")
       /\ \A x \in Range(hlrResponse) : x[1] = "ANSWER" => x[2] = cmd

(* There is a command from Call on. *)
CommandGiven ==
  pc \in {"restore", "peek", "check", "response", "maintain"} \/ onLogin # "none"
    => cmd \in Commands

Session ==
  /\ TypeOK
  /\ GoneHearsNothing
  /\ SessionDiscipline /\ LoginFits
  /\ CommandFits

IInv == Session /\ CommandGiven

-----------------------------------------------------------------------------
(* What receiving and filtering do to the pieces. *)

LEMMA PieceFields ==
  ASSUME NEW x \in Pieces
  PROVE  /\ x[1] \in Kinds /\ x[2] \in 0 .. MaxCommands /\ x[3] \in {1, 2}
         /\ x = <<x[1], x[2], x[3]>>
BY DEF Pieces

LEMMA FilterElements ==
  ASSUME NEW S, NEW s \in Seq(S)
  PROVE  /\ Filtered(s) \in Seq(S)
         /\ \E f \in [DOMAIN Filtered(s) -> DOMAIN s] :
              /\ \A i \in DOMAIN Filtered(s) : Filtered(s)[i] = s[f[i]]
              /\ \A i, j \in DOMAIN Filtered(s) : f[i] = f[j] => i = j
<1> DEFINE kept == {i \in DOMAIN s : s[i] # Negotiation}
           n == Cardinality(kept)
           Rank(i) == Cardinality({j \in kept : j <= i})
           f == [k \in 1 .. n |-> CHOOSE i \in kept : Rank(i) = k]
<1>1. n \in Nat /\ \A k \in 1 .. n : \E i \in kept : Rank(i) = k
  <2>1. Len(s) \in Nat /\ kept \subseteq 1 .. Len(s)
    OBVIOUS
  <2> HIDE DEF kept
  <2> QED
    BY <2>1, RanksAreOnto
<1>2. \A k \in 1 .. n : f[k] \in kept /\ Rank(f[k]) = k
  <2> HIDE DEF kept, n, Rank
  <2> QED
    BY <1>1
<1>3. Filtered(s) = [k \in 1 .. n |-> s[f[k]]]
  BY DEF Filtered
<1>4. DOMAIN Filtered(s) = 1 .. n /\ \A k \in 1 .. n : Filtered(s)[k] = s[f[k]]
  BY <1>3
<1>5. \A k \in 1 .. n : f[k] \in DOMAIN s /\ s[f[k]] \in S
  <2>1. \A i \in kept : i \in DOMAIN s /\ s[i] \in S
    OBVIOUS
  <2> HIDE DEF kept, n, f
  <2> QED
    BY <1>2, <2>1
<1>6. Filtered(s) \in Seq(S)
  <2> HIDE DEF kept, n, f
  <2> QED
    BY <1>1, <1>3, <1>5
<1>7. f \in [DOMAIN Filtered(s) -> DOMAIN s]
  <2>1. f = [k \in 1 .. n |-> f[k]]
    <3> HIDE DEF kept, n, Rank
    <3> QED
      OBVIOUS
  <2> HIDE DEF kept, n, f
  <2> QED
    BY <1>4, <1>5, <2>1
<1>8. \A i, j \in DOMAIN Filtered(s) : f[i] = f[j] => i = j
  <2> HIDE DEF kept, n, f, Rank
  <2> QED
    BY <1>2, <1>4
<1> QED
  <2> HIDE DEF kept, n, f, Rank
  <2> QED
    BY <1>4, <1>6, <1>7, <1>8

LEMMA OnceCut ==
  ASSUME NEW S, NEW s \in Seq(S), NEW n \in 0 .. Len(s), NEW K, Once(s, K)
  PROVE  /\ Once(SubSeq(s, 1, n), K) /\ Once(SubSeq(s, n + 1, Len(s)), K)
         /\ \A i \in DOMAIN SubSeq(s, n + 1, Len(s)), j \in DOMAIN SubSeq(s, 1, n) :
              SubSeq(s, n + 1, Len(s))[i][1] \in K =>
                SubSeq(s, n + 1, Len(s))[i] # SubSeq(s, 1, n)[j]
<1> DEFINE a == SubSeq(s, 1, n)
           b == SubSeq(s, n + 1, Len(s))
<1>1. /\ Len(s) \in Nat /\ DOMAIN s = 1 .. Len(s)
      /\ DOMAIN a = 1 .. n
      /\ DOMAIN b = 1 .. Len(s) - n
      /\ \A i \in 1 .. n : a[i] = s[i]
      /\ \A i \in 1 .. Len(s) - n : b[i] = s[n + i]
  BY SplitElements
<1> HIDE DEF a, b
<1>2. Once(a, K)
  BY <1>1 DEF Once
<1>3. Once(b, K)
  <2> SUFFICES ASSUME NEW i \in DOMAIN b, NEW j \in DOMAIN b, b[i] = b[j], b[i][1] \in K
               PROVE  i = j
    BY DEF Once
  <2>1. n + i \in DOMAIN s /\ n + j \in DOMAIN s
    BY <1>1
  <2>2. n + i = n + j
    BY <1>1, <2>1 DEF Once
  <2> QED
    BY <1>1, <2>2
<1>4. ASSUME NEW i \in DOMAIN b, NEW j \in DOMAIN a, b[i][1] \in K, b[i] = a[j] PROVE FALSE
  <2>1. n + i \in DOMAIN s /\ j \in DOMAIN s /\ n + i # j
    BY <1>1
  <2> QED
    BY <1>1, <1>4, <2>1 DEF Once
<1> QED
  BY <1>2, <1>3, <1>4 DEF a, b

LEMMA ConcatOnce ==
  ASSUME NEW S, NEW s \in Seq(S), NEW t \in Seq(S), NEW K, Once(s, K), Once(t, K),
         \A i \in DOMAIN t, j \in DOMAIN s : t[i][1] \in K => t[i] # s[j]
  PROVE  Once(s \o t, K)
<1> DEFINE u == s \o t
<1>1. /\ Len(s) \in Nat /\ DOMAIN s = 1 .. Len(s)
      /\ Len(t) \in Nat /\ DOMAIN t = 1 .. Len(t)
      /\ DOMAIN u = 1 .. Len(s) + Len(t)
      /\ \A i \in 1 .. Len(s) : u[i] = s[i]
      /\ \A i \in 1 .. Len(t) : u[Len(s) + i] = t[i]
      /\ \A i \in 1 .. Len(s) + Len(t) :
           i \in 1 .. Len(s) \/ \E j \in 1 .. Len(t) : i = Len(s) + j
  BY ConcatElements
<1> HIDE DEF u
<1> SUFFICES ASSUME NEW i \in DOMAIN u, NEW j \in DOMAIN u, u[i] = u[j], u[i][1] \in K
             PROVE  i = j
  BY DEF Once, u
<1>2. CASE i \in DOMAIN s /\ j \in DOMAIN s
  BY <1>1, <1>2 DEF Once
<1>3. CASE i \in DOMAIN s /\ j \notin DOMAIN s
  <2>1. PICK k \in DOMAIN t : j = Len(s) + k
    BY <1>1, <1>3
  <2>2. u[i] = s[i] /\ u[j] = t[k]
    BY <1>1, <1>3, <2>1
  <2> QED
    BY <1>3, <2>2
<1>4. CASE i \notin DOMAIN s /\ j \in DOMAIN s
  <2>1. PICK k \in DOMAIN t : i = Len(s) + k
    BY <1>1, <1>4
  <2>2. u[j] = s[j] /\ u[i] = t[k]
    BY <1>1, <1>4, <2>1
  <2> QED
    BY <1>4, <2>2
<1>5. CASE i \notin DOMAIN s /\ j \notin DOMAIN s
  <2>1. PICK k \in DOMAIN t : i = Len(s) + k
    BY <1>1, <1>5
  <2>2. PICK l \in DOMAIN t : j = Len(s) + l
    BY <1>1, <1>5
  <2>3. k = l
    BY <1>1, <2>1, <2>2 DEF Once
  <2> QED
    BY <2>1, <2>2, <2>3
<1> QED
  BY <1>2, <1>3, <1>4, <1>5

(* What a recv hands to the connector, and what it leaves. *)
LEMMA ChunkRange ==
  ASSUME TypeOK, NEW raw \in Chunks
  PROVE  /\ Filtered(raw) \in Seq(Pieces)
         /\ Range(Filtered(raw)) \subseteq Range(inbox)
<1>1. inbox \in Seq(Pieces)
  BY DEF TypeOK
<1>2. PICK n \in 1 .. Len(inbox) : raw = SubSeq(inbox, 1, n)
  BY DEF Chunks
<1>3. n \in 0 .. Len(inbox) /\ raw \in Seq(Pieces)
  BY <1>1, <1>2, SplitElements
<1>4. Range(raw) \subseteq Range(inbox)
  BY <1>1, <1>2, <1>3, PartsRange
<1>5. /\ Filtered(raw) \in Seq(Pieces)
      /\ \E f \in [DOMAIN Filtered(raw) -> DOMAIN raw] :
           \A i \in DOMAIN Filtered(raw) : Filtered(raw)[i] = raw[f[i]]
  BY <1>3, FilterElements
<1>6. Range(Filtered(raw)) \subseteq Range(raw)
  BY <1>5 DEF Range
<1> QED
  BY <1>4, <1>5, <1>6

LEMMA RecvKeeps ==
  ASSUME TypeOK, NEW raw \in Chunks, Recv(raw)
  PROVE  /\ inbox' \in Seq(Pieces)
         /\ Range(inbox') \subseteq Range(inbox)
         /\ \A K : Once(inbox, K) =>
              /\ Once(inbox', K) /\ Once(Filtered(raw), K)
              /\ Apart(inbox', Filtered(raw), K)
<1>1. inbox \in Seq(Pieces)
  BY DEF TypeOK
<1>2. PICK n \in 1 .. Len(inbox) :
        /\ raw = SubSeq(inbox, 1, n)
        /\ inbox' = SubSeq(inbox, n + 1, Len(inbox))
  BY DEF Recv
<1>3. n \in 0 .. Len(inbox) /\ raw \in Seq(Pieces)
  BY <1>1, <1>2, SplitElements
<1>4. inbox' \in Seq(Pieces) /\ Range(inbox') \subseteq Range(inbox)
  BY <1>1, <1>2, <1>3, SplitElements, PartsRange
<1>5. PICK f \in [DOMAIN Filtered(raw) -> DOMAIN raw] :
        /\ \A i \in DOMAIN Filtered(raw) : Filtered(raw)[i] = raw[f[i]]
        /\ \A i, j \in DOMAIN Filtered(raw) : f[i] = f[j] => i = j
  BY <1>3, FilterElements
<1>6. ASSUME NEW K, Once(inbox, K)
      PROVE  /\ Once(inbox', K) /\ Once(Filtered(raw), K)
             /\ Apart(inbox', Filtered(raw), K)
  <2>1. /\ Once(raw, K) /\ Once(inbox', K)
        /\ \A i \in DOMAIN inbox', j \in DOMAIN raw :
             inbox'[i][1] \in K => inbox'[i] # raw[j]
    BY <1>1, <1>2, <1>3, <1>6, OnceCut
  <2>2. Once(Filtered(raw), K)
    BY <1>5, <2>1 DEF Once
  <2>3. \A i \in DOMAIN inbox', j \in DOMAIN Filtered(raw) :
          inbox'[i][1] \in K => inbox'[i] # Filtered(raw)[j]
    BY <1>5, <2>1
  <2>4. Apart(inbox', Filtered(raw), K)
    BY <2>3 DEF Apart, Range
  <2> QED
    BY <2>1, <2>2, <2>4
<1> QED
  BY <1>4, <1>6

(* A phrase found was there with both its halves. *)
LEMMA BothHalves ==
  ASSUME NEW buf \in Seq(Pieces), NEW kind, Finds(buf, kind)
  PROVE  \E c \in 0 .. MaxCommands : {<<kind, c, 1>>, <<kind, c, 2>>} \subseteq Range(buf)
<1>1. PICK i \in DOMAIN buf : At(buf, i, kind)
  BY DEF Finds
<1>2. PICK c \in {0} \cup Commands : i + 1 \in DOMAIN buf /\ SubSeq(buf, i, i + 1) = Text(kind, c)
  BY <1>1 DEF At
<1>3. buf[i] = <<kind, c, 1>> /\ buf[i + 1] = <<kind, c, 2>>
  BY <1>2, TwoInARow DEF Text
<1>4. c \in 0 .. MaxCommands
  BY <1>2, BoundsAssumption DEF Commands
<1> QED
  BY <1>2, <1>3, <1>4 DEF Range

(* When all pieces of these kinds are halves of one phrase, and it was found  *)
(* in one text, nothing of it is left for another.                            *)
LEMMA NothingLeft ==
  ASSUME NEW s \in Seq(Pieces), NEW t \in Seq(Pieces), NEW K, NEW kind \in K, NEW c,
         Finds(t, kind), Apart(s, t, K),
         NEW k, \A x \in Range(s) \cup Range(t) : x[1] \in K => x[1] = k /\ x[2] = c
  PROVE  Free(s, K)
<1>1. PICK d \in 0 .. MaxCommands : {<<kind, d, 1>>, <<kind, d, 2>>} \subseteq Range(t)
  BY BothHalves
<1>2. kind = k /\ d = c
  BY <1>1
<1> SUFFICES ASSUME NEW x \in Range(s), x[1] \in K PROVE FALSE
  BY DEF Free
<1>3. x \in Pieces
  BY DEF Range
<1>4. x = <<kind, d, 1>> \/ x = <<kind, d, 2>>
  BY <1>2, <1>3, PieceFields
<1>5. x \in Range(t)
  BY <1>1, <1>4
<1> QED
  BY <1>5 DEF Apart

LEMMA AnsweredIs ==
  ASSUME NEW buf \in Seq(Pieces), Finds(buf, "ANSWER"), NEW c,
         \A x \in Range(buf) : x[1] = "ANSWER" => x[2] = c
  PROVE  Answered(buf) = c
<1> DEFINE T == {j \in DOMAIN buf : At(buf, j, "ANSWER")}
<1>1. Len(buf) \in Nat /\ DOMAIN buf = 1 .. Len(buf)
  OBVIOUS
<1>2. T \subseteq Nat /\ T # {}
  BY <1>1 DEF Finds
<1>3. PICK j \in T : \A k \in T : j <= k
  <2> HIDE DEF T
  <2> QED
    BY <1>2, LeastNat
<1>4. ASSUME NEW k \in 1 .. j - 1 PROVE ~At(buf, k, "ANSWER")
  <2>1. k \in DOMAIN buf /\ ~(j <= k)
    BY <1>1, <1>3
  <2> QED
    BY <1>3, <2>1
<1>5. \E i \in DOMAIN buf : At(buf, i, "ANSWER") /\ \A k \in 1 .. i - 1 : ~At(buf, k, "ANSWER")
  BY <1>3, <1>4
<1>6. ASSUME NEW i \in DOMAIN buf, At(buf, i, "ANSWER") PROVE buf[i][2] = c
  <2>1. PICK d \in {0} \cup Commands :
          i + 1 \in DOMAIN buf /\ SubSeq(buf, i, i + 1) = Text("ANSWER", d)
    BY <1>6 DEF At
  <2>2. buf[i] = <<"ANSWER", d, 1>>
    BY <2>1, TwoInARow DEF Text
  <2> QED
    BY <2>2 DEF Range
<1> QED
  BY <1>5, <1>6 DEF Answered

-----------------------------------------------------------------------------
(* What the device says, and what that does to the pieces under way. *)

LEMMA TextFacts ==
  ASSUME NEW kind \in Kinds, NEW c \in 0 .. MaxCommands
  PROVE  /\ Text(kind, c) \in Seq(Pieces)
         /\ Range(Text(kind, c)) = {<<kind, c, 1>>, <<kind, c, 2>>}
         /\ \A K : Once(Text(kind, c), K)
<1> DEFINE a == <<kind, c, 1>>
           b == <<kind, c, 2>>
<1>1. a \in Pieces /\ b \in Pieces /\ a # b
  BY DEF Pieces
<1>2. Text(kind, c) = <<a, b>>
  BY DEF Text
<1> HIDE DEF a, b
<1>3. <<a, b>> \in Seq(Pieces) /\ Range(<<a, b>>) = {a, b}
  BY <1>1 DEF Range
<1>4. \A K : Once(<<a, b>>, K)
  BY <1>1 DEF Once
<1> QED
  BY <1>2, <1>3, <1>4 DEF a, b

LEMMA TwoTexts ==
  ASSUME NEW k \in Kinds, NEW c \in 0 .. MaxCommands,
         NEW l \in Kinds, NEW d \in 0 .. MaxCommands, k # l
  PROVE  /\ Text(k, c) \o Text(l, d) \in Seq(Pieces)
         /\ Range(Text(k, c) \o Text(l, d)) =
              {<<k, c, 1>>, <<k, c, 2>>, <<l, d, 1>>, <<l, d, 2>>}
         /\ \A K : Once(Text(k, c) \o Text(l, d), K)
<1> DEFINE s == Text(k, c)
           t == Text(l, d)
<1>1. /\ s \in Seq(Pieces) /\ Range(s) = {<<k, c, 1>>, <<k, c, 2>>} /\ \A K : Once(s, K)
      /\ t \in Seq(Pieces) /\ Range(t) = {<<l, d, 1>>, <<l, d, 2>>} /\ \A K : Once(t, K)
  BY TextFacts
<1>2. \A i \in DOMAIN t, j \in DOMAIN s : t[i] # s[j]
  <2>1. Range(s) \cap Range(t) = {}
    BY <1>1
  <2> HIDE DEF s, t
  <2> QED
    BY <2>1 DEF Range
<1> HIDE DEF s, t
<1>3. s \o t \in Seq(Pieces) /\ Range(s \o t) = Range(s) \cup Range(t)
  BY <1>1, ConcatElements, ConcatRange
<1>4. ASSUME NEW K PROVE Once(s \o t, K)
  BY <1>1, <1>2, ConcatOnce
<1> QED
  BY <1>1, <1>3, <1>4 DEF s, t

LEMMA NegotiationFacts ==
  /\ <<Negotiation>> \in Seq(Pieces)
  /\ Range(<<Negotiation>>) = {Negotiation}
  /\ \A K : Once(<<Negotiation>>, K)
<1>1. Negotiation \in Pieces
  <2>1. 0 \in 0 .. MaxCommands /\ "NEGOTIATION" \in Kinds
    BY BoundsAssumption DEF Kinds
  <2> QED
    BY <2>1 DEF Negotiation, Pieces
<1> QED
  BY <1>1 DEF Range, Once

LEMMA SayKeeps ==
  ASSUME TypeOK, NEW text \in Seq(Pieces), Say(text)
  PROVE  /\ inbox' \in Seq(Pieces)
         /\ Range(inbox') = Range(inbox) \cup Range(text)
         /\ \A K : Once(inbox, K) /\ Once(text, K) /\ (Free(inbox, K) \/ Free(text, K))
                     => Once(inbox', K)
<1>1. inbox \in Seq(Pieces) /\ inbox' = inbox \o text
  BY DEF TypeOK, Say
<1>2. inbox' \in Seq(Pieces) /\ Range(inbox') = Range(inbox) \cup Range(text)
  BY <1>1, ConcatElements, ConcatRange
<1>3. ASSUME NEW K, Once(inbox, K), Once(text, K), Free(inbox, K) \/ Free(text, K)
      PROVE  Once(inbox', K)
  <2>1. \A i \in DOMAIN text, j \in DOMAIN inbox : text[i][1] \in K => text[i] # inbox[j]
    BY <1>3 DEF Free, Range
  <2> QED
    BY <1>1, <1>3, <2>1, ConcatOnce
<1> QED
  BY <1>2, <1>3

-----------------------------------------------------------------------------
(* Types. *)

LEMMA InitIInv == Init => IInv
<1> SUFFICES ASSUME Init PROVE IInv
  OBVIOUS
<1>1. /\ MaxCommands \in Nat /\ MaxConnects \in Nat /\ MaxNotices \in Nat
      /\ maxLoginAttempts \in Nat \ {0}
  BY BoundsAssumption
<1>2. TypeOK
  <2>1. hlrResponse \in Seq(Pieces) /\ inbox \in Seq(Pieces) /\ todo \in Seq(Inputs)
    BY DEF Init
  <2>2. pc \in PCs /\ sock \in Sockets
    BY DEF Init, PCs, Sockets
  <2>3. attempts \in 0 .. maxLoginAttempts - 1
    BY <1>1 DEF Init
  <2>4. /\ cmd \in 0 .. MaxCommands /\ ordered \in 0 .. MaxCommands
        /\ connects \in 0 .. MaxConnects /\ notices \in 0 .. MaxNotices
    BY <1>1 DEF Init
  <2>5. /\ socketConnected \in BOOLEAN /\ loggedInToHLR \in BOOLEAN /\ abandoned \in BOOLEAN
        /\ talking \in BOOLEAN
        /\ onLogin \in {"none", "peek", "check"}
        /\ device \in {"new", "asking", "ready", "off"}
    BY DEF Init
  <2> QED
    BY <2>1, <2>2, <2>3, <2>4, <2>5 DEF TypeOK
<1>3. Range(<<>>) = {} /\ \A K : Once(<<>>, K)
  BY DEF Range, Once
<1>4. GoneHearsNothing /\ SessionDiscipline /\ LoginFits
  BY <1>3 DEF Init, GoneHearsNothing, SessionDiscipline, LoginFits, Free
<1>5. CommandFits
  BY <1>3 DEF Init, CommandFits, NothingDue, NoCommand, Free
<1>6. CommandGiven
  BY DEF Init, CommandGiven
<1> QED
  BY <1>2, <1>4, <1>5, <1>6 DEF IInv, Session

(* What a send may do: only an open connection carries the input.             *)
LEMMA SendEffect ==
  ASSUME NEW s \in Sockets, NEW x \in Inputs, NEW outcome, SendOn(s, x, outcome),
         todo \in Seq(Inputs)
  PROVE  /\ sock' \in Sockets /\ todo' \in Seq(Inputs)
         /\ outcome \in Outcomes
         /\ \/ s = "open" /\ sock' = "open" /\ todo' = Append(todo, x) /\ outcome = "sent"
            \/ s # "open" /\ sock' # "open" /\ todo' = todo
BY DEF SendOn, Sockets, Outcomes

LEMMA ParseEffect ==
  ASSUME NEW raw, NEW s \in AfterParse(raw), sock \in Sockets
  PROVE  s \in Sockets /\ (s = "open" <=> sock = "open")
BY DEF AfterParse, Sockets

LEMMA InputKinds ==
  /\ <<"attribute", 0>> \in Inputs /\ <<"crlf", 0>> \in Inputs /\ <<"escape", 0>> \in Inputs
  /\ \A c \in Commands : <<"command", c>> \in Inputs
BY DEF Inputs

LEMMA AttemptEffect ==
  ASSUME TypeOK, AttemptFails
  PROVE  /\ attempts' \in 0 .. maxLoginAttempts - 1
         /\ pc' \in {pc, "failed", "check"}
         /\ UNCHANGED loggedInToHLR
<1>1. attempts \in 0 .. maxLoginAttempts - 1 /\ maxLoginAttempts \in Nat \ {0}
  BY BoundsAssumption DEF TypeOK
<1> QED
  BY <1>1 DEF AttemptFails

LEMMA ConnectEffect ==
  ASSUME TypeOK, NEW failure \in {"failed", "check"}, CreateSocketAndConnect(failure)
  PROVE  /\ pc' \in {"login", failure}
         /\ inbox' = <<>> /\ todo' = <<>>
         /\ loggedInToHLR' = FALSE /\ socketConnected' \in BOOLEAN
         /\ device' = "new" /\ ordered' = 0 /\ talking' = FALSE /\ abandoned' = FALSE
         /\ attempts' \in 0 .. maxLoginAttempts - 1
         /\ connects' \in 0 .. MaxConnects
         /\ sock' \in {"open", "none"}
         /\ UNCHANGED <<cmd, hlrResponse, notices>>
<1>1. connects \in 0 .. MaxConnects /\ MaxConnects \in Nat /\ maxLoginAttempts \in Nat \ {0}
  BY BoundsAssumption DEF TypeOK
<1>2. connects < MaxConnects => connects + 1 \in 0 .. MaxConnects
  BY <1>1
<1>3. 0 \in 0 .. maxLoginAttempts - 1
  BY <1>1
<1> QED
  BY <1>1, <1>2, <1>3 DEF CreateSocketAndConnect

-----------------------------------------------------------------------------
(* The steps that keep the invariant, by what they touch. *)

LEMMA ConnectKeeps ==
  ASSUME IInv, NEW failure \in {"failed", "check"}, CreateSocketAndConnect(failure),
         onLogin' \in {"none", "peek", "check"}, hlrResponse = <<>>
  PROVE  Session'
<1>0. TypeOK
  BY DEF IInv, Session
<1>1. /\ pc' \in {"login", failure}
      /\ inbox' = <<>> /\ todo' = <<>>
      /\ loggedInToHLR' = FALSE /\ socketConnected' \in BOOLEAN
      /\ device' = "new" /\ ordered' = 0 /\ talking' = FALSE /\ abandoned' = FALSE
      /\ attempts' \in 0 .. maxLoginAttempts - 1
      /\ connects' \in 0 .. MaxConnects
      /\ sock' \in {"open", "none"}
      /\ UNCHANGED <<cmd, hlrResponse, notices>>
  BY <1>0, ConnectEffect
<1>2. TypeOK'
  <2>1. inbox' \in Seq(Pieces) /\ todo' \in Seq(Inputs)
    BY <1>1
  <2>2. pc' \in PCs /\ sock' \in Sockets
    BY <1>1 DEF PCs, Sockets
  <2>3. ordered' \in 0 .. MaxCommands
    BY <1>1, BoundsAssumption
  <2>4. /\ loggedInToHLR' \in BOOLEAN /\ abandoned' \in BOOLEAN /\ talking' \in BOOLEAN
        /\ device' \in {"new", "asking", "ready", "off"}
    BY <1>1
  <2>5. /\ cmd' \in 0 .. MaxCommands /\ notices' \in 0 .. MaxNotices
        /\ hlrResponse' \in Seq(Pieces)
    BY <1>0, <1>1 DEF TypeOK
  <2> QED
    BY <1>1, <2>1, <2>2, <2>3, <2>4, <2>5 DEF TypeOK
<1>3. Range(<<>>) = {} /\ \A K : Once(<<>>, K)
  BY DEF Range, Once
<1>4. GoneHearsNothing' /\ SessionDiscipline' /\ LoginFits'
  BY <1>1, <1>3 DEF GoneHearsNothing, SessionDiscipline, LoginFits, Free
<1>5. CommandFits'
  BY <1>1, <1>3 DEF CommandFits, NothingDue, NoCommand, Free
<1> QED
  BY <1>2, <1>4, <1>5 DEF IInv, Session

(* Steps outside the wait for a response that say and hear nothing. *)
LEMMA QuietKeeps ==
  ASSUME IInv, TypeOK',
         UNCHANGED <<todo, inbox, device, ordered, loggedInToHLR, hlrResponse, abandoned>>,
         sock' = "open" <=> sock = "open",
         pc \notin {"response", "maintain", "killed"}, pc' \notin {"response", "maintain"}
  PROVE  Session'
<1>1. GoneHearsNothing' /\ SessionDiscipline' /\ LoginFits'
  BY DEF IInv, Session, GoneHearsNothing, SessionDiscipline, LoginFits
<1>2. CommandFits'
  BY DEF IInv, Session, CommandFits, NothingDue, NoCommand
<1> QED
  BY <1>1, <1>2 DEF IInv, Session

LEMMA ControlNext ==
  ASSUME IInv,
         LoginRecvFails \/ LoginTimeout \/ LoginInterrupted \/ Call
           \/ (Restore /\ socketConnected) \/ PeekNothing \/ RefusalKills
  PROVE  Session'
<1>0. TypeOK
  BY DEF IInv, Session
<1>1. "check" \in PCs /\ "failed" \in PCs /\ "restore" \in PCs /\ "peek" \in PCs
      /\ "killed" \in PCs /\ "dead" \in Sockets
  BY DEF PCs, Sockets
<1> USE DEF connectorVars, deviceVars, loginUnchanged
<1>2. ASSUME LoginRecvFails \/ LoginTimeout \/ LoginInterrupted PROVE Session'
  <2>1. /\ attempts' \in 0 .. maxLoginAttempts - 1
        /\ pc' \in {pc, "failed", "check"}
        /\ UNCHANGED loggedInToHLR
    BY <1>0, <1>2, AttemptEffect DEF LoginRecvFails, LoginTimeout, LoginInterrupted
  <2>2. TypeOK'
    <3>1. pc' \in PCs /\ sock' \in Sockets
      BY <1>0, <1>1, <1>2, <2>1 DEF LoginRecvFails, LoginTimeout, LoginInterrupted, TypeOK
    <3>2. UNCHANGED <<cmd, socketConnected, onLogin, hlrResponse, abandoned, connects,
                      device, ordered, talking, notices, inbox, todo>>
      BY <1>2 DEF LoginRecvFails, LoginTimeout, LoginInterrupted
    <3> QED
      BY <1>0, <2>1, <3>1, <3>2 DEF TypeOK
  <2>3. sock' = "open" <=> sock = "open"
    BY <1>2 DEF LoginRecvFails, LoginTimeout, LoginInterrupted, RecvFails
  <2> QED
    BY <1>2, <2>1, <2>2, <2>3, QuietKeeps DEF LoginRecvFails, LoginTimeout, LoginInterrupted
<1>3. ASSUME Call PROVE Session'
  <2>1. cmd' \in 0 .. MaxCommands
    BY <1>0, <1>3, BoundsAssumption DEF Call, TypeOK
  <2>2. TypeOK'
    BY <1>0, <1>1, <1>3, <2>1 DEF Call, TypeOK
  <2> QED
    BY <1>3, <2>2, QuietKeeps DEF Call
<1>4. ASSUME Restore, socketConnected PROVE Session'
  <2>1. TypeOK'
    BY <1>0, <1>1, <1>4 DEF Restore, TypeOK
  <2> QED
    BY <1>4, <2>1, QuietKeeps DEF Restore
<1>5. ASSUME PeekNothing PROVE Session'
  <2>1. TypeOK'
    BY <1>0, <1>1, <1>5 DEF PeekNothing, TypeOK
  <2> QED
    BY <1>5, <2>1, QuietKeeps DEF PeekNothing
<1>6. ASSUME RefusalKills PROVE Session'
  <2>1. TypeOK'
    BY <1>0, <1>1, <1>6 DEF RefusalKills, TypeOK
  <2>2. GoneHearsNothing' /\ SessionDiscipline' /\ LoginFits' /\ CommandFits'
    BY <1>6 DEF RefusalKills, IInv, Session, GoneHearsNothing, SessionDiscipline, LoginFits, CommandFits
  <2> QED
    BY <2>1, <2>2 DEF IInv, Session
<1> QED
  BY <1>2, <1>3, <1>4, <1>5, <1>6

LEMMA ReconnectNext ==
  ASSUME IInv, Initialize \/ (Restore /\ ~socketConnected) \/ PeekFails \/ PeekLoggedOff
  PROVE  Session'
<1>1. CASE Initialize
  <2>1. hlrResponse = <<>> /\ onLogin' \in {"none", "peek", "check"}
    BY <1>1 DEF Initialize, IInv, Session, CommandFits, TypeOK
  <2> QED
    BY <1>1, <2>1, ConnectKeeps DEF Initialize
<1>2. CASE (Restore /\ ~socketConnected) \/ PeekFails \/ PeekLoggedOff
  <2>1. hlrResponse = <<>>
    BY <1>2 DEF Restore, PeekFails, PeekLoggedOff, IInv, Session, CommandFits
  <2>2. Reconnect("peek") \/ Reconnect("check")
    BY <1>2 DEF Restore, PeekFails, PeekLoggedOff
  <2> QED
    BY <2>1, <2>2, ConnectKeeps DEF Reconnect
<1> QED
  BY <1>1, <1>2

-----------------------------------------------------------------------------
(* The login and the peek. *)

LEMMA SentElements ==
  ASSUME todo \in Seq(Inputs), NEW x \in Inputs, todo' = todo \/ todo' = Append(todo, x)
  PROVE  /\ todo' \in Seq(Inputs)
         /\ Len(todo) \in Nat
         /\ \A i \in DOMAIN todo' :
              \/ i \in DOMAIN todo /\ todo'[i] = todo[i]
              \/ i = Len(todo) + 1 /\ todo'[i] = x
<1>1. /\ Append(todo, x) \in Seq(Inputs)
      /\ Len(todo) \in Nat /\ DOMAIN todo = 1 .. Len(todo)
      /\ DOMAIN Append(todo, x) = 1 .. Len(todo) + 1
      /\ \A i \in 1 .. Len(todo) : Append(todo, x)[i] = todo[i]
      /\ Append(todo, x)[Len(todo) + 1] = x
  BY AppendElements
<1> QED
  BY <1>1

(* A question found means that the device is waiting for its answer. *)
LEMMA AskedOnce ==
  ASSUME IInv, NEW raw \in Chunks, Finds(Filtered(raw), "ASK"), Recv(raw)
  PROVE  device = "asking" /\ todo = <<>> /\ Free(inbox', {"ASK"})
<1>0. TypeOK /\ LoginFits
  BY DEF IInv, Session
<1> DEFINE chunk == Filtered(raw)
<1>1. /\ chunk \in Seq(Pieces) /\ Range(chunk) \subseteq Range(inbox)
      /\ inbox' \in Seq(Pieces) /\ Range(inbox') \subseteq Range(inbox)
      /\ Apart(inbox', chunk, {"ASK"})
  BY <1>0, ChunkRange, RecvKeeps DEF LoginFits
<1> HIDE DEF chunk
<1>2. \E c \in 0 .. MaxCommands : {<<"ASK", c, 1>>, <<"ASK", c, 2>>} \subseteq Range(chunk)
  BY <1>1, BothHalves DEF chunk
<1>3. ~Free(inbox, {"ASK"})
  BY <1>1, <1>2 DEF Free
<1>4. device = "asking" /\ todo = <<>>
  BY <1>0, <1>3 DEF LoginFits, TypeOK
<1>5. \A x \in Range(inbox') \cup Range(chunk) : x[1] \in {"ASK"} => x[1] = "ASK" /\ x[2] = 0
  BY <1>0, <1>1 DEF LoginFits
<1>6. Free(inbox', {"ASK"})
  BY <1>1, <1>5, NothingLeft DEF chunk
<1> QED
  BY <1>4, <1>6

(* What ends a login is said only once the device has accepted it. *)
LEMMA AcceptedWhenSaid ==
  ASSUME IInv, NEW raw \in Chunks, NEW kind, Finds(Filtered(raw), kind),
         kind \notin {"ASK", "DENIED", "NEGOTIATION"}
  PROVE  device \in {"ready", "off"}
<1>0. TypeOK /\ LoginFits
  BY DEF IInv, Session
<1>1. Filtered(raw) \in Seq(Pieces) /\ Range(Filtered(raw)) \subseteq Range(inbox)
  BY <1>0, ChunkRange
<1>2. \E c \in 0 .. MaxCommands :
        {<<kind, c, 1>>, <<kind, c, 2>>} \subseteq Range(Filtered(raw))
  BY <1>1, BothHalves
<1>3. \E x \in Range(inbox) : x[1] = kind
  BY <1>1, <1>2
<1> QED
  BY <1>0, <1>3 DEF LoginFits, TypeOK

LEMMA LoginRecvNext == ASSUME IInv, LoginRecv PROVE Session'
<1>0. /\ TypeOK /\ sock \in Sockets /\ todo \in Seq(Inputs)
      /\ GoneHearsNothing /\ SessionDiscipline /\ LoginFits /\ CommandFits
  BY DEF IInv, Session, TypeOK
<1> USE DEF deviceVars, loginUnchanged
<1>a. PICK raw \in Chunks : \E s \in AfterParse(raw) :
        /\ Recv(raw)
        /\ \/ /\ Finds(Filtered(raw), "ASK")
              /\ \E outcome \in Outcomes :
                  /\ SendOn(s, <<"attribute", 0>>, outcome)
                  /\ \/ outcome = "sent" /\ UNCHANGED <<pc, loggedInToHLR, attempts>>
                     \/ outcome = "error" /\ AttemptFails
                     \/ outcome = "killed" /\ pc' = "killed"
                          /\ UNCHANGED <<loggedInToHLR, attempts>>
           \/ /\ ~Finds(Filtered(raw), "ASK")
              /\ \/ Finds(Filtered(raw), "PROMPT") /\ LoginSucceeds
                 \/ AttemptFails
                 \/ Finds(Filtered(raw), "SUCCESS") /\ LoginSucceeds
                 \/ UNCHANGED <<pc, loggedInToHLR, attempts>>
              /\ sock' = s /\ UNCHANGED todo
  BY DEF LoginRecv
<1>1. PICK s \in AfterParse(raw) :
        /\ Recv(raw)
        /\ \/ /\ Finds(Filtered(raw), "ASK")
              /\ \E outcome \in Outcomes :
                  /\ SendOn(s, <<"attribute", 0>>, outcome)
                  /\ \/ outcome = "sent" /\ UNCHANGED <<pc, loggedInToHLR, attempts>>
                     \/ outcome = "error" /\ AttemptFails
                     \/ outcome = "killed" /\ pc' = "killed"
                          /\ UNCHANGED <<loggedInToHLR, attempts>>
           \/ /\ ~Finds(Filtered(raw), "ASK")
              /\ \/ Finds(Filtered(raw), "PROMPT") /\ LoginSucceeds
                 \/ AttemptFails
                 \/ Finds(Filtered(raw), "SUCCESS") /\ LoginSucceeds
                 \/ UNCHANGED <<pc, loggedInToHLR, attempts>>
              /\ sock' = s /\ UNCHANGED todo
  BY <1>a
<1>2. UNCHANGED <<cmd, socketConnected, onLogin, hlrResponse, abandoned, connects,
                  device, ordered, talking, notices>>
      /\ pc = "login"
  BY DEF LoginRecv
<1>3. s \in Sockets /\ (s = "open" <=> sock = "open")
  BY <1>0, ParseEffect
<1>4. /\ inbox' \in Seq(Pieces) /\ Range(inbox') \subseteq Range(inbox)
      /\ Once(inbox', {"ASK"})
  BY <1>0, <1>1, RecvKeeps DEF LoginFits
<1>5. /\ sock' \in Sockets /\ (sock' = "open" <=> sock = "open")
      /\ \/ todo' = todo
         \/ /\ sock = "open" /\ todo' = Append(todo, <<"attribute", 0>>)
            /\ Finds(Filtered(raw), "ASK")
  BY <1>0, <1>1, <1>3, SendEffect, InputKinds
<1>6. /\ todo' \in Seq(Inputs) /\ Len(todo) \in Nat
      /\ \A i \in DOMAIN todo' :
              \/ i \in DOMAIN todo /\ todo'[i] = todo[i]
              \/ i = Len(todo) + 1 /\ todo'[i] = <<"attribute", 0>>
  BY <1>0, <1>5, SentElements, InputKinds
<1>7. /\ attempts' \in 0 .. maxLoginAttempts - 1
      /\ pc' \in {"login", "check", "failed", "killed", "idle", "peek"}
      /\ loggedInToHLR' \in BOOLEAN
      /\ loggedInToHLR' => loggedInToHLR \/ device \in {"ready", "off"}
  <2>1. CASE AttemptFails
    BY <1>0, <1>2, <2>1, AttemptEffect DEF TypeOK
  <2>2. CASE /\ LoginSucceeds
             /\ Finds(Filtered(raw), "PROMPT") \/ Finds(Filtered(raw), "SUCCESS")
    <3>1. device \in {"ready", "off"}
      BY <2>2, AcceptedWhenSaid
    <3>2. 0 \in 0 .. maxLoginAttempts - 1
      BY BoundsAssumption
    <3>3. onLogin \in {"none", "peek", "check"}
      BY <1>0 DEF TypeOK
    <3> QED
      BY <2>2, <3>1, <3>2, <3>3 DEF LoginSucceeds
  <2>3. CASE UNCHANGED <<loggedInToHLR, attempts>> /\ pc' \in {pc, "killed"}
    BY <1>0, <1>2, <2>3 DEF TypeOK
  <2> QED
    BY <1>1, <2>1, <2>2, <2>3
<1>8. TypeOK'
  <2>1. pc' \in PCs
    BY <1>7 DEF PCs
  <2> QED
    BY <1>0, <1>2, <1>4, <1>5, <1>6, <1>7, <2>1 DEF TypeOK
<1>9. GoneHearsNothing'
  BY <1>0, <1>5 DEF GoneHearsNothing
<1>10. CASE todo' = todo
  <2>1. SessionDiscipline' /\ LoginFits'
    BY <1>0, <1>2, <1>4, <1>7, <1>10 DEF SessionDiscipline, LoginFits, Free
  <2>2. CommandFits'
    BY <1>0, <1>2, <1>4, <1>5, <1>7, <1>10 DEF CommandFits, NothingDue, NoCommand, Free
  <2> QED
    BY <1>8, <1>9, <2>1, <2>2 DEF IInv, Session
<1>11. CASE /\ sock = "open" /\ todo' = Append(todo, <<"attribute", 0>>)
            /\ Finds(Filtered(raw), "ASK")
  <2>1. device = "asking" /\ todo = <<>> /\ Free(inbox', {"ASK"})
    BY <1>1, <1>11, AskedOnce
  <2>2. Len(todo') = 1 /\ \A i \in DOMAIN todo' : todo'[i][1] = "attribute"
    BY <1>6, <1>11, <2>1
  <2>3. SessionDiscipline'
    BY <1>0, <1>2, <1>7, <2>1, <2>2 DEF SessionDiscipline
  <2>4. LoginFits'
    BY <1>0, <1>2, <1>4, <1>7, <2>1, <2>2 DEF LoginFits
  <2>5. CommandFits'
    BY <1>0, <1>2, <1>4, <1>5, <1>7, <2>2 DEF CommandFits, NothingDue, NoCommand, Free
  <2> QED
    BY <1>8, <1>9, <2>3, <2>4, <2>5 DEF IInv, Session
<1> QED
  BY <1>5, <1>10, <1>11

(* A carriage return or an escape, sent to a device that has accepted the     *)
(* login, changes nothing else that is on its way.                            *)
LEMMA PlainSent ==
  ASSUME IInv, NEW x \in {<<"crlf", 0>>, <<"escape", 0>>},
         sock' = "open" <=> sock = "open",
         \/ todo' = todo
         \/ sock = "open" /\ todo' = Append(todo, x) /\ device \in {"ready", "off"}
  PROVE  /\ todo' \in Seq(Inputs)
         /\ GoneHearsNothing'
         /\ device \in {"new", "asking"} => todo' = todo
         /\ \A i \in DOMAIN todo' : todo'[i][1] \in {"attribute", "command"} =>
              i \in DOMAIN todo /\ todo'[i] = todo[i]
<1>1. todo \in Seq(Inputs) /\ GoneHearsNothing
  BY DEF IInv, Session, TypeOK
<1>2. /\ todo' \in Seq(Inputs)
      /\ \A i \in DOMAIN todo' :
              \/ i \in DOMAIN todo /\ todo'[i] = todo[i]
              \/ todo'[i] = x
  BY <1>1, SentElements, InputKinds
<1>3. x[1] \notin {"attribute", "command"}
  OBVIOUS
<1> QED
  BY <1>1, <1>2, <1>3 DEF GoneHearsNothing

LEMMA PeekTextNext == ASSUME IInv, PeekText PROVE Session'
<1>0. /\ TypeOK /\ sock \in Sockets /\ todo \in Seq(Inputs)
      /\ SessionDiscipline /\ LoginFits /\ CommandFits
  BY DEF IInv, Session, TypeOK
<1>a. PICK raw \in Chunks : \E s \in AfterParse(raw) :
        /\ Recv(raw)
        /\ IF Finds(Filtered(raw), "TIME OUT")
           THEN \E outcome \in Outcomes :
                 /\ SendOn(s, <<"crlf", 0>>, outcome)
                 /\ pc' = IF outcome = "killed" THEN "killed" ELSE "check"
           ELSE pc' = "check" /\ sock' = s /\ UNCHANGED todo
  BY DEF PeekText
<1>1. PICK s \in AfterParse(raw) :
        /\ Recv(raw)
        /\ IF Finds(Filtered(raw), "TIME OUT")
           THEN \E outcome \in Outcomes :
                 /\ SendOn(s, <<"crlf", 0>>, outcome)
                 /\ pc' = IF outcome = "killed" THEN "killed" ELSE "check"
           ELSE pc' = "check" /\ sock' = s /\ UNCHANGED todo
  BY <1>a
<1>2. /\ UNCHANGED <<cmd, socketConnected, loggedInToHLR, attempts, onLogin, hlrResponse,
                     abandoned, device, ordered, talking, notices, connects>>
      /\ pc = "peek" /\ pc' \in {"killed", "check"}
  BY <1>1 DEF PeekText, deviceVars
<1>3. s \in Sockets /\ (s = "open" <=> sock = "open")
  BY <1>0, ParseEffect
<1>4. /\ inbox' \in Seq(Pieces) /\ Range(inbox') \subseteq Range(inbox)
      /\ Once(inbox', {"ASK"})
  BY <1>0, <1>1, RecvKeeps DEF LoginFits
<1>5. /\ sock' \in Sockets /\ (sock' = "open" <=> sock = "open")
      /\ \/ todo' = todo
         \/ sock = "open" /\ todo' = Append(todo, <<"crlf", 0>>) /\ device \in {"ready", "off"}
  <2>1. CASE Finds(Filtered(raw), "TIME OUT")
    <3>1. device \in {"ready", "off"}
      BY <2>1, AcceptedWhenSaid
    <3> QED
      BY <1>0, <1>1, <1>3, <2>1, <3>1, SendEffect, InputKinds
  <2>2. CASE ~Finds(Filtered(raw), "TIME OUT")
    BY <1>1, <1>3, <2>2
  <2> QED
    BY <2>1, <2>2
<1>6. /\ todo' \in Seq(Inputs)
      /\ GoneHearsNothing'
      /\ device \in {"new", "asking"} => todo' = todo
      /\ \A i \in DOMAIN todo' : todo'[i][1] \in {"attribute", "command"} =>
           i \in DOMAIN todo /\ todo'[i] = todo[i]
  BY <1>5, PlainSent
<1>7. TypeOK'
  <2>1. pc' \in PCs
    BY <1>2 DEF PCs
  <2> QED
    BY <1>0, <1>2, <1>4, <1>5, <1>6, <2>1 DEF TypeOK
<1>8. SessionDiscipline' /\ LoginFits'
  BY <1>0, <1>2, <1>4, <1>6 DEF SessionDiscipline, LoginFits, Free
<1>9. CommandFits'
  BY <1>0, <1>2, <1>4, <1>5, <1>6 DEF CommandFits, NothingDue, NoCommand, Free
<1> QED
  BY <1>6, <1>7, <1>8, <1>9 DEF Session

-----------------------------------------------------------------------------
(* The command. *)

LEMMA SendCommandNext == ASSUME IInv, SendCommand PROVE Session'
<1>0. /\ TypeOK /\ sock \in Sockets /\ todo \in Seq(Inputs) /\ GoneHearsNothing
      /\ SessionDiscipline /\ LoginFits /\ CommandFits /\ CommandGiven
  BY DEF IInv, Session, TypeOK
<1>1. /\ UNCHANGED <<cmd, socketConnected, loggedInToHLR, attempts, onLogin, hlrResponse,
                     abandoned, device, ordered, talking, notices, inbox, connects>>
      /\ pc = "check" /\ cmd \in Commands
  BY <1>0 DEF SendCommand, deviceVars, CommandGiven
<1>2. CASE ~loggedInToHLR
  <2>1. UNCHANGED <<sock, todo>> /\ pc' = "idle"
    BY <1>2 DEF SendCommand
  <2>2. TypeOK'
    <3>1. pc' \in PCs
      BY <2>1 DEF PCs
    <3> QED
      BY <1>0, <1>1, <2>1, <3>1 DEF TypeOK
  <2> QED
    BY <1>1, <2>1, <2>2, QuietKeeps
<1>3. CASE loggedInToHLR
  <2>1. PICK outcome \in Outcomes :
          /\ SendOn(sock, <<"command", cmd>>, outcome)
          /\ pc' = [sent |-> "response", error |-> "idle", killed |-> "killed"][outcome]
    BY <1>3 DEF SendCommand, Send
  <2>2. <<"command", cmd>> \in Inputs
    BY <1>1, InputKinds
  <2>3. /\ sock' \in Sockets /\ todo' \in Seq(Inputs)
        /\ \/ sock = "open" /\ sock' = "open" /\ todo' = Append(todo, <<"command", cmd>>)
              /\ outcome = "sent"
           \/ sock # "open" /\ sock' # "open" /\ todo' = todo
    BY <1>0, <2>1, <2>2, SendEffect
  <2>4. pc' \in {"response", "idle", "killed"} /\ (outcome = "sent" => pc' = "response")
    BY <2>1 DEF Outcomes
  <2>5. /\ Len(todo) \in Nat
        /\ \A i \in DOMAIN todo' :
              \/ i \in DOMAIN todo /\ todo'[i] = todo[i]
              \/ i = Len(todo) + 1 /\ todo'[i] = <<"command", cmd>>
    BY <1>0, <2>2, <2>3, SentElements
  <2>6. device \in {"ready", "off"}
    BY <1>0, <1>3 DEF SessionDiscipline
  <2>7. TypeOK'
    <3>1. pc' \in PCs
      BY <2>4 DEF PCs
    <3> QED
      BY <1>0, <1>1, <2>3, <3>1 DEF TypeOK
  <2>8. GoneHearsNothing'
    BY <1>0, <2>3 DEF GoneHearsNothing
  <2>9. SessionDiscipline' /\ LoginFits'
    BY <1>0, <1>1, <1>3, <2>5, <2>6 DEF SessionDiscipline, LoginFits
  <2>10. CommandFits'
    <3>1. hlrResponse = <<>> /\ Range(<<>>) = {} /\ (\A K : Once(<<>>, K))
      BY <1>0, <1>1 DEF CommandFits, Range, Once
    <3>2. ASSUME ~abandoned, pc' # "response" PROVE pc' # "killed" => NothingDue'
      BY <1>0, <1>1, <2>3, <2>4, <3>2 DEF CommandFits, NothingDue, NoCommand
    <3>3. ASSUME ~abandoned, pc' = "response" PROVE OneReplyDue'
      <4>1. NothingDue
        BY <1>0, <1>1, <3>3 DEF CommandFits
      <4>2. NoReplyYet' /\ NoReplyYet
        BY <1>1, <3>1, <4>1 DEF NoReplyYet, NothingDue, Free
      <4>3. \A i \in DOMAIN todo' : todo'[i][1] = "command" =>
              i = Len(todo) + 1 /\ todo'[i] = <<"command", cmd>>
        BY <2>5, <4>1 DEF NothingDue, NoCommand
      <4>4. NoCommand' \/ ordered' = 0
        BY <1>1, <2>3, <4>1 DEF NothingDue, NoCommand
      <4>5. sock' = "open" => ordered' = 0
        BY <1>1, <2>3, <4>1 DEF NothingDue
      <4>6. Once(inbox, Replies)' /\ Once(hlrResponse, Replies)'
            /\ Apart(inbox, hlrResponse, Replies)'
        BY <1>1, <3>1, <4>1 DEF NothingDue, Free, Once, Apart, Range
      <4>7. \E kind \in Replies : \A x \in Range(inbox') \cup Range(hlrResponse') :
              x[1] \in Replies => x[1] = kind /\ x[2] = cmd'
        <5>1. "ANSWER" \in Replies
          BY DEF Replies
        <5> QED
          BY <4>2, <5>1 DEF NoReplyYet, Free
      <4> QED
        BY <1>1, <4>2, <4>3, <4>4, <4>5, <4>6, <4>7 DEF OneReplyDue
    <3> QED
      BY <1>0, <1>1, <2>4, <3>1, <3>2, <3>3 DEF CommandFits
  <2> QED
    BY <2>7, <2>8, <2>9, <2>10 DEF Session
<1> QED
  BY <1>2, <1>3

LEMMA MaintainNext == ASSUME IInv, MaintainDialog PROVE Session'
<1>0. /\ TypeOK /\ sock \in Sockets /\ todo \in Seq(Inputs)
      /\ SessionDiscipline /\ LoginFits /\ CommandFits
  BY DEF IInv, Session, TypeOK
<1>1. /\ UNCHANGED <<cmd, socketConnected, loggedInToHLR, attempts, onLogin,
                     abandoned, device, ordered, talking, notices, inbox, connects>>
      /\ pc = "maintain" /\ pc' \in {"idle", "killed"} /\ hlrResponse' = <<>>
  BY DEF MaintainDialog, deviceVars, responseUnchanged
<1>2. device \in {"ready", "off"}
  BY <1>0, <1>1 DEF SessionDiscipline, LoginFits
<1>3. UNCHANGED <<sock, todo>> \/ \E outcome \in Outcomes : SendOn(sock, <<"crlf", 0>>, outcome)
  BY DEF MaintainDialog, Send
<1>4. /\ sock' \in Sockets /\ (sock' = "open" <=> sock = "open")
      /\ \/ todo' = todo
         \/ sock = "open" /\ todo' = Append(todo, <<"crlf", 0>>) /\ device \in {"ready", "off"}
  BY <1>0, <1>2, <1>3, SendEffect, InputKinds
<1>5. /\ todo' \in Seq(Inputs)
      /\ GoneHearsNothing'
      /\ device \in {"new", "asking"} => todo' = todo
      /\ \A i \in DOMAIN todo' : todo'[i][1] \in {"attribute", "command"} =>
           i \in DOMAIN todo /\ todo'[i] = todo[i]
  BY <1>4, PlainSent
<1>6. TypeOK'
  <2>1. pc' \in PCs /\ hlrResponse' \in Seq(Pieces)
    BY <1>1 DEF PCs
  <2> QED
    BY <1>0, <1>1, <1>4, <1>5, <2>1 DEF TypeOK
<1>7. SessionDiscipline' /\ LoginFits'
  BY <1>0, <1>1, <1>5 DEF SessionDiscipline, LoginFits
<1>8. CommandFits'
  BY <1>0, <1>1, <1>4, <1>5 DEF CommandFits, NothingDue, NoCommand
<1> QED
  BY <1>5, <1>6, <1>7, <1>8 DEF Session

-----------------------------------------------------------------------------
(* The response. *)

(* The text collected so far, and what is left for it to collect. *)
LEMMA TextKeeps ==
  ASSUME IInv, NEW raw \in Chunks, Recv(raw)
  PROVE  /\ hlrResponse \o Filtered(raw) \in Seq(Pieces)
         /\ Range(hlrResponse \o Filtered(raw)) = Range(hlrResponse) \cup Range(Filtered(raw))
         /\ Range(Filtered(raw)) \subseteq Range(inbox)
         /\ inbox' \in Seq(Pieces) /\ Range(inbox') \subseteq Range(inbox)
         /\ Once(inbox', {"ASK"})
         /\ OneReplyDue =>
              /\ Once(hlrResponse \o Filtered(raw), Replies) /\ Once(inbox', Replies)
              /\ Apart(inbox', hlrResponse \o Filtered(raw), Replies)
<1> DEFINE chunk == Filtered(raw)
<1>0. TypeOK /\ LoginFits /\ hlrResponse \in Seq(Pieces)
  BY DEF IInv, Session, TypeOK
<1>1. /\ chunk \in Seq(Pieces) /\ Range(chunk) \subseteq Range(inbox)
      /\ inbox' \in Seq(Pieces) /\ Range(inbox') \subseteq Range(inbox)
      /\ \A K : Once(inbox, K) => Once(inbox', K) /\ Once(chunk, K) /\ Apart(inbox', chunk, K)
  BY <1>0, ChunkRange, RecvKeeps
<1> HIDE DEF chunk
<1>2. /\ hlrResponse \o chunk \in Seq(Pieces)
      /\ Range(hlrResponse \o chunk) = Range(hlrResponse) \cup Range(chunk)
  BY <1>0, <1>1, ConcatElements, ConcatRange
<1>3. Once(inbox', {"ASK"})
  BY <1>0, <1>1 DEF LoginFits
<1>4. ASSUME OneReplyDue
      PROVE  /\ Once(hlrResponse \o chunk, Replies) /\ Once(inbox', Replies)
             /\ Apart(inbox', hlrResponse \o chunk, Replies)
  <2>1. /\ Once(inbox', Replies) /\ Once(chunk, Replies) /\ Apart(inbox', chunk, Replies)
        /\ Once(hlrResponse, Replies) /\ Apart(inbox, hlrResponse, Replies)
    BY <1>1, <1>4 DEF OneReplyDue
  <2>2. \A i \in DOMAIN chunk, j \in DOMAIN hlrResponse :
          chunk[i][1] \in Replies => chunk[i] # hlrResponse[j]
    <3>1. \A i \in DOMAIN chunk : chunk[i] \in Range(inbox)
      BY <1>1 DEF Range
    <3>2. \A j \in DOMAIN hlrResponse : hlrResponse[j] \in Range(hlrResponse)
      BY DEF Range
    <3> QED
      BY <2>1, <3>1, <3>2 DEF Apart
  <2>3. Once(hlrResponse \o chunk, Replies)
    BY <1>0, <1>1, <2>1, <2>2, ConcatOnce
  <2>4. Apart(inbox', hlrResponse \o chunk, Replies)
    BY <1>1, <1>2, <2>1 DEF Apart
  <2> QED
    BY <2>1, <2>3, <2>4
<1> QED
  BY <1>1, <1>2, <1>3, <1>4 DEF chunk

(* When the reply is found, it was the command's, and nothing more is due. *)
LEMMA ReplyFound ==
  ASSUME IInv, OneReplyDue, NEW raw \in Chunks, Recv(raw), NEW kind \in Replies,
         Finds(hlrResponse \o Filtered(raw), kind),
         sock' = "open" <=> sock = "open", UNCHANGED <<todo, ordered>>
  PROVE  /\ NothingDue'
         /\ \A x \in Range(hlrResponse \o Filtered(raw)) : x[1] = "ANSWER" => x[2] = cmd
<1> DEFINE text == hlrResponse \o Filtered(raw)
<1>1. /\ text \in Seq(Pieces) /\ inbox' \in Seq(Pieces)
      /\ Range(text) \subseteq Range(hlrResponse) \cup Range(inbox)
      /\ Range(inbox') \subseteq Range(inbox)
      /\ Apart(inbox', text, Replies)
  BY TextKeeps
<1>2. Finds(text, kind)
  OBVIOUS
<1> HIDE DEF text
<1>3. PICK k \in Replies : \A x \in Range(inbox) \cup Range(hlrResponse) :
        x[1] \in Replies => x[1] = k /\ x[2] = cmd
  BY DEF OneReplyDue
<1>4. Free(inbox', Replies)
  BY <1>1, <1>2, <1>3, NothingLeft
<1>5. ~NoReplyYet
  <2>1. \E c \in 0 .. MaxCommands : {<<kind, c, 1>>, <<kind, c, 2>>} \subseteq Range(text)
    BY <1>1, <1>2, BothHalves
  <2>2. \E x \in Range(inbox) \cup Range(hlrResponse) : x[1] = kind
    BY <1>1, <2>1
  <2> QED
    BY <2>2 DEF NoReplyYet, Free
<1>6. NothingDue'
  BY <1>4, <1>5 DEF OneReplyDue, NothingDue, NoCommand
<1>7. "ANSWER" \in Replies
  BY DEF Replies
<1> QED
  BY <1>1, <1>3, <1>6, <1>7 DEF text

(* What is common to the ends of a wait: the session's part of the invariant. *)
LEMMA SessionShrinks ==
  ASSUME IInv, UNCHANGED <<loggedInToHLR, device>>, pc = "response",
         Range(inbox') \subseteq Range(inbox), Once(inbox', {"ASK"}),
         device \in {"new", "asking"} => todo' = todo,
         \A i \in DOMAIN todo' : todo'[i][1] \in {"attribute", "command"} =>
           i \in DOMAIN todo /\ todo'[i] = todo[i]
  PROVE  SessionDiscipline' /\ LoginFits'
BY DEF IInv, Session, SessionDiscipline, LoginFits, Free

LEMMA ResponseRecvNext == ASSUME IInv, ResponseRecv PROVE Session'
<1>0. /\ TypeOK /\ sock \in Sockets /\ todo \in Seq(Inputs)
      /\ SessionDiscipline /\ LoginFits /\ CommandFits
  BY DEF IInv, Session, TypeOK
<1> DEFINE Text1(raw) == hlrResponse \o Filtered(raw)
<1>a. PICK raw \in Chunks : \E s \in AfterParse(raw) :
       /\ Recv(raw)
       /\ \/ /\ Finds(Text1(raw), "ANSWER")
             /\ pc' = "maintain"
             /\ hlrResponse' = Text1(raw)
             /\ sock' = s /\ UNCHANGED todo
          \/ /\ Finds(Text1(raw), "REFUSED")
             /\ pc' = "idle"
             /\ hlrResponse' = <<>>
             /\ sock' = s /\ UNCHANGED todo
          \/ /\ hlrResponse' = Text1(raw)
             /\ \/ \E outcome \in Outcomes :
                       /\ SendOn(s, <<"escape", 0>>, outcome)
                       /\ pc' = IF outcome = "killed" THEN "killed" ELSE pc
                \/ sock' = s /\ UNCHANGED <<pc, todo>>
  BY DEF ResponseRecv
<1>b. PICK s \in AfterParse(raw) :
       /\ Recv(raw)
       /\ \/ /\ Finds(Text1(raw), "ANSWER")
             /\ pc' = "maintain"
             /\ hlrResponse' = Text1(raw)
             /\ sock' = s /\ UNCHANGED todo
          \/ /\ Finds(Text1(raw), "REFUSED")
             /\ pc' = "idle"
             /\ hlrResponse' = <<>>
             /\ sock' = s /\ UNCHANGED todo
          \/ /\ hlrResponse' = Text1(raw)
             /\ \/ \E outcome \in Outcomes :
                       /\ SendOn(s, <<"escape", 0>>, outcome)
                       /\ pc' = IF outcome = "killed" THEN "killed" ELSE pc
                \/ sock' = s /\ UNCHANGED <<pc, todo>>
  BY <1>a
<1> DEFINE text == Text1(raw)
<1>1. /\ UNCHANGED <<cmd, socketConnected, loggedInToHLR, attempts, onLogin, device, ordered,
                     talking, notices, connects, abandoned>>
      /\ pc = "response"
  BY DEF ResponseRecv, responseUnchanged, deviceVars
<1>2. s \in Sockets /\ (s = "open" <=> sock = "open")
  BY <1>0, ParseEffect
<1>3. device \in {"ready", "off"}
  BY <1>0, <1>1 DEF SessionDiscipline, LoginFits
<1>4. /\ text \in Seq(Pieces)
      /\ Range(text) \subseteq Range(hlrResponse) \cup Range(inbox)
      /\ inbox' \in Seq(Pieces) /\ Range(inbox') \subseteq Range(inbox)
      /\ Once(inbox', {"ASK"})
      /\ OneReplyDue =>
           /\ Once(text, Replies) /\ Once(inbox', Replies)
           /\ Apart(inbox', text, Replies)
  BY <1>b, TextKeeps
<1>5. /\ sock' \in Sockets /\ (sock' = "open" <=> sock = "open")
      /\ \/ todo' = todo
         \/ sock = "open" /\ todo' = Append(todo, <<"escape", 0>>) /\ device \in {"ready", "off"}
  <2>1. (sock' = s /\ todo' = todo) \/ \E outcome : SendOn(s, <<"escape", 0>>, outcome)
    BY <1>b
  <2> QED
    BY <1>0, <1>2, <1>3, <2>1, SendEffect, InputKinds
<1>6. /\ todo' \in Seq(Inputs)
      /\ GoneHearsNothing'
      /\ device \in {"new", "asking"} => todo' = todo
      /\ \A i \in DOMAIN todo' : todo'[i][1] \in {"attribute", "command"} =>
           i \in DOMAIN todo /\ todo'[i] = todo[i]
  BY <1>5, PlainSent
<1>7. SessionDiscipline' /\ LoginFits'
  BY <1>1, <1>4, <1>6, SessionShrinks
<1>8. CASE /\ Finds(text, "ANSWER") \/ Finds(text, "REFUSED")
           /\ \/ Finds(text, "ANSWER") /\ pc' = "maintain" /\ hlrResponse' = text
              \/ pc' = "idle" /\ hlrResponse' = <<>>
           /\ UNCHANGED todo
  <2>1. TypeOK'
    <3> HIDE DEF text
    <3>1. pc' \in PCs
      BY <1>8 DEF PCs
    <3>2. hlrResponse' \in Seq(Pieces)
      <4>1. <<>> \in Seq(Pieces)
        OBVIOUS
      <4> QED
        BY <1>4, <1>8, <4>1
    <3> QED
      BY <1>0, <1>1, <1>4, <1>5, <1>6, <3>1, <3>2 DEF TypeOK
  <2>2. ASSUME ~abandoned
        PROVE  NothingDue' /\ \A x \in Range(text) : x[1] = "ANSWER" => x[2] = cmd
    <3>1. OneReplyDue
      BY <1>0, <1>1, <2>2 DEF CommandFits
    <3>2. "ANSWER" \in Replies /\ "REFUSED" \in Replies
      BY DEF Replies
    <3> QED
      BY <1>b, <1>1, <1>5, <1>8, <3>1, <3>2, ReplyFound
  <2> HIDE DEF text
  <2>3. CommandFits'
    <3>1. Finds(text, "ANSWER") /\ hlrResponse' = text => Finds(hlrResponse, "ANSWER")'
      BY DEF Finds, At
    <3> QED
      BY <1>1, <1>8, <2>2, <3>1 DEF CommandFits
  <2> QED
    BY <1>6, <1>7, <2>1, <2>3 DEF Session
<1>9. CASE pc' \in {"response", "killed"} /\ hlrResponse' = text
  <2>1. TypeOK'
    <3> HIDE DEF text
    <3>1. pc' \in PCs
      BY <1>9 DEF PCs
    <3>2. hlrResponse' \in Seq(Pieces)
      BY <1>4, <1>9
    <3> QED
      BY <1>0, <1>1, <1>4, <1>5, <1>6, <3>1, <3>2 DEF TypeOK
  <2>2. ASSUME ~abandoned PROVE OneReplyDue'
    <3>1. OneReplyDue
      BY <1>0, <1>1, <2>2 DEF CommandFits
    <3> HIDE DEF text
    <3>2. NoReplyYet => NoReplyYet'
      BY <1>4, <1>9 DEF NoReplyYet, Free
    <3>3. Once(inbox, Replies)' /\ Once(hlrResponse, Replies)' /\ Apart(inbox, hlrResponse, Replies)'
      BY <1>4, <1>9, <3>1
    <3>4. \E kind \in Replies : \A x \in Range(inbox') \cup Range(hlrResponse') :
            x[1] \in Replies => x[1] = kind /\ x[2] = cmd'
      BY <1>1, <1>4, <1>9, <3>1 DEF OneReplyDue
    <3>5. /\ \A i \in DOMAIN todo' : todo'[i][1] = "command" => todo'[i][2] = cmd'
          /\ \A i, j \in DOMAIN todo' :
               todo'[i][1] = "command" /\ todo'[j][1] = "command" => i = j
          /\ NoCommand => NoCommand'
      BY <1>1, <1>6, <3>1 DEF OneReplyDue, NoCommand
    <3>6. /\ NoCommand' \/ (ordered' = 0 /\ NoReplyYet')
          /\ sock' = "open" /\ ordered' # 0 => ordered' = cmd' /\ NoReplyYet'
      BY <1>1, <1>5, <3>1, <3>2, <3>5 DEF OneReplyDue
    <3> QED
      BY <3>3, <3>4, <3>5, <3>6 DEF OneReplyDue
  <2>3. CommandFits'
    BY <1>1, <1>9, <2>2 DEF CommandFits
  <2> QED
    BY <1>6, <1>7, <2>1, <2>3 DEF Session
<1> QED
  BY <1>b, <1>1, <1>8, <1>9

LEMMA ResponseEndsNext ==
  ASSUME IInv, ResponseFails \/ ResponseNegotiates \/ ResponseTimeout \/ ResponseInterrupted
  PROVE  Session'
<1>0. /\ TypeOK /\ sock \in Sockets /\ GoneHearsNothing /\ LoginFits /\ CommandFits
  BY DEF IInv, Session, TypeOK
<1> USE DEF ResponseGivenUp
<1>1. /\ UNCHANGED <<cmd, socketConnected, loggedInToHLR, attempts, onLogin, device, ordered,
                     talking, notices, connects, todo>>
      /\ pc = "response" /\ pc' = "idle" /\ hlrResponse' = <<>>
  BY DEF ResponseFails, ResponseNegotiates, ResponseTimeout, ResponseInterrupted,
         responseUnchanged, deviceVars
<1>2. /\ inbox' \in Seq(Pieces) /\ Range(inbox') \subseteq Range(inbox) /\ Once(inbox', {"ASK"})
  <2>1. CASE ResponseNegotiates
    <3>1. \E raw \in Chunks : Recv(raw)
      BY <2>1 DEF ResponseNegotiates
    <3> QED
      BY <1>0, <3>1, RecvKeeps DEF LoginFits
  <2>2. CASE UNCHANGED inbox
    BY <1>0, <2>2 DEF LoginFits, TypeOK
  <2> QED
    BY <2>1, <2>2 DEF ResponseFails, ResponseTimeout, ResponseInterrupted
<1>3. sock' \in Sockets /\ (sock' = "open" <=> sock = "open")
  <2>1. CASE ResponseNegotiates
    <3>1. \E raw \in Chunks : sock' \in AfterParse(raw)
      BY <2>1 DEF ResponseNegotiates
    <3> QED
      BY <1>0, <3>1, ParseEffect
  <2>2. CASE ResponseFails
    BY <1>0, <2>2 DEF ResponseFails, RecvFails, Sockets
  <2> QED
    BY <1>0, <2>1, <2>2 DEF ResponseTimeout, ResponseInterrupted
<1>4. /\ abandoned' \in BOOLEAN
      /\ ~abandoned' => ~abandoned /\ ResponseFails
  BY <1>0 DEF ResponseFails, ResponseNegotiates, ResponseTimeout, ResponseInterrupted, TypeOK
<1>5. TypeOK'
  <2>1. pc' \in PCs /\ hlrResponse' \in Seq(Pieces)
    BY <1>1 DEF PCs
  <2> QED
    BY <1>0, <1>1, <1>2, <1>3, <1>4, <2>1 DEF TypeOK
<1>6. GoneHearsNothing'
  BY <1>0, <1>1, <1>3 DEF GoneHearsNothing
<1>7. SessionDiscipline' /\ LoginFits'
  BY <1>1, <1>2, SessionShrinks
(* Only a failed recv leaves the command without giving it up, and then the   *)
(* connection is gone, with nothing left in it.                               *)
<1>8. ASSUME ~abandoned' PROVE NothingDue'
  <2>1. sock # "open" /\ inbox = <<>> /\ inbox' = <<>>
    BY <1>4, <1>8 DEF ResponseFails, AtEof, RecvFails
  <2>2. todo' = <<>> /\ sock' # "open" /\ Range(inbox') = {}
    BY <1>0, <1>1, <1>3, <2>1 DEF GoneHearsNothing, Range
  <2> QED
    BY <2>2 DEF NothingDue, NoCommand, Free
<1>9. CommandFits'
  BY <1>1, <1>8 DEF CommandFits
<1> QED
  BY <1>5, <1>6, <1>7, <1>9 DEF Session

(* One more escape. *)
LEMMA ResponseTalkNext == ASSUME IInv, ResponseTalk PROVE Session'
<1>0. /\ TypeOK /\ sock \in Sockets /\ todo \in Seq(Inputs)
      /\ SessionDiscipline /\ LoginFits /\ CommandFits
  BY DEF IInv, Session, TypeOK
<1>1. /\ UNCHANGED <<pc, cmd, socketConnected, loggedInToHLR, attempts, onLogin, hlrResponse,
                     abandoned, device, ordered, talking, notices, connects, inbox>>
      /\ pc = "response"
  BY DEF ResponseTalk, responseUnchanged, deviceVars
<1>2. device \in {"ready", "off"}
  BY <1>0, <1>1 DEF SessionDiscipline, LoginFits
<1>3. SendOn(sock, <<"escape", 0>>, "sent")
  BY DEF ResponseTalk, Send
<1>4. /\ sock' \in Sockets /\ (sock' = "open" <=> sock = "open")
      /\ \/ todo' = todo
         \/ sock = "open" /\ todo' = Append(todo, <<"escape", 0>>) /\ device \in {"ready", "off"}
  BY <1>0, <1>2, <1>3, SendEffect, InputKinds
<1>5. /\ todo' \in Seq(Inputs)
      /\ GoneHearsNothing'
      /\ device \in {"new", "asking"} => todo' = todo
      /\ \A i \in DOMAIN todo' : todo'[i][1] \in {"attribute", "command"} =>
           i \in DOMAIN todo /\ todo'[i] = todo[i]
  BY <1>4, PlainSent
<1>6. TypeOK'
  BY <1>0, <1>1, <1>4, <1>5 DEF TypeOK
<1>7. SessionDiscipline' /\ LoginFits'
  BY <1>0, <1>1, <1>5, SessionShrinks DEF LoginFits
<1>8. ASSUME ~abandoned PROVE OneReplyDue'
  <2>1. OneReplyDue
    BY <1>0, <1>1, <1>8 DEF CommandFits
  <2>2. /\ \A i \in DOMAIN todo' : todo'[i][1] = "command" => todo'[i][2] = cmd'
        /\ \A i, j \in DOMAIN todo' :
             todo'[i][1] = "command" /\ todo'[j][1] = "command" => i = j
        /\ NoCommand => NoCommand'
    BY <1>1, <1>5, <2>1 DEF OneReplyDue, NoCommand
  <2>3. NoReplyYet => NoReplyYet'
    BY <1>1 DEF NoReplyYet
  <2> QED
    BY <1>1, <1>4, <2>1, <2>2, <2>3 DEF OneReplyDue
<1>9. CommandFits'
  BY <1>1, <1>8 DEF CommandFits
<1> QED
  BY <1>5, <1>6, <1>7, <1>9 DEF Session

-----------------------------------------------------------------------------
(* The device. *)

(* It hears the oldest input. *)
Heard == todo # <<>> /\ todo' = Tail(todo)

LEMMA HeardElements ==
  ASSUME todo \in Seq(Inputs), Heard
  PROVE  /\ todo' \in Seq(Inputs)
         /\ Head(todo) = todo[1] /\ 1 \in DOMAIN todo
         /\ Len(todo) \in Nat /\ DOMAIN todo = 1 .. Len(todo)
         /\ Len(todo') = Len(todo) - 1 /\ DOMAIN todo' = 1 .. Len(todo) - 1
         /\ \A i \in DOMAIN todo' : i + 1 \in DOMAIN todo /\ todo'[i] = todo[i + 1]
<1>1. /\ Head(todo) = todo[1] /\ 1 \in DOMAIN todo
      /\ Tail(todo) \in Seq(Inputs)
      /\ Len(todo) \in Nat /\ DOMAIN todo = 1 .. Len(todo) /\ Len(todo) >= 1
      /\ Len(Tail(todo)) = Len(todo) - 1 /\ DOMAIN Tail(todo) = 1 .. Len(todo) - 1
      /\ \A i \in 1 .. Len(todo) - 1 : Tail(todo)[i] = todo[i + 1]
  BY TailElements DEF Heard
<1> QED
  BY <1>1 DEF Heard

LEMMA SaidTypes ==
  ASSUME IInv, NEW text \in Seq(Pieces), Say(text), todo' \in Seq(Inputs),
         device' \in {"new", "asking", "ready", "off"}, ordered' \in 0 .. MaxCommands,
         talking' \in BOOLEAN, notices' \in 0 .. MaxNotices
  PROVE  TypeOK'
<1>1. TypeOK
  BY DEF IInv, Session
<1>2. inbox' \in Seq(Pieces)
  BY <1>1, SayKeeps
<1>3. UNCHANGED <<pc, cmd, socketConnected, loggedInToHLR, attempts, onLogin, hlrResponse,
                  abandoned, sock, connects>>
  BY DEF Say, connectorVars
<1> QED
  BY <1>1, <1>2, <1>3 DEF TypeOK

(* What the device says in a session, a question apart. *)
LEMMA ReadySays ==
  ASSUME IInv, NEW text \in Seq(Pieces), Say(text), todo' = todo \/ Heard,
         device = "ready", device' \in {"ready", "off"},
         Free(text, {"ASK"})
  PROVE  SessionDiscipline' /\ LoginFits'
<1>0. /\ TypeOK /\ todo \in Seq(Inputs) /\ SessionDiscipline /\ LoginFits
  BY DEF IInv, Session, TypeOK
<1>1. UNCHANGED <<pc, loggedInToHLR>>
  BY DEF Say, connectorVars
<1>2. Range(inbox') = Range(inbox) \cup Range(text)
  BY <1>0, SayKeeps
<1>3. \A i \in DOMAIN todo' : todo'[i][1] # "attribute"
  <2>1. \A i \in DOMAIN todo : todo[i][1] # "attribute"
    BY <1>0 DEF SessionDiscipline
  <2> QED
    BY <1>0, <2>1, HeardElements
<1>4. Free(inbox', {"ASK"})
  BY <1>0, <1>2 DEF LoginFits, Free
<1>5. Once(inbox', {"ASK"})
  BY <1>4 DEF Once, Free, Range
<1>6. \A x \in Range(inbox') : x[1] # "ASK"
  BY <1>4 DEF Free
<1> QED
  BY <1>0, <1>1, <1>3, <1>4, <1>5, <1>6 DEF SessionDiscipline, LoginFits

(* What is no reply and follows no command leaves the command's part as it    *)
(* was.                                                                       *)
LEMMA NoReplySaid ==
  ASSUME IInv, NEW text \in Seq(Pieces), Say(text), Free(text, Replies), \A K : Once(text, K),
         todo' = todo \/ Heard, UNCHANGED ordered
  PROVE  CommandFits'
<1>0. /\ TypeOK /\ todo \in Seq(Inputs) /\ CommandFits
  BY DEF IInv, Session, TypeOK
<1>1. UNCHANGED <<pc, cmd, hlrResponse, abandoned, sock>>
  BY DEF Say, connectorVars
<1>2. /\ Range(inbox') = Range(inbox) \cup Range(text)
      /\ Once(inbox, Replies) => Once(inbox', Replies)
  BY <1>0, SayKeeps
<1>3. Free(inbox, Replies) => Free(inbox', Replies)
  BY <1>2 DEF Free
<1>4. /\ \A i \in DOMAIN todo' : \E j \in DOMAIN todo : todo'[i] = todo[j]
      /\ \A i, j \in DOMAIN todo' : i # j =>
           \E k, l \in DOMAIN todo : k # l /\ todo'[i] = todo[k] /\ todo'[j] = todo[l]
  <2>1. CASE todo' = todo
    BY <2>1
  <2>2. CASE Heard
    <3>1. /\ Len(todo) \in Nat /\ DOMAIN todo' = 1 .. Len(todo) - 1
          /\ \A i \in DOMAIN todo' : i + 1 \in DOMAIN todo /\ todo'[i] = todo[i + 1]
      BY <1>0, <2>2, HeardElements
    <3>2. ASSUME NEW i \in DOMAIN todo', NEW j \in DOMAIN todo', i # j
          PROVE  \E k, l \in DOMAIN todo : k # l /\ todo'[i] = todo[k] /\ todo'[j] = todo[l]
      <4>1. i + 1 # j + 1
        BY <3>1, <3>2
      <4> QED
        BY <3>1, <4>1
    <3> QED
      BY <3>1, <3>2
  <2> QED
    BY <2>1, <2>2
<1>5. NoCommand => NoCommand'
  BY <1>4 DEF NoCommand
<1>6. NothingDue => NothingDue'
  BY <1>1, <1>3, <1>5 DEF NothingDue
<1>7. ASSUME OneReplyDue PROVE OneReplyDue'
  <2>1. NoReplyYet => NoReplyYet'
    BY <1>1, <1>3 DEF NoReplyYet
  <2>2. /\ \A i \in DOMAIN todo' : todo'[i][1] = "command" => todo'[i][2] = cmd'
        /\ \A i, j \in DOMAIN todo' :
             todo'[i][1] = "command" /\ todo'[j][1] = "command" => i = j
    <3>1. /\ \A i \in DOMAIN todo : todo[i][1] = "command" => todo[i][2] = cmd
          /\ \A i, j \in DOMAIN todo :
               todo[i][1] = "command" /\ todo[j][1] = "command" => i = j
      BY <1>7 DEF OneReplyDue
    <3>2. ASSUME NEW i \in DOMAIN todo', todo'[i][1] = "command" PROVE todo'[i][2] = cmd
      BY <1>4, <3>1, <3>2
    <3>3. ASSUME NEW i \in DOMAIN todo', NEW j \in DOMAIN todo', i # j,
                 todo'[i][1] = "command", todo'[j][1] = "command"
          PROVE  FALSE
      <4>1. PICK k, l \in DOMAIN todo : k # l /\ todo'[i] = todo[k] /\ todo'[j] = todo[l]
        BY <1>4, <3>3
      <4> QED
        BY <3>1, <3>3, <4>1
    <3> QED
      BY <1>1, <3>2, <3>3
  <2>3. /\ NoCommand' \/ (ordered' = 0 /\ NoReplyYet')
        /\ sock' = "open" /\ ordered' # 0 => ordered' = cmd' /\ NoReplyYet'
    BY <1>1, <1>5, <1>7, <2>1 DEF OneReplyDue
  <2>4. Once(inbox, Replies)' /\ Once(hlrResponse, Replies)'
    BY <1>1, <1>2, <1>7 DEF OneReplyDue
  <2>5. Apart(inbox, hlrResponse, Replies)'
    BY <1>1, <1>2, <1>7 DEF OneReplyDue, Apart, Free
  <2>6. \E kind \in Replies : \A x \in Range(inbox') \cup Range(hlrResponse') :
          x[1] \in Replies => x[1] = kind /\ x[2] = cmd'
    <3>1. PICK k \in Replies : \A x \in Range(inbox) \cup Range(hlrResponse) :
            x[1] \in Replies => x[1] = k /\ x[2] = cmd
      BY <1>7 DEF OneReplyDue
    <3> QED
      BY <1>1, <1>2, <3>1 DEF Free
  <2> QED
    BY <2>2, <2>3, <2>4, <2>5, <2>6 DEF OneReplyDue
<1>8. Finds(hlrResponse, "ANSWER")' <=> Finds(hlrResponse, "ANSWER")
  BY <1>1 DEF Finds, At
<1> QED
  BY <1>0, <1>1, <1>6, <1>7, <1>8 DEF CommandFits

(* The command that the device hears is the one in progress, and the last on  *)
(* its way.                                                                   *)
LEMMA CommandHeard ==
  ASSUME todo \in Seq(Inputs), OneReplyDue, Heard, NEW c, todo[1] = <<"command", c>>
  PROVE  c = cmd /\ NoReplyYet /\ ordered = 0 /\ NoCommand'
<1>1. 1 \in DOMAIN todo
  BY HeardElements
<1>2. c = cmd /\ NoReplyYet /\ ordered = 0
  BY <1>1 DEF OneReplyDue, NoCommand
<1>3. ASSUME NEW i \in DOMAIN todo', todo'[i][1] = "command" PROVE FALSE
  <2>1. i \in Nat /\ i >= 1 /\ i + 1 \in DOMAIN todo /\ todo'[i] = todo[i + 1]
    BY <1>3, HeardElements
  <2>2. i + 1 = 1
    BY <1>1, <1>3, <2>1 DEF OneReplyDue
  <2> QED
    BY <2>1, <2>2
<1> QED
  BY <1>2, <1>3 DEF NoCommand

(* The reply is said when the command was on its way or ordered, and then it  *)
(* is the only one.                                                           *)
LEMMA ReplySaid ==
  ASSUME IInv, NEW text \in Seq(Pieces), Say(text), sock = "open",
         \A K : Once(text, K),
         NEW kind \in Replies,
         NEW c, \A x \in Range(text) : x[1] \in Replies => x[1] = kind /\ x[2] = c,
         todo' = todo \/ Heard,
         ordered' = 0,
         \/ Heard /\ todo[1] = <<"command", c>> /\ ordered = 0
         \/ ordered = c /\ ordered # 0
  PROVE  CommandFits'
<1>0. /\ TypeOK /\ todo \in Seq(Inputs) /\ CommandFits
  BY DEF IInv, Session, TypeOK
<1>1. UNCHANGED <<pc, cmd, hlrResponse, abandoned, sock>>
  BY DEF Say, connectorVars
<1>2. /\ Range(inbox') = Range(inbox) \cup Range(text)
      /\ Once(inbox, Replies) /\ Free(inbox, Replies) => Once(inbox', Replies)
  BY <1>0, SayKeeps
<1>3. Heard => 1 \in DOMAIN todo
  BY <1>0, HeardElements
<1>4. ~NothingDue
  BY <1>3 DEF NothingDue, NoCommand
<1>5. ASSUME OneReplyDue PROVE OneReplyDue'
  <2>1. NoReplyYet /\ c = cmd
    BY <1>3, <1>5 DEF OneReplyDue, NoCommand
  <2>2. NoCommand'
    <3>1. CASE Heard /\ todo[1] = <<"command", c>>
      BY <1>0, <1>5, <3>1, CommandHeard
    <3>2. CASE ordered # 0
      <4>1. NoCommand
        BY <1>5, <3>2 DEF OneReplyDue
      <4> QED
        BY <1>0, <4>1, HeardElements DEF NoCommand
    <3> QED
      BY <3>1, <3>2
  <2>3. Once(inbox, Replies)' /\ Once(hlrResponse, Replies)'
    BY <1>1, <1>2, <1>5, <2>1 DEF OneReplyDue, NoReplyYet
  <2>4. Apart(inbox, hlrResponse, Replies)'
    BY <1>1, <2>1 DEF NoReplyYet, Apart, Free
  <2>5. \A x \in Range(inbox') \cup Range(hlrResponse') :
          x[1] \in Replies => x[1] = kind /\ x[2] = cmd'
    BY <1>1, <1>2, <2>1 DEF NoReplyYet, Free
  <2>6. \A i \in DOMAIN todo' : todo'[i][1] # "command"
    BY <2>2 DEF NoCommand
  <2> QED
    BY <2>2, <2>3, <2>4, <2>5, <2>6 DEF OneReplyDue
<1> QED
  BY <1>0, <1>1, <1>4, <1>5 DEF CommandFits

(* ORDERED is no reply yet. *)
LEMMA OrderedSaid ==
  ASSUME IInv, NEW text \in Seq(Pieces), Say(text), sock = "open",
         \A K : Once(text, K), Free(text, Replies),
         NEW c, Heard, todo[1] = <<"command", c>>, ordered' = c
  PROVE  CommandFits'
<1>0. /\ TypeOK /\ todo \in Seq(Inputs) /\ CommandFits
  BY DEF IInv, Session, TypeOK
<1>1. UNCHANGED <<pc, cmd, hlrResponse, abandoned, sock>>
  BY DEF Say, connectorVars
<1>2. /\ Range(inbox') = Range(inbox) \cup Range(text)
      /\ Once(inbox, Replies) => Once(inbox', Replies)
  BY <1>0, SayKeeps
<1>3. 1 \in DOMAIN todo
  BY <1>0, HeardElements
<1>4. ~NothingDue
  BY <1>3 DEF NothingDue, NoCommand
<1>5. ASSUME OneReplyDue PROVE OneReplyDue'
  <2>1. c = cmd /\ NoReplyYet /\ NoCommand'
    BY <1>0, <1>5, CommandHeard
  <2>2. NoReplyYet'
    BY <1>1, <1>2, <2>1 DEF NoReplyYet, Free
  <2>3. Once(inbox, Replies)' /\ Once(hlrResponse, Replies)'
    BY <1>1, <1>2, <1>5 DEF OneReplyDue
  <2>4. Apart(inbox, hlrResponse, Replies)'
    BY <2>2 DEF NoReplyYet, Apart, Free
  <2>5. \E kind \in Replies : \A x \in Range(inbox') \cup Range(hlrResponse') :
          x[1] \in Replies => x[1] = kind /\ x[2] = cmd'
    <3>1. "ANSWER" \in Replies
      BY DEF Replies
    <3> QED
      BY <2>2, <3>1 DEF NoReplyYet, Free
  <2>6. \A i \in DOMAIN todo' : todo'[i][1] # "command"
    BY <2>1 DEF NoCommand
  <2> QED
    BY <1>1, <2>1, <2>2, <2>3, <2>4, <2>5, <2>6 DEF OneReplyDue
<1> QED
  BY <1>0, <1>1, <1>4, <1>5 DEF CommandFits

LEMMA SaidFits ==
  ASSUME IInv, NEW text, Say(text), sock = "open"
  PROVE  GoneHearsNothing'
BY DEF Say, GoneHearsNothing

(* Before the login is accepted. *)
LEMMA LoginTalkNext == ASSUME IInv, DeviceGreets \/ DeviceLogin PROVE Session'
<1>0. /\ TypeOK /\ todo \in Seq(Inputs) /\ SessionDiscipline /\ LoginFits
      /\ ordered \in 0 .. MaxCommands /\ notices \in 0 .. MaxNotices
      /\ talking \in BOOLEAN
  BY BoundsAssumption DEF IInv, Session, TypeOK
<1>1. /\ 0 \in 0 .. MaxCommands
      /\ {"ASK", "DENIED", "SUCCESS", "PROMPT"} \subseteq Kinds
      /\ \A k \in {"ASK", "DENIED", "SUCCESS", "PROMPT"} : k \notin Replies
  BY BoundsAssumption DEF Kinds, Replies
<1>2. ASSUME NEW text \in Seq(Pieces), Say(text), \A K : Once(text, K), sock = "open",
             \A x \in Range(text) : x[1] \in {"ASK", "DENIED"} /\ x[2] = 0,
             device \in {"new", "asking"}, Free(inbox, {"ASK"}),
             device' = "asking",
             todo' = <<>>, todo' = todo \/ Heard,
             talking' \in BOOLEAN, UNCHANGED <<ordered, notices>>
      PROVE  Session'
  <2>1. TypeOK'
    BY <1>0, <1>2, SaidTypes
  <2>2. GoneHearsNothing'
    BY <1>2, SaidFits
  <2>3. CommandFits'
    <3>1. Free(text, Replies)
      BY <1>1, <1>2 DEF Free
    <3> QED
      BY <1>2, <3>1, NoReplySaid
  <2>4. /\ Range(inbox') = Range(inbox) \cup Range(text)
        /\ Once(inbox', {"ASK"})
    BY <1>0, <1>2, SayKeeps DEF LoginFits
  <2>5. UNCHANGED <<pc, loggedInToHLR>>
    BY <1>2 DEF Say, connectorVars
  <2>6. ~loggedInToHLR
    BY <1>0, <1>2 DEF SessionDiscipline
  <2>7. Len(todo') = 0 /\ DOMAIN todo' = {}
    BY <1>2
  <2>8. SessionDiscipline'
    BY <1>2, <2>5, <2>6, <2>7 DEF SessionDiscipline
  <2>9. LoginFits'
    BY <1>0, <1>2, <2>4, <2>5, <2>7 DEF LoginFits
  <2> QED
    BY <2>1, <2>2, <2>3, <2>8, <2>9 DEF Session
<1>3. CASE DeviceGreets
  <2>1. /\ Text("ASK", 0) \in Seq(Pieces)
        /\ Range(Text("ASK", 0)) = {<<"ASK", 0, 1>>, <<"ASK", 0, 2>>}
        /\ \A K : Once(Text("ASK", 0), K)
    BY <1>1, TextFacts
  <2>2. todo' = <<>> /\ Free(inbox, {"ASK"})
    BY <1>0, <1>3 DEF DeviceGreets, LoginFits
  <2> QED
    BY <1>0, <1>2, <1>3, <2>1, <2>2 DEF DeviceGreets
<1>4. CASE DeviceLogin
  <2>1. Heard /\ sock = "open" /\ device = "asking"
    BY <1>4 DEF DeviceLogin, DeviceHears, Heard
  <2>2. todo' = <<>> /\ Free(inbox, {"ASK"})
    <3>1. Len(todo) <= 1 /\ Len(todo) \in Nat /\ Len(todo) - 1 = Len(todo') /\ todo' \in Seq(Inputs)
          /\ 1 \in DOMAIN todo
      BY <1>0, <2>1, HeardElements DEF LoginFits
    <3>2. Len(todo') = 0
      BY <1>0, <3>1
    <3>3. todo # <<>>
      BY <2>1 DEF Heard
    <3> QED
      BY <1>0, <2>1, <3>1, <3>2, <3>3 DEF LoginFits
  <2>3. UNCHANGED <<ordered, notices>>
    BY <1>4 DEF DeviceLogin
  <2>4. CASE Say(Text("ASK", 0)) /\ device' = device /\ talking' \in BOOLEAN
    <3>1. /\ Text("ASK", 0) \in Seq(Pieces)
          /\ Range(Text("ASK", 0)) = {<<"ASK", 0, 1>>, <<"ASK", 0, 2>>}
          /\ \A K : Once(Text("ASK", 0), K)
      BY <1>1, TextFacts
    <3> QED
      BY <1>2, <2>1, <2>2, <2>3, <2>4, <3>1
  <2>5. CASE Say(Text("DENIED", 0) \o Text("ASK", 0)) /\ device' = device /\ talking' \in BOOLEAN
    <3> DEFINE text == Text("DENIED", 0) \o Text("ASK", 0)
    <3>1. /\ text \in Seq(Pieces)
          /\ Range(text) =
               {<<"DENIED", 0, 1>>, <<"DENIED", 0, 2>>, <<"ASK", 0, 1>>, <<"ASK", 0, 2>>}
          /\ \A K : Once(text, K)
      BY <1>1, TwoTexts
    <3>2. Say(text)
      BY <2>5
    <3> HIDE DEF text
    <3>3. \A x \in Range(text) : x[1] \in {"ASK", "DENIED"} /\ x[2] = 0
      BY <3>1
    <3> QED
      BY <1>2, <2>1, <2>2, <2>3, <2>5, <3>1, <3>2, <3>3
  <2>6. CASE Say(Text("DENIED", 0)) /\ device' = device /\ talking' \in BOOLEAN
    <3>1. /\ Text("DENIED", 0) \in Seq(Pieces)
          /\ Range(Text("DENIED", 0)) = {<<"DENIED", 0, 1>>, <<"DENIED", 0, 2>>}
          /\ \A K : Once(Text("DENIED", 0), K)
      BY <1>1, TextFacts
    <3> QED
      BY <1>2, <2>1, <2>2, <2>3, <2>6, <3>1
  <2>7. CASE Say(Text("SUCCESS", 0) \o Text("PROMPT", 0)) /\ device' = "ready" /\ UNCHANGED talking
    <3> DEFINE text == Text("SUCCESS", 0) \o Text("PROMPT", 0)
    <3>1. /\ text \in Seq(Pieces)
          /\ Range(text) =
               {<<"SUCCESS", 0, 1>>, <<"SUCCESS", 0, 2>>, <<"PROMPT", 0, 1>>, <<"PROMPT", 0, 2>>}
          /\ \A K : Once(text, K)
      BY <1>1, TwoTexts
    <3>2. Say(text)
      BY <2>7
    <3> HIDE DEF text
    <3>3. Free(text, Replies) /\ Free(text, {"ASK"})
      BY <1>1, <3>1 DEF Free
    <3>4. TypeOK'
      BY <1>0, <2>1, <2>2, <2>3, <2>7, <3>1, <3>2, SaidTypes
    <3>5. GoneHearsNothing' /\ CommandFits'
      BY <2>1, <2>3, <3>1, <3>2, <3>3, SaidFits, NoReplySaid
    <3>6. Range(inbox') = Range(inbox) \cup Range(text)
      BY <1>0, <3>1, <3>2, SayKeeps
    <3>7. Free(inbox', {"ASK"}) /\ Once(inbox', {"ASK"})
      BY <2>2, <3>3, <3>6 DEF Free, Once, Range
    <3>8. UNCHANGED <<pc, loggedInToHLR>> /\ DOMAIN todo' = {} /\ Len(todo') = 0
      BY <2>2, <3>2 DEF Say, connectorVars
    <3>9. SessionDiscipline' /\ LoginFits'
      <4>1. \A x \in Range(inbox') : x[1] # "ASK"
        BY <3>7 DEF Free
      <4> QED
        BY <1>0, <2>7, <3>7, <3>8, <4>1 DEF SessionDiscipline, LoginFits
    <3> QED
      BY <3>4, <3>5, <3>9 DEF Session
  <2> QED
    BY <1>0, <1>4, <2>4, <2>5, <2>6, <2>7 DEF DeviceLogin
<1> QED
  BY <1>3, <1>4

(* In the session. *)
LEMMA SessionTalkNext ==
  ASSUME IInv, DeviceCommand \/ DeviceEscape \/ DeviceCrlf \/ DeviceNotice
  PROVE  Session'
<1>0. /\ TypeOK /\ todo \in Seq(Inputs) /\ CommandGiven
      /\ ordered \in 0 .. MaxCommands /\ notices \in 0 .. MaxNotices
      /\ talking \in BOOLEAN /\ MaxNotices \in Nat
  BY BoundsAssumption DEF IInv, Session, TypeOK
<1>1. /\ 0 \in 0 .. MaxCommands
      /\ {"ANSWER", "PROMPT", "REFUSED", "ORDERED", "TIME OUT", "LOGGED OFF"} \subseteq Kinds
      /\ Replies = {"ANSWER", "REFUSED"}
  BY BoundsAssumption DEF Kinds, Replies
(* Every device step says one or two phrases. *)
<1>2. ASSUME NEW text \in Seq(Pieces), Say(text), \A K : Once(text, K), sock = "open",
             \A x \in Range(text) : x[1] # "ASK",
             device = "ready", device' \in {"ready", "off"}, todo' = todo \/ Heard,
             ordered' \in 0 .. MaxCommands, notices' \in 0 .. MaxNotices,
             UNCHANGED talking, CommandFits'
      PROVE  Session'
  <2>1. TypeOK'
    <3>1. todo' \in Seq(Inputs)
      BY <1>0, <1>2, HeardElements
    <3> QED
      BY <1>0, <1>2, <3>1, SaidTypes
  <2>2. Free(text, {"ASK"})
    BY <1>2 DEF Free
  <2> QED
    BY <1>2, <2>1, <2>2, SaidFits, ReadySays DEF Session
<1>3. ASSUME NEW kind \in Kinds, NEW c \in 0 .. MaxCommands
      PROVE  /\ Text(kind, c) \in Seq(Pieces) /\ \A K : Once(Text(kind, c), K)
             /\ \A x \in Range(Text(kind, c)) : x[1] = kind /\ x[2] = c
  BY TextFacts
<1>4. ASSUME NEW kind \in Kinds \ {"PROMPT"}, NEW c \in 0 .. MaxCommands
      PROVE  /\ Text(kind, c) \o Text("PROMPT", 0) \in Seq(Pieces)
             /\ \A K : Once(Text(kind, c) \o Text("PROMPT", 0), K)
             /\ \A x \in Range(Text(kind, c) \o Text("PROMPT", 0)) :
                  (x[1] = kind /\ x[2] = c) \/ x[1] = "PROMPT"
  <2>1. kind \in Kinds /\ kind # "PROMPT" /\ "PROMPT" \in Kinds /\ 0 \in 0 .. MaxCommands
    BY <1>1, BoundsAssumption
  <2> DEFINE text == Text(kind, c) \o Text("PROMPT", 0)
  <2>2. /\ text \in Seq(Pieces)
        /\ \A K : Once(text, K)
        /\ \A x \in Range(text) : (x[1] = kind /\ x[2] = c) \/ x[1] = "PROMPT"
    BY <2>1, TwoTexts
  <2> QED
    BY <2>2
<1>5. CASE DeviceCommand
  <2> DEFINE c == Head(todo)[2]
  <2>1. /\ Heard /\ sock = "open" /\ device = "ready" /\ ordered = 0
        /\ Head(todo)[1] = "command"
        /\ UNCHANGED <<device, talking, notices>>
    BY <1>5 DEF DeviceCommand, DeviceHears, Heard
  <2>2. /\ todo[1] = <<"command", c>> /\ c \in Commands /\ c \in 0 .. MaxCommands
    <3>1. Head(todo) = todo[1] /\ todo[1] \in Inputs
      BY <1>0, <2>1, HeardElements
    <3>2. \E d \in Commands : todo[1] = <<"command", d>>
      BY <2>1, <3>1 DEF Inputs
    <3> QED
      BY <3>1, <3>2, BoundsAssumption DEF Commands
  <2> HIDE DEF c
  <2>3. \/ /\ \/ Say(Text("ANSWER", c) \o Text("PROMPT", 0))
              \/ Say(Text("ANSWER", c))
              \/ Say(Text("REFUSED", c) \o Text("PROMPT", 0))
           /\ UNCHANGED ordered
        \/ /\ Say(Text("ORDERED", c))
           /\ ordered' = c
    BY <1>5 DEF DeviceCommand, c
  <2>4. ASSUME NEW text \in Seq(Pieces), Say(text), \A K : Once(text, K),
               NEW kind \in Replies,
               \A x \in Range(text) : (x[1] = kind /\ x[2] = c) \/ x[1] = "PROMPT",
               UNCHANGED ordered
        PROVE  Session'
    <3>1. \A x \in Range(text) : x[1] # "ASK"
      BY <1>1, <2>4
    <3>2. \A x \in Range(text) : x[1] \in Replies => x[1] = kind /\ x[2] = c
      BY <1>1, <2>4
    <3>3. CommandFits'
      BY <2>1, <2>2, <2>4, <3>2, ReplySaid
    <3> QED
      BY <1>0, <1>2, <2>1, <2>4, <3>1, <3>3
  <2>5. CASE Say(Text("ORDERED", c)) /\ ordered' = c
    <3> DEFINE text == Text("ORDERED", c)
    <3>1. /\ text \in Seq(Pieces) /\ \A K : Once(text, K)
          /\ \A x \in Range(text) : x[1] = "ORDERED"
      BY <1>1, <1>3, <2>2
    <3>2. Say(text)
      BY <2>5
    <3> HIDE DEF text
    <3>3. CommandFits'
      BY <1>1, <2>1, <2>2, <2>5, <3>1, <3>2, OrderedSaid DEF Free
    <3> QED
      BY <1>0, <1>2, <2>1, <2>2, <2>5, <3>1, <3>2, <3>3
  <2>6. "ANSWER" \in Replies /\ "REFUSED" \in Replies
    BY <1>1
  <2>7. CASE UNCHANGED ordered /\ Say(Text("ANSWER", c) \o Text("PROMPT", 0))
    <3>1. "ANSWER" \in Kinds \ {"PROMPT"}
      BY <1>1
    <3> QED
      BY <1>4, <2>2, <2>4, <2>6, <2>7, <3>1
  <2>8. CASE UNCHANGED ordered /\ Say(Text("REFUSED", c) \o Text("PROMPT", 0))
    <3>1. "REFUSED" \in Kinds \ {"PROMPT"}
      BY <1>1
    <3> QED
      BY <1>4, <2>2, <2>4, <2>6, <2>8, <3>1
  <2>9. CASE UNCHANGED ordered /\ Say(Text("ANSWER", c))
    <3>1. "ANSWER" \in Kinds
      BY <1>1
    <3> QED
      BY <1>3, <2>2, <2>4, <2>6, <2>9, <3>1
  <2> QED
    BY <2>3, <2>5, <2>7, <2>8, <2>9
<1>6. CASE DeviceEscape
  <2>1. /\ Heard /\ sock = "open" /\ device = "ready" /\ ordered' = 0
        /\ UNCHANGED <<device, talking, notices>>
    BY <1>6 DEF DeviceEscape, DeviceHears, Heard
  <2>2. CASE ordered = 0
    <3>1. Say(<<>>) /\ <<>> \in Seq(Pieces) /\ Range(<<>>) = {} /\ \A K : Once(<<>>, K)
      BY <1>6, <2>2 DEF DeviceEscape, Range, Once
    <3>2. Free(<<>>, Replies) /\ \A x \in Range(<<>>) : x[1] # "ASK"
      BY <3>1 DEF Free
    <3>3. CommandFits'
      BY <2>1, <2>2, <3>1, <3>2, NoReplySaid
    <3> QED
      BY <1>0, <1>1, <1>2, <2>1, <3>1, <3>2, <3>3
  <2>3. CASE ordered # 0
    <3> DEFINE text == Text("ANSWER", ordered) \o Text("PROMPT", 0)
    <3>1. "ANSWER" \in Kinds \ {"PROMPT"} /\ "ANSWER" \in Replies
      BY <1>1
    <3>2. /\ text \in Seq(Pieces) /\ \A K : Once(text, K)
          /\ \A x \in Range(text) : (x[1] = "ANSWER" /\ x[2] = ordered) \/ x[1] = "PROMPT"
      BY <1>0, <1>4, <3>1
    <3>3. Say(text)
      BY <1>6, <2>3 DEF DeviceEscape
    <3> HIDE DEF text
    <3>4. /\ \A x \in Range(text) : x[1] # "ASK"
          /\ \A x \in Range(text) : x[1] \in Replies => x[1] = "ANSWER" /\ x[2] = ordered
      BY <1>1, <3>2
    <3>5. CommandFits'
      BY <2>1, <2>3, <3>1, <3>2, <3>3, <3>4, ReplySaid
    <3> QED
      BY <1>0, <1>1, <1>2, <2>1, <3>2, <3>3, <3>4, <3>5
  <2> QED
    BY <2>2, <2>3
<1>7. ASSUME NEW kind \in {"PROMPT", "TIME OUT", "LOGGED OFF"}, Say(Text(kind, 0)),
             sock = "open", device = "ready", device' \in {"ready", "off"},
             todo' = todo \/ Heard, notices' \in 0 .. MaxNotices,
             UNCHANGED <<ordered, talking>>
      PROVE  Session'
  <2>1. kind \in Kinds /\ kind \notin Replies /\ kind # "ASK"
    BY <1>1, <1>7
  <2>2. /\ Text(kind, 0) \in Seq(Pieces) /\ \A K : Once(Text(kind, 0), K)
        /\ \A x \in Range(Text(kind, 0)) : x[1] = kind
    BY <1>1, <1>3, <2>1
  <2>3. Free(Text(kind, 0), Replies) /\ \A x \in Range(Text(kind, 0)) : x[1] # "ASK"
    BY <2>1, <2>2 DEF Free
  <2>4. CommandFits'
    BY <1>7, <2>2, <2>3, NoReplySaid
  <2> QED
    BY <1>0, <1>2, <1>7, <2>2, <2>3, <2>4
<1>8. CASE DeviceCrlf
  <2>1. /\ Heard /\ sock = "open" /\ device = "ready" /\ Say(Text("PROMPT", 0))
        /\ UNCHANGED <<device, ordered, talking, notices>>
    BY <1>8 DEF DeviceCrlf, DeviceHears, Heard
  <2> QED
    BY <1>0, <1>7, <2>1
<1>9. CASE DeviceNotice
  <2>1. /\ sock = "open" /\ device = "ready" /\ notices' \in 0 .. MaxNotices
        /\ UNCHANGED <<ordered, talking, todo>>
        /\ \/ Say(Text("TIME OUT", 0)) /\ UNCHANGED device
           \/ Say(Text("LOGGED OFF", 0)) /\ device' = "off"
    <3>1. notices < MaxNotices /\ notices' = notices + 1
      BY <1>9 DEF DeviceNotice
    <3>2. notices' \in 0 .. MaxNotices
      BY <1>0, <3>1, BoundsAssumption
    <3> QED
      BY <1>9, <3>2 DEF DeviceNotice
  <2> QED
    BY <1>7, <2>1
<1> QED
  BY <1>5, <1>6, <1>8, <1>9

LEMMA NegotiatesNext == ASSUME IInv, DeviceNegotiates PROVE Session'
<1>0. /\ TypeOK /\ todo \in Seq(Inputs) /\ SessionDiscipline /\ LoginFits
      /\ ordered \in 0 .. MaxCommands /\ notices \in 0 .. MaxNotices
      /\ talking \in BOOLEAN /\ MaxNotices \in Nat
      /\ device \in {"new", "asking", "ready", "off"}
  BY BoundsAssumption DEF IInv, Session, TypeOK
<1> DEFINE text == <<Negotiation>>
<1>1. /\ text \in Seq(Pieces)
      /\ \A x \in Range(text) : x[1] = "NEGOTIATION"
      /\ \A K : Once(text, K)
  BY NegotiationFacts DEF Negotiation
<1>2. /\ sock = "open" /\ Say(text) /\ UNCHANGED <<device, ordered, talking, todo>>
      /\ notices' \in 0 .. MaxNotices
  BY <1>0 DEF DeviceNegotiates
<1> HIDE DEF text
<1>3. Free(text, Replies) /\ Free(text, {"ASK"})
  BY <1>1 DEF Free, Replies
<1>4. TypeOK'
  BY <1>0, <1>1, <1>2, SaidTypes
<1>5. GoneHearsNothing' /\ CommandFits'
  BY <1>1, <1>2, <1>3, SaidFits, NoReplySaid
<1>6. UNCHANGED <<pc, loggedInToHLR>>
  BY <1>2 DEF Say, connectorVars
<1>7. /\ Range(inbox') = Range(inbox) \cup Range(text)
      /\ Once(inbox', {"ASK"})
  BY <1>0, <1>1, <1>2, <1>3, SayKeeps DEF LoginFits
<1>8. SessionDiscipline' /\ LoginFits'
  BY <1>0, <1>1, <1>2, <1>6, <1>7 DEF SessionDiscipline, LoginFits, Free
<1> QED
  BY <1>4, <1>5, <1>8 DEF Session

LEMMA HangsUpNext == ASSUME IInv, DeviceHangsUp PROVE Session'
<1>0. TypeOK /\ SessionDiscipline /\ LoginFits /\ CommandFits
  BY DEF IInv, Session
<1>1. /\ sock = "open" /\ sock' \in {"eof", "reset"} /\ todo' = <<>> /\ talking' = FALSE
      /\ UNCHANGED <<pc, cmd, socketConnected, loggedInToHLR, attempts, onLogin, hlrResponse,
                     abandoned, device, ordered, notices, inbox, connects>>
  BY DEF DeviceHangsUp, connectorVars, deviceVars
<1>2. TypeOK'
  <2>1. sock' \in Sockets /\ todo' \in Seq(Inputs)
    BY <1>1 DEF Sockets
  <2> QED
    BY <1>0, <1>1, <2>1 DEF TypeOK
<1>3. Len(todo') = 0 /\ DOMAIN todo' = {} /\ NoCommand'
  BY <1>1 DEF NoCommand
<1>4. GoneHearsNothing' /\ SessionDiscipline' /\ LoginFits'
  BY <1>0, <1>1, <1>3 DEF GoneHearsNothing, SessionDiscipline, LoginFits
<1>5. NothingDue => NothingDue'
  BY <1>1, <1>3 DEF NothingDue
<1>6. OneReplyDue => OneReplyDue'
  BY <1>1, <1>3 DEF OneReplyDue, NoReplyYet
<1>7. CommandFits'
  BY <1>0, <1>1, <1>5, <1>6 DEF CommandFits, Finds, At
<1> QED
  BY <1>2, <1>4, <1>7 DEF Session

LEMMA TalksNext == ASSUME IInv, DeviceTalks PROVE Session'
<1>0. TypeOK /\ inbox \in Seq(Pieces)
  BY DEF IInv, Session, TypeOK
<1>1. /\ UNCHANGED <<pc, cmd, socketConnected, loggedInToHLR, attempts, onLogin, hlrResponse,
                     abandoned, device, ordered, notices, connects, inbox, todo, sock>>
      /\ talking' \in BOOLEAN
  <2>1. inbox \o <<>> = inbox
    BY <1>0
  <2> QED
    BY <2>1 DEF DeviceTalks, Say, connectorVars
<1>2. TypeOK'
  BY <1>0, <1>1 DEF TypeOK
<1>3. GoneHearsNothing' /\ SessionDiscipline' /\ LoginFits'
  BY <1>1 DEF IInv, Session, GoneHearsNothing, SessionDiscipline, LoginFits
<1>4. CommandFits'
  BY <1>1 DEF IInv, Session, CommandFits, NothingDue, OneReplyDue, NoCommand, NoReplyYet,
              Finds, At
<1> QED
  BY <1>2, <1>3, <1>4 DEF Session

-----------------------------------------------------------------------------
LEMMA GivenNext == IInv /\ [Next]_vars => CommandGiven'
<1> SUFFICES ASSUME IInv, [Next]_vars PROVE CommandGiven'
  OBVIOUS
<1>0. CommandGiven /\ cmd \in 0 .. MaxCommands /\ onLogin \in {"none", "peek", "check"}
  BY DEF IInv, Session, TypeOK
<1> USE DEF connectorVars, deviceVars, loginUnchanged, responseUnchanged
<1>1. CASE Call
  <2>1. cmd' \in Commands
    BY <1>0, <1>1, BoundsAssumption DEF Call, Commands
  <2> QED
    BY <2>1 DEF CommandGiven
<1>2. CASE Initialize
  BY <1>0, <1>2 DEF Initialize, CreateSocketAndConnect, CommandGiven
<1>3. CASE LoginRecv
  <2>1. /\ UNCHANGED <<cmd, onLogin>>
        /\ AttemptFails \/ LoginSucceeds \/ pc' = pc \/ pc' = "killed"
    BY <1>3 DEF LoginRecv
  <2> QED
    BY <1>0, <1>3, <2>1 DEF LoginRecv, AttemptFails, LoginSucceeds, CommandGiven
<1>4. CASE LoginRecvFails \/ LoginTimeout \/ LoginInterrupted
  BY <1>0, <1>4 DEF LoginRecvFails, LoginTimeout, LoginInterrupted, AttemptFails, CommandGiven
<1>5. CASE Restore \/ PeekFails \/ PeekLoggedOff
  BY <1>0, <1>5
  DEF Restore, PeekFails, PeekLoggedOff, Reconnect, CreateSocketAndConnect, CommandGiven
<1>6. CASE PeekNothing \/ PeekText \/ RefusalKills \/ SendCommand
  <2>1. UNCHANGED <<cmd, onLogin>> /\ (pc' = "killed" \/ pc \in {"peek", "check"})
    BY <1>6 DEF PeekNothing, PeekText, RefusalKills, SendCommand
  <2> QED
    BY <1>0, <2>1 DEF CommandGiven
<1>7. CASE \/ ResponseRecv \/ ResponseTalk \/ ResponseNegotiates \/ ResponseFails
           \/ ResponseTimeout \/ ResponseInterrupted \/ MaintainDialog
  <2>1. UNCHANGED <<cmd, onLogin>> /\ pc \in {"response", "maintain"}
    BY <1>7 DEF ResponseRecv, ResponseTalk, ResponseNegotiates, ResponseFails, ResponseTimeout,
                ResponseInterrupted, ResponseGivenUp, MaintainDialog
  <2> QED
    BY <1>0, <2>1 DEF CommandGiven
<1>8. CASE DeviceStep \/ UNCHANGED vars
  <2>1. UNCHANGED <<pc, cmd, onLogin>>
    BY <1>8 DEF DeviceStep, DeviceGreets, DeviceLogin, DeviceCommand, DeviceEscape, DeviceCrlf,
                DeviceNotice, DeviceNegotiates, DeviceTalks, DeviceHangsUp, Say, vars
  <2> QED
    BY <1>0, <2>1 DEF CommandGiven
<1> QED
  BY <1>1, <1>2, <1>3, <1>4, <1>5, <1>6, <1>7, <1>8 DEF Next, ConnectorStep, Interrupted

LEMMA IInvAlways == Spec => []IInv
<1>1. IInv /\ [Next]_vars => Session'
  <2> SUFFICES ASSUME IInv, [Next]_vars PROVE Session'
    OBVIOUS
  <2>1. CASE UNCHANGED vars
    <3>1. UNCHANGED <<pc, cmd, socketConnected, loggedInToHLR, attempts, onLogin, hlrResponse,
                      abandoned, device, ordered, talking, notices, connects, sock, inbox, todo>>
      BY <2>1 DEF vars, connectorVars, deviceVars
    <3>2. TypeOK'
      BY <3>1 DEF IInv, Session, TypeOK
    <3>3. GoneHearsNothing' /\ SessionDiscipline' /\ LoginFits'
      BY <3>1 DEF IInv, Session, GoneHearsNothing, SessionDiscipline, LoginFits
    <3>4. CommandFits'
      BY <3>1 DEF IInv, Session, CommandFits, NothingDue, OneReplyDue, NoCommand, NoReplyYet,
                  Finds, At
    <3> QED
      BY <3>2, <3>3, <3>4 DEF Session
  <2>2. CASE Next
    <3>1. ConnectorStep \/ Call \/ Interrupted \/ DeviceStep
      BY <2>2 DEF Next
    <3>2. CASE ConnectorStep \/ Call \/ Interrupted
      <4>1. Restore => (Restore /\ socketConnected) \/ (Restore /\ ~socketConnected)
        OBVIOUS
      <4> QED
        BY <3>2, <4>1, ControlNext, ReconnectNext, LoginRecvNext, PeekTextNext, SendCommandNext,
           MaintainNext, ResponseRecvNext, ResponseTalkNext, ResponseEndsNext
        DEF ConnectorStep, Interrupted
    <3>3. CASE DeviceStep
      BY <3>3, LoginTalkNext, SessionTalkNext, NegotiatesNext, TalksNext, HangsUpNext DEF DeviceStep
    <3> QED
      BY <3>1, <3>2, <3>3
  <2> QED
    BY <2>1, <2>2
<1>2. IInv /\ [Next]_vars => IInv'
  BY <1>1, GivenNext DEF IInv
<1> QED
  BY <1>2, InitIInv, PTL DEF Spec

(* The connector, its socket and the device keep their types, whatever TCP    *)
(* cuts and whatever the device says.                                         *)
THEOREM TypeCorrect == Spec => []TypeOK
<1>1. IInv => TypeOK
  BY DEF IInv, Session
<1> QED
  BY <1>1, IInvAlways, PTL

(* LoginToHLR answers each of the device's questions once and sends nothing   *)
(* else before the device has accepted the login; ProcessCommand sends only   *)
(* on such a session; over any number of reconnections.                       *)
THEOREM SessionIsDisciplined == Spec => []SessionDiscipline
<1>1. IInv => SessionDiscipline
  BY DEF IInv, Session
<1> QED
  BY <1>1, IInvAlways, PTL

(* ProcessDeviceResponse returns the answer to the command that ProcessCommand *)
(* sent, however often the connection was lost, unless an earlier command was *)
(* given up on the connection.                                                *)
THEOREM AnswerMatches == Spec => []AnswerIsForCommand
<1>1. ASSUME IInv PROVE AnswerIsForCommand
  <2> SUFFICES ASSUME pc = "maintain", ~abandoned PROVE Answered(hlrResponse) = cmd
    BY DEF AnswerIsForCommand
  <2>1. /\ hlrResponse \in Seq(Pieces)
        /\ Finds(hlrResponse, "ANSWER")
        /\ \A x \in Range(hlrResponse) : x[1] = "ANSWER" => x[2] = cmd
    BY <1>1 DEF IInv, Session, TypeOK, CommandFits
  <2> QED
    BY <2>1, AnsweredIs
<1> QED
  BY <1>1, IInvAlways, PTL

=============================================================================
