--------------------------- MODULE TelnetParseProofs ---------------------------
(***************************************************************************)
(* What is proved about TelnetParse: the index stays in the buffer, and    *)
(* what comes out of the filter is the text that was sent, for any items,  *)
(* however many, cut anywhere.  The invariant says how far the loop is in  *)
(* what the device sends, item by item.                                    *)
(***************************************************************************)
EXTENDS TelnetParse, SequenceLemmas

(* What the device sends, as bytes, and the bytes of its first n items.       *)
Stream  == FlattenSeq(items)
Sent(n) == FlattenSeq(SubSeq(items, 1, n))

(* The text and the refusals that these should leave.                         *)
TextItems  == [n \in DOMAIN items |-> TextOf(n)]
ReplyItems == [n \in DOMAIN items |-> ReplyOf(n)]
Out(n)     == FlattenSeq(SubSeq(TextItems, 1, n))
Refused(n) == FlattenSeq(SubSeq(ReplyItems, 1, n))

Refusals == {"IAC"} \X {"DONT", "WONT"} \X Bytes

Typing ==
  /\ items \in Inputs
  /\ cut \in 0 .. Len(Stream)
  /\ rest \in Seq(Bytes) /\ text \in Seq(Bytes) /\ recvbuf \in Seq(Bytes)
  /\ rest # <<>> => rest = SubSeq(Stream, cut + 1, Len(Stream)) /\ text = <<>>
  /\ i \in 0 .. Len(recvbuf)
  /\ getrq \in Seq(Bytes)
  /\ eat_chars = Len(getrq) /\ Len(getrq) <= i
  /\ replies \in Seq(Refusals)

(* The second buffer, which begins after the cut. *)
Second == rest = <<>> /\ cut < Len(Stream)
Limit  == IF rest = <<>> THEN Len(Stream) ELSE cut

(* The next byte is the one behind the first p of them. *)
InPlace(p) ==
  /\ Len(recvbuf) - i = Limit - p
  /\ \A j \in 1 .. Limit - p : recvbuf[i + j] = Stream[p + j]
  /\ Second => cut <= p

Began(n, k) == IF k = 0 THEN <<>> ELSE SubSeq(items[n + 1], 1, k)

(* What the filter has let through, and what that should be. *)
Left          == text \o SubSeq(recvbuf, 1, i)
Reached(n, k) == Out(n) \o Began(n, k)

(* The loop has n items behind it, and k bytes of the next one, which it      *)
(* collects, or, behind the cut, takes for text.                              *)
At(n, k) ==
  /\ IF n = Len(items) THEN k = 0 ELSE k < Len(items[n + 1])
  /\ InPlace(Len(Sent(n)) + k)
  /\ Left = Reached(n, k)
  /\ getrq = IF Second /\ CutIn(n + 1) THEN <<>> ELSE Began(n, k)
  /\ replies = Refused(n)

Position == \E n \in 0 .. Len(items) : \E k \in 0 .. 2 : At(n, k)

Inv == Typing /\ (Regular => Position)

(* Options that the filter can tell from the rest of a negotiation: a zero    *)
(* byte it takes for text, and a second half that is an IAC for a command.    *)
OptionsFit == Zero \notin Options /\ "IAC" \notin Options

-----------------------------------------------------------------------------
(* What is sent. *)

LEMMA ItemBytes ==
  ASSUME NEW item \in Items
  PROVE  /\ item \in Seq(Bytes) /\ Len(item) \in 1 .. 3
         /\ Len(item) = 1 => item[1] = "a" \/ item[1] = Zero
         /\ Len(item) = 2 => /\ item[1] = "IAC"
                            /\ \/ item[2] = "NOP"
                               \/ item[2] = "IAC" /\ item = <<"IAC", "IAC">>
                               \/ item = Unknown
         /\ Len(item) = 3 => item[1] = "IAC" /\ item[2] \in Verbs /\ item[3] \in Options
         /\ Len(item) # 2 => item # <<"IAC", "IAC">>
<1>1. ASSUME NEW j \in DOMAIN item PROVE item[j] \in Bytes
  <2> DEFINE bytes == {item[n] : n \in DOMAIN item}
  <2>1. item[j] \in bytes
    OBVIOUS
  <2>2. bytes \in {{other[n] : n \in DOMAIN other} : other \in Items}
    OBVIOUS
  <2> HIDE DEF bytes
  <2> QED BY <2>1, <2>2 DEF Bytes
<1>2. CASE item \in Text
  BY <1>1, <1>2 DEF Text
<1>3. CASE item = <<"IAC", "NOP">>
  BY <1>1, <1>3
<1>4. CASE item = <<"IAC", "IAC">>
  BY <1>1, <1>4
<1>5. CASE item = Unknown
  BY <1>1, <1>5 DEF Unknown
<1>6. CASE item \in Negotiation
  <2>1. PICK verb \in Verbs, opt \in Options : item = <<"IAC", verb, opt>>
    BY <1>6 DEF Negotiation
  <2> QED BY <1>1, <2>1
<1> QED BY <1>2, <1>3, <1>4, <1>5, <1>6 DEF Items

LEMMA InputBytes ==
  ASSUME items \in Inputs
  PROVE  /\ Len(items) \in Nat /\ DOMAIN items = 1 .. Len(items)
         /\ items \in Seq(Seq(Bytes))
         /\ \A n \in 1 .. Len(items) : items[n] \in Items
<1>1. PICK n \in 0 .. MaxItems : items \in [1 .. n -> Items]
  BY DEF Inputs
<1>2. Len(items) = n /\ n \in Nat /\ items \in Seq(Items)
  BY <1>1, ItemsAssumption
<1>3. \A m \in 1 .. n : items[m] \in Seq(Bytes)
  BY <1>1, ItemBytes
<1> QED BY <1>1, <1>2, <1>3

(* Where the bytes of the items stand in what is sent. *)
LEMMA Layout ==
  ASSUME items \in Inputs
  PROVE  /\ Stream \in Seq(Bytes) /\ Len(Stream) \in Nat
         /\ Sent(0) = <<>> /\ Sent(Len(items)) = Stream
         /\ \A n \in 0 .. Len(items) : Len(Sent(n)) \in 0 .. Len(Stream)
         /\ \A n \in 0 .. Len(items) - 1 :
              /\ Len(Sent(n + 1)) = Len(Sent(n)) + Len(items[n + 1])
              /\ \A k \in 1 .. Len(items[n + 1]) : Stream[Len(Sent(n)) + k] = items[n + 1][k]
<1>1. /\ Len(items) \in Nat /\ DOMAIN items = 1 .. Len(items)
      /\ items \in Seq(Seq(Bytes))
  BY InputBytes
<1>2. Sent(0) = <<>> /\ Sent(Len(items)) = Stream
  <2>1. SubSeq(items, 1, 0) = <<>> /\ SubSeq(items, 1, Len(items)) = items
    BY <1>1
  <2> QED BY <2>1, FlattenNone DEF Sent, Stream
<1>3. ASSUME NEW n \in 0 .. Len(items)
      PROVE  /\ Sent(n) \in Seq(Bytes) /\ Stream \in Seq(Bytes)
             /\ Len(Sent(n)) \in 0 .. Len(Stream)
             /\ \A j \in 1 .. Len(Sent(n)) : Stream[j] = Sent(n)[j]
  <2>1. Len(items) \in n .. Len(items)
    BY <1>1
  <2>2. /\ Sent(n) \in Seq(Bytes) /\ Sent(Len(items)) \in Seq(Bytes)
        /\ Len(Sent(n)) <= Len(Sent(Len(items)))
        /\ \A j \in 1 .. Len(Sent(n)) : Sent(Len(items))[j] = Sent(n)[j]
    BY <1>1, <2>1, FlattenAt DEF Sent
  <2> QED BY <1>2, <2>2
<1>4. ASSUME NEW n \in 0 .. Len(items) - 1
      PROVE  /\ Len(Sent(n + 1)) = Len(Sent(n)) + Len(items[n + 1])
             /\ \A k \in 1 .. Len(items[n + 1]) : Stream[Len(Sent(n)) + k] = items[n + 1][k]
  <2>1. n + 1 \in 1 .. Len(items) /\ n \in 0 .. Len(items) /\ n + 1 \in 0 .. Len(items)
        /\ n + 1 - 1 = n
    BY <1>1
  <2>2. Sent(n + 1) = Sent(n) \o items[n + 1]
    <3>1. PICK m : m = n + 1
      OBVIOUS
    <3>2. m \in 1 .. Len(items) /\ m - 1 = n
      BY <2>1, <3>1
    <3>3. FlattenSeq(SubSeq(items, 1, m)) = FlattenSeq(SubSeq(items, 1, m - 1)) \o items[m]
      BY <1>1, <3>2, FlattenStep
    <3> QED BY <3>1, <3>2, <3>3 DEF Sent
  <2>3. Sent(n) \in Seq(Bytes) /\ items[n + 1] \in Seq(Bytes)
    BY <1>1, <1>3, <2>1
  <2>4. /\ Len(Sent(n + 1)) = Len(Sent(n)) + Len(items[n + 1])
        /\ \A k \in 1 .. Len(items[n + 1]) :
             /\ Sent(n + 1)[Len(Sent(n)) + k] = items[n + 1][k]
             /\ Len(Sent(n)) + k \in 1 .. Len(Sent(n + 1))
    <3>1. \A s, t \in Seq(Bytes) :
            /\ Len(s \o t) = Len(s) + Len(t)
            /\ \A k \in 1 .. Len(t) : /\ (s \o t)[Len(s) + k] = t[k]
                                     /\ Len(s) + k \in 1 .. Len(s) + Len(t)
      OBVIOUS
    <3> QED BY <2>2, <2>3, <3>1
  <2> QED BY <1>3, <2>1, <2>4
<1>5. 0 \in 0 .. Len(items)
  BY <1>1
<1>6. Stream \in Seq(Bytes)
  BY <1>3, <1>5
<1> QED BY <1>2, <1>3, <1>4, <1>6

(* What should come out, one item after the other. *)
LEMMA OutGrows ==
  ASSUME items \in Inputs
  PROVE  /\ Out(0) = <<>> /\ Out(Len(items)) = ExpectedText
         /\ \A n \in 0 .. Len(items) : Out(n) \in Seq(Bytes)
         /\ \A n \in 0 .. Len(items) - 1 :
              Out(n + 1) = Out(n) \o TextOf(n + 1) /\ TextOf(n + 1) \in Seq(Bytes)
<1>1. /\ Len(items) \in Nat /\ DOMAIN items = 1 .. Len(items)
      /\ \A n \in 1 .. Len(items) : items[n] \in Items
  BY InputBytes
<1>2. ASSUME NEW n \in 1 .. Len(items) PROVE TextOf(n) \in Seq(Bytes)
  <2>1. items[n] \in Seq(Bytes)
    BY <1>1, ItemBytes
  <2>2. \A bytes \in Seq(Bytes) : Spaced(bytes) \in Seq(Bytes)
    <3>1. " " \in Bytes
      BY DEF Bytes
    <3>2. ASSUME NEW bytes \in Seq(Bytes) PROVE Spaced(bytes) \in Seq(Bytes)
      <4>1. DOMAIN bytes = 1 .. Len(bytes) /\ Len(bytes) \in Nat
            /\ \A k \in DOMAIN bytes : bytes[k] \in Bytes
        OBVIOUS
      <4>2. Spaced(bytes) \in [1 .. Len(bytes) -> Bytes]
        BY <3>1, <4>1 DEF Spaced
      <4> QED BY <4>1, <4>2
    <3> QED BY <3>2
  <2>3. "IAC" \in Bytes
    <3>1. <<"IAC", "IAC">> \in Items
      BY DEF Items
    <3> QED BY <3>1, ItemBytes
  <2> QED BY <2>1, <2>2, <2>3 DEF TextOf
<1>3. TextItems \in Seq(Seq(Bytes)) /\ Len(TextItems) = Len(items)
      /\ \A n \in 1 .. Len(items) : TextItems[n] = TextOf(n)
  BY <1>1, <1>2 DEF TextItems
<1>4. Out(0) = <<>> /\ Out(Len(items)) = ExpectedText
  <2>1. SubSeq(TextItems, 1, 0) = <<>> /\ SubSeq(TextItems, 1, Len(items)) = TextItems
    BY <1>3
  <2> QED BY <2>1, FlattenNone DEF Out, ExpectedText, TextItems
<1>5. ASSUME NEW n \in 0 .. Len(items) - 1
      PROVE  Out(n + 1) = Out(n) \o TextOf(n + 1) /\ Out(n + 1) \in Seq(Bytes)
  <2>1. PICK m : m = n + 1
    OBVIOUS
  <2>2. m \in 1 .. Len(TextItems) /\ m - 1 = n /\ m \in 1 .. Len(items)
    BY <1>1, <1>3, <2>1
  <2>3. /\ FlattenSeq(SubSeq(TextItems, 1, m)) = FlattenSeq(SubSeq(TextItems, 1, m - 1)) \o TextItems[m]
        /\ FlattenSeq(SubSeq(TextItems, 1, m)) \in Seq(Bytes)
    BY <1>3, <2>2, FlattenStep
  <2> QED BY <1>3, <2>1, <2>2, <2>3 DEF Out
<1>6. ASSUME NEW n \in 0 .. Len(items) PROVE Out(n) \in Seq(Bytes)
  <2>1. n = 0 \/ (n - 1 \in 0 .. Len(items) - 1 /\ n - 1 + 1 = n)
    BY <1>1
  <2>2. <<>> \in Seq(Bytes)
    OBVIOUS
  <2> QED BY <1>4, <1>5, <2>1, <2>2
<1>7. \A n \in 0 .. Len(items) - 1 : TextOf(n + 1) \in Seq(Bytes)
  BY <1>1, <1>2
<1> QED BY <1>4, <1>5, <1>6, <1>7

(* And what should be refused. *)
LEMMA RefusedGrows ==
  ASSUME items \in Inputs
  PROVE  /\ Refused(0) = <<>> /\ Refused(Len(items)) = ExpectedReplies
         /\ \A n \in 0 .. Len(items) : Refused(n) \in Seq(Refusals)
         /\ \A n \in 0 .. Len(items) - 1 : Refused(n + 1) = Refused(n) \o ReplyOf(n + 1)
<1>1. /\ Len(items) \in Nat /\ DOMAIN items = 1 .. Len(items)
      /\ \A n \in 1 .. Len(items) : items[n] \in Items
  BY InputBytes
<1>2. ASSUME NEW n \in 1 .. Len(items) PROVE ReplyOf(n) \in Seq(Refusals)
  <2>1. items[n] \in Seq(Bytes)
    BY <1>1, ItemBytes
  <2>2. Len(items[n]) = 3 => items[n][3] \in Bytes
    BY <2>1
  <2>3. Refusal(items[n][2]) \in {"DONT", "WONT"}
    BY DEF Refusal
  <2>4. <<>> \in Seq(Refusals)
    OBVIOUS
  <2>5. ASSUME Len(items[n]) = 3
        PROVE  << <<"IAC", Refusal(items[n][2]), items[n][3]>> >> \in Seq(Refusals)
    <3>1. <<"IAC", Refusal(items[n][2]), items[n][3]>> \in Refusals
      BY <2>2, <2>3, <2>5 DEF Refusals
    <3> QED BY <3>1
  <2> QED BY <2>4, <2>5 DEF ReplyOf
<1>3. ReplyItems \in Seq(Seq(Refusals)) /\ Len(ReplyItems) = Len(items)
      /\ \A n \in 1 .. Len(items) : ReplyItems[n] = ReplyOf(n)
  BY <1>1, <1>2 DEF ReplyItems
<1>4. Refused(0) = <<>> /\ Refused(Len(items)) = ExpectedReplies
  <2>1. SubSeq(ReplyItems, 1, 0) = <<>> /\ SubSeq(ReplyItems, 1, Len(items)) = ReplyItems
    BY <1>3
  <2> QED BY <2>1, FlattenNone DEF Refused, ExpectedReplies, ReplyItems
<1>5. ASSUME NEW n \in 0 .. Len(items) - 1
      PROVE  Refused(n + 1) = Refused(n) \o ReplyOf(n + 1) /\ Refused(n + 1) \in Seq(Refusals)
  <2>1. PICK m : m = n + 1
    OBVIOUS
  <2>2. m \in 1 .. Len(ReplyItems) /\ m - 1 = n /\ m \in 1 .. Len(items)
    BY <1>1, <1>3, <2>1
  <2>3. /\ FlattenSeq(SubSeq(ReplyItems, 1, m)) = FlattenSeq(SubSeq(ReplyItems, 1, m - 1)) \o ReplyItems[m]
        /\ FlattenSeq(SubSeq(ReplyItems, 1, m)) \in Seq(Refusals)
    BY <1>3, <2>2, FlattenStep
  <2> QED BY <1>3, <2>1, <2>2, <2>3 DEF Refused
<1>6. ASSUME NEW n \in 0 .. Len(items) PROVE Refused(n) \in Seq(Refusals)
  <2>1. n = 0 \/ (n - 1 \in 0 .. Len(items) - 1 /\ n - 1 + 1 = n)
    BY <1>1
  <2>2. <<>> \in Seq(Refusals)
    OBVIOUS
  <2> QED BY <1>4, <1>5, <2>1, <2>2
<1> QED BY <1>4, <1>5, <1>6

-----------------------------------------------------------------------------
(* The types. *)

(* do_eat_chars, which takes the bytes behind a, up to b, out of buf: what is *)
(* left, and where it stands.                                                 *)
TakenOut(S, buf, a, b, out) ==
  /\ buf \in Seq(S) /\ a \in 0 .. Len(buf) /\ b \in a .. Len(buf)
  /\ out = SubSeq(buf, 1, a) \o SubSeq(buf, b + 1, Len(buf))

LEMMA Eaten ==
  ASSUME NEW S, NEW buf, NEW a, NEW b, NEW out, TakenOut(S, buf, a, b, out)
  PROVE  /\ out \in Seq(S) /\ Len(out) = a + Len(buf) - b /\ Len(buf) \in Nat
         /\ \A j \in 1 .. Len(buf) - b : out[a + j] = buf[b + j]
         /\ \A j \in 1 .. a : out[j] = buf[j]
<1>1. /\ buf \in Seq(S) /\ a \in 0 .. Len(buf) /\ b \in a .. Len(buf)
      /\ Len(buf) \in Nat /\ a \in Nat /\ b \in Nat /\ a <= b /\ b <= Len(buf)
  BY DEF TakenOut
<1>2. PICK s : s = SubSeq(buf, 1, a)
  OBVIOUS
<1>3. PICK t : t = SubSeq(buf, b + 1, Len(buf))
  OBVIOUS
<1>4. s \in Seq(S) /\ Len(s) = a /\ \A j \in 1 .. a : s[j] = buf[j]
  BY <1>1, <1>2
<1>5. t \in Seq(S) /\ Len(t) = Len(buf) - b /\ \A j \in 1 .. Len(buf) - b : t[j] = buf[b + j]
  BY <1>1, <1>3
<1>0. \A x, y \in Seq(S) :
        /\ x \o y \in Seq(S) /\ Len(x \o y) = Len(x) + Len(y)
        /\ \A j \in 1 .. Len(x) : (x \o y)[j] = x[j]
        /\ \A j \in 1 .. Len(y) : (x \o y)[Len(x) + j] = y[j]
  OBVIOUS
<1>6. /\ out \in Seq(S) /\ Len(out) = a + Len(buf) - b
      /\ \A j \in 1 .. a : out[j] = buf[j]
      /\ \A j \in 1 .. Len(buf) - b : out[a + j] = buf[b + j]
  <2>1. /\ s \o t \in Seq(S) /\ Len(s \o t) = Len(s) + Len(t)
        /\ \A j \in 1 .. Len(s) : (s \o t)[j] = s[j]
        /\ \A j \in 1 .. Len(t) : (s \o t)[Len(s) + j] = t[j]
    BY <1>0, <1>4, <1>5
  <2>2. out = s \o t
    BY <1>2, <1>3 DEF TakenOut
  <2> QED BY <1>1, <1>4, <1>5, <2>1, <2>2
<1> QED BY <1>1, <1>6

LEMMA TypeInit == Init => Typing
<1> SUFFICES ASSUME Init PROVE Typing
  OBVIOUS
<1>1. items \in Inputs /\ cut \in 0 .. Len(Stream)
      /\ recvbuf = SubSeq(Stream, 1, cut) /\ rest = SubSeq(Stream, cut + 1, Len(Stream))
  BY DEF Init, Stream
<1>2. Stream \in Seq(Bytes)
  BY <1>1, Layout
<1>3. recvbuf \in Seq(Bytes) /\ rest \in Seq(Bytes) /\ Len(recvbuf) \in Nat
  BY <1>1, <1>2
<1>4. /\ text = <<>> /\ getrq = <<>> /\ replies = <<>> /\ i = 0 /\ eat_chars = 0
      /\ text \in Seq(Bytes) /\ getrq \in Seq(Bytes) /\ replies \in Seq(Refusals)
  BY DEF Init
<1> QED BY <1>1, <1>3, <1>4 DEF Typing

LEMMA TypeStep == Typing /\ [Next]_vars => Typing'
<1> SUFFICES ASSUME Typing, [Next]_vars PROVE Typing'
  OBVIOUS
<1>1. /\ Len(recvbuf) \in Nat /\ i \in Nat /\ i <= Len(recvbuf) /\ recvbuf \in Seq(Bytes)
      /\ eat_chars = Len(getrq) /\ Len(getrq) \in Nat /\ Len(getrq) <= i /\ getrq \in Seq(Bytes)
      /\ rest \in Seq(Bytes) /\ text \in Seq(Bytes) /\ replies \in Seq(Refusals)
  BY DEF Typing
<1>2. ASSUME UNCHANGED items, UNCHANGED cut PROVE UNCHANGED Stream
  BY <1>2 DEF Stream
<1>3. ASSUME More
      PROVE  /\ i < Len(recvbuf) /\ i + 1 \in 1 .. Len(recvbuf) /\ Byte \in Bytes
             /\ Collected \in Seq(Bytes) /\ Len(Collected) = Len(getrq) + 1
             /\ Collected[Len(Collected)] = Byte
  BY <1>1, <1>3 DEF More, Byte, Collected
<1>4. ASSUME UNCHANGED input, recvbuf' \in Seq(Bytes), i' \in 0 .. Len(recvbuf'),
             getrq' \in Seq(Bytes), eat_chars' = Len(getrq'), Len(getrq') <= i',
             replies' \in Seq(Refusals)
      PROVE  Typing'
  BY <1>2, <1>4 DEF Typing, input
<1>5. ASSUME NEW buf \in Seq(Bytes), Len(buf) = Len(recvbuf), NEW n \in 0 .. i + 1, More,
             EatChars(buf, n), UNCHANGED input, replies' \in Seq(Refusals)
      PROVE  Typing'
  <2>1. i + 1 - n \in 0 .. Len(buf) /\ i + 1 \in i + 1 - n .. Len(buf) /\ i + 1 + 1 = i + 2
    BY <1>1, <1>3, <1>5
  <2>2. TakenOut(Bytes, buf, i + 1 - n, i + 1, recvbuf')
    BY <1>5, <2>1 DEF EatChars, TakenOut
  <2>3. recvbuf' \in Seq(Bytes) /\ Len(recvbuf') = i + 1 - n + Len(buf) - (i + 1)
    BY <2>2, Eaten
  <2>4. i' = i + 1 - n /\ getrq' = <<>> /\ eat_chars' = 0
    BY <1>5 DEF EatChars
  <2>5. i' \in 0 .. Len(recvbuf') /\ getrq' \in Seq(Bytes) /\ Len(getrq') = 0
    BY <1>1, <1>3, <1>5, <2>1, <2>3, <2>4
  <2> QED BY <1>4, <1>5, <2>3, <2>4, <2>5
<1>6. CASE NextRecv
  <2>1. /\ UNCHANGED <<items, cut, replies>> /\ text' = recvbuf /\ recvbuf' = rest /\ rest' = <<>>
        /\ i' = 0 /\ getrq' = <<>> /\ eat_chars' = 0
    BY <1>6 DEF NextRecv
  <2>2. <<>> \in Seq(Bytes) /\ Len(<<>>) = 0
    OBVIOUS
  <2>3. i' \in 0 .. Len(recvbuf')
    BY <1>1, <2>1
  <2> QED BY <1>1, <1>2, <2>1, <2>2, <2>3 DEF Typing
<1>7. CASE ReplaceZero
  <2>1. " " \in Bytes
    BY DEF Bytes
  <2>2. recvbuf' \in Seq(Bytes) /\ Len(recvbuf') = Len(recvbuf)
    <3>1. PICK e \in Bytes : recvbuf' = [recvbuf EXCEPT ![i + 1] = e]
      BY <1>7, <2>1 DEF ReplaceZero
    <3>2. PICK buf : buf = [recvbuf EXCEPT ![i + 1] = e]
      OBVIOUS
    <3>3. PICK k : k = i + 1
      OBVIOUS
    <3>4. recvbuf \in Seq(Bytes)
      BY <1>1
    <3>5. /\ [recvbuf EXCEPT ![k] = e] \in Seq(Bytes)
          /\ Len([recvbuf EXCEPT ![k] = e]) = Len(recvbuf)
      BY <3>4, Replaced
    <3>6. buf \in Seq(Bytes) /\ Len(buf) = Len(recvbuf)
      BY <3>2, <3>3, <3>5
    <3> QED BY <3>1, <3>2, <3>6
  <2>3. More /\ i' = i + 1 /\ UNCHANGED <<input, getrq, eat_chars, replies>>
    BY <1>7 DEF ReplaceZero
  <2> QED BY <1>1, <1>3, <1>4, <2>2, <2>3
<1>8. CASE PassText
  BY <1>1, <1>3, <1>4, <1>8 DEF PassText
<1>9. CASE CollectMore \/ CollectUnknown
  <2>1. /\ More /\ UNCHANGED <<input, recvbuf, replies>>
        /\ getrq' = Collected /\ eat_chars' = eat_chars + 1 /\ i' = i + 1
    BY <1>9 DEF CollectMore, CollectUnknown, Collects
  <2> QED BY <1>1, <1>3, <1>4, <2>1
<1>10. CASE EatSimple
  <2>1. More /\ EatChars(recvbuf, eat_chars + 1) /\ UNCHANGED <<input, replies>>
    BY <1>10 DEF EatSimple, Collects
  <2> QED BY <1>1, <1>5, <2>1
<1>11. CASE EatEscaped
  <2>1. PICK buf : buf = [recvbuf EXCEPT ![i + 1 - eat_chars] = "IAC"]
    OBVIOUS
  <2>2. More /\ EatChars(buf, eat_chars) /\ UNCHANGED <<input, replies>>
    BY <1>11, <2>1 DEF EatEscaped, Collects
  <2>3. "IAC" \in Bytes
    <3>1. <<"IAC", "IAC">> \in Items
      BY DEF Items
    <3> QED BY <3>1, ItemBytes
  <2>4. buf \in Seq(Bytes) /\ Len(buf) = Len(recvbuf)
    BY <1>1, <2>1, <2>3, Replaced
  <2>5. eat_chars \in 0 .. i + 1
    BY <1>1
  <2> QED BY <1>1, <1>5, <2>2, <2>4, <2>5
<1>12. CASE RefuseOption
  <2>1. /\ More /\ EatChars(recvbuf, eat_chars + 1) /\ UNCHANGED input
        /\ Len(Collected) = 3
        /\ replies' = Append(replies, <<"IAC", Refusal(Collected[2]), Collected[3]>>)
    BY <1>12 DEF RefuseOption, Collects
  <2>2. <<"IAC", Refusal(Collected[2]), Collected[3]>> \in Refusals
    BY <1>3, <2>1 DEF Refusals, Refusal
  <2>3. replies' \in Seq(Refusals)
    BY <1>1, <2>1, <2>2
  <2> QED BY <1>1, <1>5, <2>1, <2>3
<1>13. CASE UNCHANGED vars
  BY <1>1, <1>4, <1>13 DEF vars
<1> QED
  BY <1>6, <1>7, <1>8, <1>9, <1>10, <1>11, <1>12, <1>13 DEF Next

LEMMA TypeInvariant == Spec => []Typing
BY TypeInit, TypeStep, PTL DEF Spec

-----------------------------------------------------------------------------
(* Where the loop is. *)

LEMMA CutAt ==
  ASSUME items \in Inputs, NEW n \in 0 .. Len(items) - 1
  PROVE  CutIn(n + 1) <=> /\ Len(Sent(n)) < cut
                          /\ cut < Len(Sent(n)) + Len(items[n + 1])
<1>1. n + 1 - 1 = n
  BY InputBytes
<1>2. Offset(n + 1) = Len(Sent(n))
  BY <1>1 DEF Offset, Sent
<1> QED BY <1>2 DEF CutIn

LEMMA BeganGrows ==
  ASSUME items \in Inputs, NEW n \in 0 .. Len(items) - 1, NEW k \in 0 .. Len(items[n + 1])
  PROVE  /\ items[n + 1] \in Items /\ items[n + 1] \in Seq(Bytes) /\ Len(items[n + 1]) \in 1 .. 3
         /\ Began(n, k) \in Seq(Bytes) /\ Len(Began(n, k)) = k
         /\ \A j \in 1 .. k : Began(n, k)[j] = items[n + 1][j]
         /\ k < Len(items[n + 1])
              => Began(n, k + 1) = Append(Began(n, k), items[n + 1][k + 1])
         /\ k = Len(items[n + 1]) => Began(n, k) = items[n + 1]
<1>1. n + 1 \in 1 .. Len(items)
  BY InputBytes
<1>2. PICK item : item = items[n + 1]
  OBVIOUS
<1>3. item \in Items /\ item \in Seq(Bytes) /\ Len(item) \in 1 .. 3
  BY <1>1, <1>2, InputBytes, ItemBytes
<1>4. k \in 0 .. Len(item) /\ k \in Nat
  BY <1>2, <1>3
<1>5. Began(n, k) = SubSeq(item, 1, k)
  BY <1>2, <1>3 DEF Began
<1>6. k < Len(item) => Began(n, k + 1) = SubSeq(item, 1, k + 1)
  BY <1>2, <1>4 DEF Began
<1>7. /\ SubSeq(item, 1, k) \in Seq(Bytes) /\ Len(SubSeq(item, 1, k)) = k
      /\ \A j \in 1 .. k : SubSeq(item, 1, k)[j] = item[j]
      /\ k < Len(item) => SubSeq(item, 1, k + 1) = Append(SubSeq(item, 1, k), item[k + 1])
      /\ k = Len(item) => SubSeq(item, 1, k) = item
  BY <1>3, <1>4, FirstPart
<1> QED BY <1>2, <1>3, <1>5, <1>6, <1>7

(* The byte that the loop looks at. *)
LEMMA NextByte ==
  ASSUME Typing, NEW n \in 0 .. Len(items), NEW k \in 0 .. 2, At(n, k), i < Len(recvbuf)
  PROVE  /\ n \in 0 .. Len(items) - 1 /\ k + 1 \in 1 .. Len(items[n + 1])
         /\ recvbuf[i + 1] = items[n + 1][k + 1]
         /\ Len(Sent(n)) + k < Limit
<1>1. /\ Len(recvbuf) \in Nat /\ i \in Nat /\ items \in Inputs /\ cut \in 0 .. Len(Stream)
      /\ Len(items) \in Nat
  BY InputBytes DEF Typing
<1>2. Limit \in 0 .. Len(Stream) /\ Len(Stream) \in Nat /\ Len(Sent(n)) \in 0 .. Len(Stream)
      /\ Sent(Len(items)) = Stream
  BY <1>1, Layout DEF Limit
<1>3. Len(Sent(n)) + k < Limit
  BY <1>1, <1>2 DEF At, InPlace
<1>4. n \in 0 .. Len(items) - 1 /\ k < Len(items[n + 1])
  BY <1>1, <1>2, <1>3 DEF At
<1>5. items[n + 1] \in Seq(Bytes) /\ Len(items[n + 1]) \in 1 .. 3
  BY <1>1, <1>4, InputBytes, ItemBytes
<1>6. k + 1 \in 1 .. Len(items[n + 1])
  BY <1>4, <1>5
<1>7. Stream[Len(Sent(n)) + (k + 1)] = items[n + 1][k + 1]
  BY <1>1, <1>4, <1>6, Layout
<1>8. 1 \in 1 .. Limit - (Len(Sent(n)) + k)
  BY <1>2, <1>3
<1>9. recvbuf[i + 1] = Stream[Len(Sent(n)) + k + 1]
  BY <1>8 DEF At, InPlace
<1>10. Len(Sent(n)) + k + 1 = Len(Sent(n)) + (k + 1)
  BY <1>2
<1> QED BY <1>3, <1>4, <1>6, <1>7, <1>9, <1>10

(* A step of the loop takes it to the next byte of what is sent, whatever it  *)
(* does to those behind.                                                      *)
LEMMA Onward ==
  ASSUME Typing, NEW p \in Nat, InPlace(p), p < Limit, UNCHANGED input,
         Len(recvbuf') - i' = Len(recvbuf) - (i + 1),
         \A j \in 1 .. Len(recvbuf) - (i + 1) : recvbuf'[i' + j] = recvbuf[i + 1 + j]
  PROVE  InPlace(p + 1)'
<1>1. Stream' = Stream /\ Limit' = Limit /\ Second' = Second /\ cut' = cut
  BY DEF Stream, Limit, Second, input
<1>2. Len(recvbuf) \in Nat /\ i \in Nat /\ cut \in Nat /\ Limit \in Nat
  BY Layout DEF Typing, Limit
<1>3. Len(recvbuf') - i' = Limit' - (p + 1)
  BY <1>1, <1>2 DEF InPlace
<1>4. ASSUME NEW j \in 1 .. Limit - (p + 1)
      PROVE  recvbuf'[i' + j] = Stream[p + 1 + j]
  <2>1. j \in 1 .. Len(recvbuf) - (i + 1) /\ 1 + j \in 1 .. Limit - p
    BY <1>2 DEF InPlace
  <2>2. recvbuf'[i' + j] = recvbuf[i + 1 + j] /\ recvbuf[i + (1 + j)] = Stream[p + (1 + j)]
    BY <2>1 DEF InPlace
  <2>3. i + 1 + j = i + (1 + j) /\ p + 1 + j = p + (1 + j)
    BY <1>2
  <2> QED BY <2>2, <2>3
<1>5. Second' => cut' <= p + 1
  BY <1>1, <1>2 DEF InPlace
<1> QED BY <1>1, <1>3, <1>4, <1>5 DEF InPlace

(* What one item leaves. *)
LEMMA ItemLeaves ==
  ASSUME OptionsFit, items \in Inputs, cut \in Nat, NEW n \in 0 .. Len(items) - 1,
         NEW item, item = items[n + 1]
  PROVE  /\ Len(item) = 1 => /\ TextOf(n + 1) = <<IF item[1] = Zero THEN " " ELSE item[1]>>
                             /\ ~CutIn(n + 1)
         /\ Len(item) # 1 /\ CutIn(n + 1) => TextOf(n + 1) = item
         /\ Len(item) # 1 /\ ~CutIn(n + 1)
              => TextOf(n + 1) = IF item = <<"IAC", "IAC">> THEN <<"IAC">> ELSE <<>>
         /\ Len(item) # 3 \/ CutIn(n + 1) => ReplyOf(n + 1) = <<>>
         /\ Len(item) = 3 /\ ~CutIn(n + 1)
              => ReplyOf(n + 1) = << <<"IAC", Refusal(item[2]), item[3]>> >>
         /\ Len(item) # 1 => \A j \in 1 .. Len(item) : item[j] # Zero
<1>1. n + 1 \in 1 .. Len(items)
  BY InputBytes
<1>2. /\ item \in Seq(Bytes) /\ Len(item) \in 1 .. 3
      /\ Len(item) = 2 => item[1] = "IAC" /\ (item[2] = "NOP" \/ item[2] = "IAC" \/ item = Unknown)
      /\ Len(item) = 3 => item[1] = "IAC" /\ item[2] \in Verbs /\ item[3] \in Options
  BY <1>1, InputBytes, ItemBytes
<1>3. ASSUME Len(item) = 1 PROVE ~CutIn(n + 1)
  <2>1. Len(Sent(n)) \in Nat
    BY InputBytes, Layout
  <2>2. CutIn(n + 1) => Len(Sent(n)) < cut /\ cut < Len(Sent(n)) + Len(items[n + 1])
    BY CutAt
  <2>3. ~(Len(Sent(n)) < cut /\ cut < Len(Sent(n)) + 1)
    BY <2>1
  <2>4. Len(items[n + 1]) = 1
    BY <1>3
  <2> QED BY <2>2, <2>3, <2>4
<1>4. ASSUME Len(item) # 1 PROVE \A j \in 1 .. Len(item) : item[j] # Zero
  <2>1. CASE Len(item) = 2
    <3>1. item[2] # Zero
      BY <1>2, <2>1 DEF Zero, Unknown
    <3> QED BY <1>2, <2>1, <3>1 DEF Zero
  <2>2. CASE Len(item) = 3
    <3>1. item[2] # Zero /\ item[3] # Zero
      BY <1>2, <2>2 DEF Zero, Verbs, OptionsFit
    <3> QED BY <1>2, <2>2, <3>1 DEF Zero
  <2> QED BY <1>2, <1>4, <2>1, <2>2
<1>5. ASSUME Len(item) # 1 PROVE Spaced(item) = item
  <2>1. DOMAIN item = 1 .. Len(item)
    BY <1>2
  <2>2. Spaced(item) = [k \in DOMAIN item |-> item[k]]
    BY <1>4, <1>5, <2>1 DEF Spaced
  <2> QED BY <1>2, <2>2
<1>6. ASSUME Len(item) = 1 PROVE Spaced(item) = <<IF item[1] = Zero THEN " " ELSE item[1]>>
  <2>1. DOMAIN item = 1 .. 1 /\ 1 \in DOMAIN item
    BY <1>2, <1>6
  <2>2. PICK e : e = IF item[1] = Zero THEN " " ELSE item[1]
    OBVIOUS
  <2>3. DOMAIN Spaced(item) = 1 .. 1 /\ Spaced(item)[1] = e
        /\ Spaced(item) = [k \in DOMAIN Spaced(item) |-> Spaced(item)[k]]
    BY <2>1, <2>2 DEF Spaced
  <2>4. Spaced(item) = <<e>>
    <3>1. PICK s : s = Spaced(item)
      OBVIOUS
    <3>2. s = [k \in 1 .. 1 |-> s[k]] /\ s[1] = e
      BY <2>3, <3>1
    <3> QED BY <3>1, <3>2
  <2> QED BY <2>2, <2>4
<1> QED BY <1>2, <1>3, <1>4, <1>5, <1>6 DEF TextOf, ReplyOf

LEMMA Unmoved ==
  ASSUME UNCHANGED input
  PROVE  /\ items' = items /\ cut' = cut /\ rest' = rest /\ text' = text
         /\ Stream' = Stream /\ Second' = Second /\ Limit' = Limit /\ Regular' = Regular
         /\ \A n : /\ Sent(n)' = Sent(n) /\ Out(n)' = Out(n) /\ Refused(n)' = Refused(n)
                   /\ CutIn(n)' = CutIn(n)
                   /\ \A k : Began(n, k)' = Began(n, k)
<1>1. items' = items /\ cut' = cut /\ rest' = rest /\ text' = text
  BY DEF input
<1>2. \A n : CutIn(n)' = CutIn(n) /\ TextOf(n)' = TextOf(n) /\ ReplyOf(n)' = ReplyOf(n)
  BY <1>1 DEF CutIn, Offset, TextOf, ReplyOf
<1>3. TextItems' = TextItems /\ ReplyItems' = ReplyItems
  BY <1>1, <1>2 DEF TextItems, ReplyItems
<1>4. \A n : /\ Sent(n)' = Sent(n) /\ Out(n)' = Out(n) /\ Refused(n)' = Refused(n)
             /\ \A k : Began(n, k)' = Began(n, k)
  BY <1>1, <1>3 DEF Sent, Out, Refused, Began
<1>5. Stream' = Stream /\ Second' = Second /\ Limit' = Limit
  BY <1>1 DEF Stream, Second, Limit
<1>6. Regular' = Regular
  BY <1>1, <1>2 DEF Regular
<1> QED BY <1>1, <1>2, <1>4, <1>5, <1>6

(* Where a step leads: to the next item, or further into the same one. *)
LEMMA ItemDone ==
  ASSUME Typing, UNCHANGED input, NEW n \in 0 .. Len(items) - 1,
         InPlace(Len(Sent(n + 1)))', Left' = Out(n + 1),
         getrq' = <<>>, replies' = Refused(n + 1)
  PROVE  Position'
<1>1. items \in Inputs /\ Len(items) \in Nat
  BY InputBytes DEF Typing
<1>2. PICK m : m = n + 1
  OBVIOUS
<1>3. /\ m \in 0 .. Len(items)
      /\ m # Len(items) => m + 1 \in 1 .. Len(items)
  <2>1. PICK len : len = Len(items)
    OBVIOUS
  <2>2. len \in Nat /\ n \in 0 .. len - 1
    BY <1>1, <2>1
  <2>3. m \in 0 .. len /\ (m # len => m + 1 \in 1 .. len)
    BY <1>2, <2>2
  <2> QED BY <2>1, <2>3
<1>4. m # Len(items) => 0 < Len(items[m + 1])
  <2>1. ASSUME m # Len(items) PROVE Len(items[m + 1]) \in 1 .. 3
    BY <1>1, <1>3, <2>1, InputBytes, ItemBytes
  <2>2. \A len \in 1 .. 3 : 0 < len
    OBVIOUS
  <2> QED BY <2>1, <2>2
<1>5. InPlace(Len(Sent(m)) + 0)'
  <2>1. Len(Sent(m)) \in Nat /\ Sent(m)' = Sent(m)
    BY <1>1, <1>3, Layout, Unmoved
  <2>2. Len(Sent(m)') + 0 = Len(Sent(m)')
    BY <2>1
  <2> QED BY <1>2, <2>2 DEF InPlace
<1>6. Left' = Reached(m, 0)'
  <2>1. Out(m) \in Seq(Bytes) /\ Out(m)' = Out(m)
    BY <1>1, <1>3, OutGrows, Unmoved
  <2>2. Reached(m, 0)' = Out(m)' \o <<>>
    BY DEF Reached, Began
  <2> QED BY <1>2, <2>1, <2>2, JoinNone
<1>7. replies' = Refused(m)'
  BY <1>2, Unmoved
<1>8. (IF m = Len(items) THEN 0 = 0 ELSE 0 < Len(items[m + 1]))'
  BY <1>4, Unmoved
<1>9. (getrq = IF Second /\ CutIn(m + 1) THEN <<>> ELSE Began(m, 0))'
  BY DEF Began
<1>10. At(m, 0)'
  BY <1>5, <1>6, <1>7, <1>8, <1>9 DEF At
<1>11. items' = items
  BY Unmoved
<1> QED BY <1>3, <1>10, <1>11 DEF Position

LEMMA SameItem ==
  ASSUME Typing, UNCHANGED input, UNCHANGED replies,
         NEW n \in 0 .. Len(items) - 1, NEW k \in 0 .. 2,
         At(n, k), k + 1 < Len(items[n + 1]),
         InPlace(Len(Sent(n)) + k + 1)', Left' = Reached(n, k + 1),
         getrq' = IF Second /\ CutIn(n + 1) THEN <<>> ELSE Began(n, k + 1)
  PROVE  Position'
<1>1. items \in Inputs /\ Len(items) \in Nat
  BY InputBytes DEF Typing
<1>2. n + 1 \in 1 .. Len(items) /\ n \in 0 .. Len(items) /\ n # Len(items)
  BY <1>1
<1>3. Len(items[n + 1]) \in 1 .. 3
  BY <1>1, <1>2, InputBytes, ItemBytes
<1>4. k + 1 \in 0 .. 2
  <2>1. \A len \in 1 .. 3 : k + 1 < len => k + 1 \in 0 .. 2
    OBVIOUS
  <2> QED BY <1>3, <2>1
<1>5. InPlace(Len(Sent(n)) + (k + 1))'
  <2>1. Len(Sent(n)) \in Nat /\ Sent(n)' = Sent(n)
    BY <1>1, <1>2, Layout, Unmoved
  <2>2. Len(Sent(n)') + (k + 1) = Len(Sent(n)') + k + 1
    BY <2>1
  <2> QED BY <2>2 DEF InPlace
<1>6. (Left = Reached(n, k + 1))'
  BY Unmoved DEF Reached
<1>7. (getrq = IF Second /\ CutIn(n + 1) THEN <<>> ELSE Began(n, k + 1))'
  BY Unmoved
<1>8. (replies = Refused(n))'
  BY Unmoved DEF At
<1>9. (IF n = Len(items) THEN k + 1 = 0 ELSE k + 1 < Len(items[n + 1]))'
  BY <1>1, <1>2, Unmoved
<1>10. At(n, k + 1)'
  BY <1>5, <1>6, <1>7, <1>8, <1>9 DEF At
<1>11. items' = items
  BY Unmoved
<1> QED BY <1>2, <1>4, <1>10, <1>11 DEF Position

(* A byte that is collected belongs to a command, of which everything before  *)
(* it was collected too.                                                      *)
LEMMA Collecting ==
  ASSUME Typing, OptionsFit, Regular, NEW n \in 0 .. Len(items), NEW k \in 0 .. 2, At(n, k),
         Collects
  PROVE  /\ n \in 0 .. Len(items) - 1 /\ Len(items[n + 1]) \in 2 .. 3
         /\ k + 1 \in 1 .. Len(items[n + 1]) /\ i < Len(recvbuf)
         /\ ~(Second /\ CutIn(n + 1))
         /\ getrq = Began(n, k) /\ Len(getrq) = k
         /\ Collected = Began(n, k + 1) /\ Len(Collected) = k + 1
         /\ \A j \in 1 .. k + 1 : Collected[j] = items[n + 1][j]
         /\ k + 1 = Len(items[n + 1]) => Collected = items[n + 1]
<1>1. More /\ Byte # Zero /\ (Byte = "IAC" \/ getrq # <<>>) /\ i < Len(recvbuf)
  BY DEF Collects, More
<1>2. /\ n \in 0 .. Len(items) - 1 /\ k + 1 \in 1 .. Len(items[n + 1])
      /\ Byte = items[n + 1][k + 1]
      /\ items \in Inputs
  BY <1>1, NextByte DEF Byte, Typing
<1>3. PICK item : item = items[n + 1]
  OBVIOUS
<1>4. item \in Items /\ n + 1 \in 1 .. Len(items) /\ n + 1 \in DOMAIN items
  <2>1. n + 1 \in 1 .. Len(items) /\ n + 1 \in DOMAIN items
    BY <1>2, InputBytes
  <2> QED BY <1>2, <1>3, <2>1, InputBytes
<1>5. /\ Len(item) \in 1 .. 3
      /\ Len(item) = 1 => item[1] = "a" \/ item[1] = Zero
      /\ Len(item) = 2 => /\ item[1] = "IAC"
                          /\ \/ item[2] = "NOP"
                             \/ item[2] = "IAC" /\ item = <<"IAC", "IAC">>
                             \/ item = Unknown
      /\ Len(item) = 3 => item[1] = "IAC" /\ item[2] \in Verbs /\ item[3] \in Options
  BY <1>4, ItemBytes
<1>6. ~(Second /\ CutIn(n + 1))
  <2>1. SUFFICES ASSUME Second, CutIn(n + 1) PROVE FALSE
    OBVIOUS
  <2>2. item[k + 1] = "IAC"
    BY <1>1, <1>2, <1>3, <2>1 DEF At
  <2>3. k # 0
    <3>1. cut <= Len(Sent(n)) + k /\ Len(Sent(n)) < cut
      BY <1>2, <2>1, CutAt DEF At, InPlace
    <3>2. Len(Sent(n)) \in Nat /\ cut \in Nat
      <4>1. Len(Sent(n)) \in 0 .. Len(Stream) /\ Len(Stream) \in Nat
        BY <1>2, Layout
      <4>2. cut \in 0 .. Len(Stream)
        BY DEF Typing
      <4> QED BY <4>1, <4>2
    <3> QED BY <3>1, <3>2
  <2>4. k + 1 \in 2 .. Len(item)
    BY <1>2, <1>3, <1>5, <2>3
  <2>5. item # <<"IAC", "IAC">> /\ item # Unknown
    BY <1>3, <1>4, <2>1 DEF Regular
  <2>6. CASE Len(item) = 2
    BY <1>5, <2>2, <2>4, <2>5, <2>6
  <2>7. CASE Len(item) = 3
    BY <1>5, <2>2, <2>4, <2>7 DEF Verbs, OptionsFit
  <2>8. Len(item) = 2 \/ Len(item) = 3
    <3>1. PICK len \in 1 .. 3 : len = Len(item)
      BY <1>5
    <3>2. 1 <= k /\ k + 1 <= len
      BY <2>4, <3>1
    <3>3. len # 1
      BY <3>2
    <3> QED BY <3>1, <3>3
  <2> QED BY <2>6, <2>7, <2>8
<1>7. getrq = Began(n, k)
  BY <1>6 DEF At
<1>8. k \in 0 .. Len(items[n + 1]) /\ k < Len(items[n + 1])
  BY <1>2, <1>3, <1>5
<1>9. /\ Began(n, k) \in Seq(Bytes) /\ Len(Began(n, k)) = k
      /\ Began(n, k + 1) = Append(Began(n, k), items[n + 1][k + 1])
  BY <1>2, <1>8, BeganGrows
<1>10. /\ Len(Began(n, k + 1)) = k + 1
       /\ \A j \in 1 .. k + 1 : Began(n, k + 1)[j] = items[n + 1][j]
       /\ k + 1 = Len(items[n + 1]) => Began(n, k + 1) = items[n + 1]
  <2>1. PICK m : m = k + 1
    OBVIOUS
  <2>2. m \in 0 .. Len(items[n + 1])
    BY <1>2, <2>1
  <2>3. /\ Len(Began(n, m)) = m
        /\ \A j \in 1 .. m : Began(n, m)[j] = items[n + 1][j]
        /\ m = Len(items[n + 1]) => Began(n, m) = items[n + 1]
    BY <1>2, <2>2, BeganGrows
  <2> QED BY <2>1, <2>3
<1>11. Collected = Began(n, k + 1)
  BY <1>2, <1>7, <1>9 DEF Collected
<1>12. Len(item) # 1
  <2>1. SUFFICES ASSUME Len(item) = 1 PROVE FALSE
    OBVIOUS
  <2>2. k = 0
    BY <1>2, <1>3, <2>1
  <2>3. getrq = <<>>
    BY <1>7, <2>2 DEF Began
  <2> QED BY <1>1, <1>2, <1>3, <1>5, <2>1, <2>2, <2>3 DEF Zero
<1>13. Len(items[n + 1]) \in 2 .. 3
  BY <1>3, <1>5, <1>12
<1> QED BY <1>1, <1>2, <1>6, <1>7, <1>9, <1>10, <1>11, <1>13

(* A command that is collected to its last byte came in one buffer.           *)
LEMMA Whole ==
  ASSUME Typing, NEW n \in 0 .. Len(items) - 1, NEW k \in 0 .. 2, At(n, k), i < Len(recvbuf),
         ~(Second /\ CutIn(n + 1)), k + 1 = Len(items[n + 1])
  PROVE  ~CutIn(n + 1)
<1>1. items \in Inputs /\ cut \in 0 .. Len(Stream) /\ n \in 0 .. Len(items) /\ n + 1 \in 0 .. Len(items)
  BY InputBytes DEF Typing
<1>2. Len(Sent(n)) + k < Limit
  BY <1>1, NextByte
<1>3. /\ Len(Sent(n + 1)) = Len(Sent(n)) + Len(items[n + 1])
      /\ Len(Sent(n)) \in Nat /\ Len(Sent(n + 1)) \in 0 .. Len(Stream) /\ Len(Stream) \in Nat
  BY <1>1, Layout
<1>4. SUFFICES ASSUME CutIn(n + 1) PROVE FALSE
  OBVIOUS
<1>5. cut < Len(Sent(n)) + Len(items[n + 1])
  BY <1>1, <1>4, CutAt
<1>6. cut < Len(Stream)
  BY <1>1, <1>3, <1>5
<1>7. rest # <<>>
  BY <1>4, <1>6 DEF Second
<1>8. Len(Sent(n)) + k < cut
  BY <1>2, <1>7 DEF Limit
<1> QED BY <1>1, <1>3, <1>5, <1>8

(* The index goes over one byte. *)
LEMMA OneMore ==
  ASSUME NEW S, NEW s \in Seq(S), NEW t \in Seq(S), Len(t) = Len(s),
         NEW m \in Nat, m < Len(s), \A j \in 1 .. m : t[j] = s[j]
  PROVE  SubSeq(t, 1, m + 1) = Append(SubSeq(s, 1, m), t[m + 1])
<1>1. m \in 0 .. Len(s) /\ m \in 0 .. Len(t) /\ m < Len(t)
  OBVIOUS
<1>2. /\ SubSeq(s, 1, m) \in Seq(S) /\ DOMAIN SubSeq(s, 1, m) = 1 .. m
      /\ \A j \in 1 .. m : SubSeq(s, 1, m)[j] = s[j]
  BY <1>1, SplitElements
<1>3. /\ SubSeq(t, 1, m) \in Seq(S) /\ DOMAIN SubSeq(t, 1, m) = 1 .. m
      /\ \A j \in 1 .. m : SubSeq(t, 1, m)[j] = t[j]
  BY <1>1, SplitElements
<1>4. SubSeq(t, 1, m) = SubSeq(s, 1, m)
  BY <1>2, <1>3, SameElements
<1>5. SubSeq(t, 1, m + 1) = Append(SubSeq(t, 1, m), t[m + 1])
  BY <1>1, FirstPart
<1> QED BY <1>4, <1>5

LEMMA Grown ==
  ASSUME Typing, i < Len(recvbuf), i' = i + 1, UNCHANGED text,
         recvbuf' \in Seq(Bytes), Len(recvbuf') = Len(recvbuf),
         \A j \in 1 .. i : recvbuf'[j] = recvbuf[j]
  PROVE  Left' = Append(Left, recvbuf'[i + 1])
<1>1. i \in Nat /\ recvbuf \in Seq(Bytes) /\ text \in Seq(Bytes) /\ i + 1 \in 1 .. Len(recvbuf)
      /\ i \in 0 .. Len(recvbuf)
  BY DEF Typing
<1>2. SubSeq(recvbuf', 1, i + 1) = Append(SubSeq(recvbuf, 1, i), recvbuf'[i + 1])
  <2>1. \A t \in Seq(Bytes) :
           Len(t) = Len(recvbuf) /\ (\A j \in 1 .. i : t[j] = recvbuf[j])
             => SubSeq(t, 1, i + 1) = Append(SubSeq(recvbuf, 1, i), t[i + 1])
    BY <1>1, OneMore
  <2> QED BY <2>1
<1>3. recvbuf'[i + 1] \in Bytes
  <2>1. \A t \in Seq(Bytes) : Len(t) = Len(recvbuf) => t[i + 1] \in Bytes
    BY <1>1
  <2> QED BY <2>1
<1>4. PICK s \in Seq(Bytes) : s = SubSeq(recvbuf, 1, i)
  BY <1>1, FirstPart
<1>5. PICK e \in Bytes : e = recvbuf'[i + 1]
  BY <1>3
<1>6. text \o Append(s, e) = Append(text \o s, e)
  BY <1>1, <1>4, <1>5, JoinOne
<1> QED BY <1>2, <1>4, <1>5, <1>6 DEF Left

LEMMA ReachedGrows ==
  ASSUME items \in Inputs, NEW n \in 0 .. Len(items) - 1, NEW k \in 0 .. 2, k < Len(items[n + 1])
  PROVE  /\ Reached(n, k) \in Seq(Bytes) /\ Reached(n, 0) = Out(n)
         /\ Reached(n, k + 1) = Append(Reached(n, k), items[n + 1][k + 1])
         /\ k + 1 = Len(items[n + 1]) => Reached(n, k + 1) = Out(n) \o items[n + 1]
<1>1. n \in 0 .. Len(items) /\ n + 1 \in 1 .. Len(items)
  BY InputBytes
<1>2. PICK m : m = k + 1
  OBVIOUS
<1>3. PICK item : item = items[n + 1]
  OBVIOUS
<1>4. item \in Seq(Bytes) /\ Len(item) \in 1 .. 3
  BY <1>1, <1>3, InputBytes, ItemBytes
<1>5. k \in 0 .. Len(item) /\ m \in 0 .. Len(item) /\ m \in 1 .. Len(item)
  BY <1>2, <1>3, <1>4
<1>6. /\ Began(n, k) \in Seq(Bytes)
      /\ Began(n, m) = Append(Began(n, k), item[m])
      /\ m = Len(item) => Began(n, m) = item
  BY <1>2, <1>3, <1>5, BeganGrows
<1>7. PICK s \in Seq(Bytes) : s = Out(n)
  BY <1>1, OutGrows
<1>8. PICK t \in Seq(Bytes) : t = Began(n, k)
  BY <1>6
<1>9. PICK e \in Bytes : e = item[m]
  BY <1>4, <1>5
<1>10. s \o t \in Seq(Bytes) /\ s \o Append(t, e) = Append(s \o t, e) /\ s \o <<>> = s
  BY JoinNone, JoinOne
<1>11. /\ Reached(n, k) = s \o t /\ Reached(n, m) = s \o Append(t, e) /\ Reached(n, 0) = s \o <<>>
       /\ m = Len(item) => Reached(n, m) = s \o item
  BY <1>6, <1>7, <1>8, <1>9 DEF Reached, Began
<1> QED BY <1>2, <1>3, <1>7, <1>9, <1>10, <1>11

(* A byte that the loop goes past. *)
LEMMA PassStep ==
  ASSUME Typing, OptionsFit, NEW n \in 0 .. Len(items), NEW k \in 0 .. 2, At(n, k),
         ReplaceZero \/ PassText
  PROVE  Position'
<1>1. /\ More /\ i < Len(recvbuf) /\ i' = i + 1
      /\ UNCHANGED input /\ UNCHANGED replies /\ UNCHANGED getrq
  BY DEF ReplaceZero, PassText, More
<1>2. /\ n \in 0 .. Len(items) - 1 /\ k + 1 \in 1 .. Len(items[n + 1])
      /\ Byte = items[n + 1][k + 1]
      /\ items \in Inputs /\ cut \in Nat
      /\ Len(Sent(n)) + k < Limit
  <2>1. items \in Inputs /\ cut \in Nat
    <3>1. Len(Stream) \in Nat /\ items \in Inputs /\ cut \in 0 .. Len(Stream)
      BY Layout DEF Typing
    <3> QED BY <3>1
  <2>2. Byte = recvbuf[i + 1]
    BY DEF Byte
  <2> QED BY <1>1, <2>1, <2>2, NextByte
<1>3. PICK item : item = items[n + 1]
  OBVIOUS
<1>4. item \in Items /\ n + 1 \in 1 .. Len(items)
  <2>1. n + 1 \in 1 .. Len(items)
    BY <1>2, InputBytes
  <2> QED BY <1>2, <1>3, <2>1, InputBytes
<1>5. item \in Seq(Bytes) /\ Len(item) \in 1 .. 3 /\ (Len(item) # 1 => item[1] = "IAC")
  BY <1>4, ItemBytes
<1>6. recvbuf \in Seq(Bytes) /\ i \in Nat /\ Len(recvbuf) \in Nat /\ text \in Seq(Bytes)
      /\ text' = text
  BY <1>1, Unmoved DEF Typing
<1>7. PICK e \in Bytes : e = IF Byte = Zero THEN " " ELSE Byte
  <2>1. " " \in Bytes
    BY DEF Bytes
  <2>2. Byte \in Bytes
    BY <1>2, <1>3, <1>5
  <2> QED BY <2>1, <2>2
<1>8. /\ recvbuf' \in Seq(Bytes) /\ Len(recvbuf') = Len(recvbuf) /\ recvbuf'[i + 1] = e
      /\ \A j \in 1 .. Len(recvbuf) : j # i + 1 => recvbuf'[j] = recvbuf[j]
  <2>1. CASE ReplaceZero
    <3>1. recvbuf' = [recvbuf EXCEPT ![i + 1] = e]
      BY <1>7, <2>1 DEF ReplaceZero
    <3>2. i + 1 \in DOMAIN recvbuf /\ DOMAIN recvbuf = 1 .. Len(recvbuf)
      BY <1>1, <1>6
    <3> QED BY <1>6, <3>1, <3>2, Replaced
  <2>2. CASE PassText
    BY <1>6, <1>7, <2>2 DEF PassText, Byte
  <2> QED BY <2>1, <2>2
<1>9. InPlace(Len(Sent(n)) + k + 1)'
  <2>1. \A j \in 1 .. Len(recvbuf) - (i + 1) : recvbuf'[i' + j] = recvbuf[i + 1 + j]
    <3>1. ASSUME NEW j \in 1 .. Len(recvbuf) - (i + 1)
          PROVE  i + 1 + j \in 1 .. Len(recvbuf) /\ i + 1 + j # i + 1
      BY <1>6
    <3> QED BY <1>1, <1>8, <3>1
  <2>2. Len(Sent(n)) + k \in Nat
    BY <1>2, Layout
  <2>3. InPlace(Len(Sent(n)) + k)
    BY DEF At
  <2>4. PICK p : p = Len(Sent(n)) + k
    OBVIOUS
  <2>5. Len(recvbuf') - i' = Len(recvbuf) - (i + 1)
    BY <1>1, <1>8
  <2>6. InPlace(p + 1)'
    BY <1>1, <1>2, <2>1, <2>2, <2>3, <2>4, <2>5, Onward
  <2>7. (p + 1 = Len(Sent(n)) + k + 1)'
    BY <1>1, <2>4, Unmoved
  <2> QED BY <2>6, <2>7 DEF InPlace
<1>10. Left' = Append(Reached(n, k), e)
  <2>1. \A j \in 1 .. i : recvbuf'[j] = recvbuf[j]
    BY <1>1, <1>6, <1>8
  <2>2. Left' = Append(Left, recvbuf'[i + 1])
    BY <1>1, <1>6, <1>8, <2>1, Grown
  <2> QED BY <1>8, <2>2 DEF At
<1>11. replies' = Refused(n) /\ getrq' = getrq
  BY <1>1 DEF At
<1>12. k < Len(items[n + 1]) /\ k \in 0 .. Len(items[n + 1])
  BY <1>2, <1>3, <1>5
<1>13. CASE Len(item) = 1
  <2>1. k = 0
    BY <1>3, <1>12, <1>13
  <2>2. TextOf(n + 1) = <<e>> /\ ReplyOf(n + 1) = <<>>
    <3>1. /\ TextOf(n + 1) = <<IF item[1] = Zero THEN " " ELSE item[1]>>
          /\ ReplyOf(n + 1) = <<>>
      <4>1. /\ Len(item) = 1 => TextOf(n + 1) = <<IF item[1] = Zero THEN " " ELSE item[1]>>
            /\ Len(item) # 3 => ReplyOf(n + 1) = <<>>
        BY <1>2, <1>3, ItemLeaves
      <4>2. Len(item) # 3
        BY <1>13
      <4> QED BY <1>13, <4>1, <4>2
    <3>2. Byte = item[1]
      BY <1>2, <1>3, <2>1
    <3> QED BY <1>7, <3>1, <3>2
  <2>3. Out(n + 1) = Append(Out(n), e) /\ Refused(n + 1) = Refused(n)
    <3>1. /\ Out(n) \in Seq(Bytes) /\ Out(n + 1) = Out(n) \o TextOf(n + 1)
      BY <1>2, OutGrows
    <3>2. Refused(n) \in Seq(Refusals) /\ Refused(n + 1) = Refused(n) \o ReplyOf(n + 1)
      BY <1>2, RefusedGrows
    <3>3. Out(n) \o <<e>> = Append(Out(n), e)
      BY <1>7, <3>1, JoinLast
    <3>4. Refused(n) \o <<>> = Refused(n)
      BY <3>2, JoinNone
    <3> QED BY <2>2, <3>1, <3>2, <3>3, <3>4
  <2>4. Left' = Out(n + 1)
    <3>1. Reached(n, 0) = Out(n)
      BY <1>2, <1>12, ReachedGrows
    <3> QED BY <1>10, <2>1, <2>3, <3>1
  <2>5. getrq' = <<>>
    BY <1>11, <2>1 DEF At, Began
  <2>6. InPlace(Len(Sent(n + 1)))'
    <3>1. Len(Sent(n + 1)) = Len(Sent(n)) + 1 /\ Len(Sent(n)) \in Nat
      <4>1. Len(Sent(n + 1)) = Len(Sent(n)) + Len(item) /\ Len(Sent(n)) \in Nat
        BY <1>2, <1>3, Layout
      <4>2. Len(item) # 3
        BY <1>13
      <4> QED BY <1>13, <4>1, <4>2
    <3>2. Sent(n + 1)' = Sent(n + 1) /\ Sent(n)' = Sent(n)
      BY <1>1, Unmoved
    <3>3. Len(Sent(n)') + k + 1 = Len(Sent(n + 1)')
      BY <2>1, <3>1, <3>2
    <3> QED BY <1>9, <3>3 DEF InPlace
  <2> QED BY <1>1, <1>2, <1>11, <2>3, <2>4, <2>5, <2>6, ItemDone
<1>14. CASE Len(item) # 1
  <2>1. Byte # Zero /\ e = Byte
    <3>1. Byte # Zero
      BY <1>2, <1>3, <1>14, ItemLeaves
    <3> QED BY <1>7, <3>1
  <2>2. getrq = <<>> /\ Byte # "IAC"
    BY <2>1 DEF ReplaceZero, PassText
  <2>3. Second /\ CutIn(n + 1)
    <3>1. SUFFICES ASSUME ~(Second /\ CutIn(n + 1)) PROVE FALSE
      OBVIOUS
    <3>2. Began(n, k) = <<>>
      BY <2>2, <3>1 DEF At
    <3>3. Len(Began(n, k)) = k
      BY <1>2, <1>12, BeganGrows
    <3>4. k = 0
      BY <3>2, <3>3
    <3> QED BY <1>2, <1>3, <1>5, <1>14, <2>2, <3>4
  <2>4. Left' = Reached(n, k + 1)
    BY <1>2, <1>10, <1>12, <2>1, ReachedGrows
  <2>5. CASE k + 1 < Len(items[n + 1])
    BY <1>1, <1>2, <1>9, <1>11, <2>2, <2>3, <2>4, <2>5, SameItem
  <2>6. CASE k + 1 = Len(items[n + 1])
    <3>1. TextOf(n + 1) = items[n + 1] /\ ReplyOf(n + 1) = <<>>
      BY <1>2, <1>3, <1>14, <2>3, ItemLeaves
    <3>2. Reached(n, k + 1) = Out(n) \o items[n + 1]
      BY <1>2, <1>12, <2>6, ReachedGrows
    <3>3. Left' = Out(n + 1)
      BY <1>2, <2>4, <3>1, <3>2, OutGrows
    <3>4. Refused(n + 1) = Refused(n)
      <4>1. Refused(n) \in Seq(Refusals) /\ Refused(n + 1) = Refused(n) \o ReplyOf(n + 1)
        BY <1>2, RefusedGrows
      <4> QED BY <3>1, <4>1, JoinNone
    <3>5. InPlace(Len(Sent(n + 1)))'
      <4>1. Len(Sent(n + 1)) = Len(Sent(n)) + Len(items[n + 1]) /\ Len(Sent(n)) \in Nat
        BY <1>2, Layout
      <4>2. Sent(n + 1)' = Sent(n + 1) /\ Sent(n)' = Sent(n)
        BY <1>1, Unmoved
      <4>3. Len(Sent(n)') + k + 1 = Len(Sent(n + 1)')
        BY <2>6, <4>1, <4>2
      <4> QED BY <1>9, <4>3 DEF InPlace
    <3> QED BY <1>1, <1>2, <1>11, <2>2, <3>3, <3>4, <3>5, ItemDone
  <2> QED BY <1>2, <1>12, <2>5, <2>6
<1> QED BY <1>13, <1>14

(* A byte that is collected and does not complete its command. *)
LEMMA CollectStep ==
  ASSUME Typing, OptionsFit, Regular, NEW n \in 0 .. Len(items), NEW k \in 0 .. 2, At(n, k),
         CollectMore \/ CollectUnknown
  PROVE  Position'
<1>1. Collects
  BY DEF CollectMore, CollectUnknown
<1>2. PICK item : item = items[n + 1]
  OBVIOUS
<1>3. /\ n \in 0 .. Len(items) - 1 /\ Len(item) \in 2 .. 3
      /\ k + 1 \in 1 .. Len(item) /\ i < Len(recvbuf)
      /\ ~(Second /\ CutIn(n + 1))
      /\ Collected = Began(n, k + 1) /\ Len(Collected) = k + 1
      /\ \A j \in 1 .. k + 1 : Collected[j] = item[j]
  BY <1>1, <1>2, Collecting
<1>4. items \in Inputs /\ n + 1 \in 1 .. Len(items) /\ n + 1 \in DOMAIN items
  <2>1. items \in Inputs
    BY DEF Typing
  <2> QED BY <1>3, <2>1, InputBytes
<1>5. /\ Len(item) = 2 => item[2] = "NOP" \/ item[2] = "IAC"
      /\ Len(item) = 3 => item[2] \in Verbs
  <2>1. item \in Items /\ item # Unknown
    BY <1>2, <1>4, InputBytes DEF Regular
  <2> QED BY <2>1, ItemBytes
<1>6. CASE CollectUnknown
  <2>1. Len(Collected) > 1 /\ Collected[2] \notin Verbs \cup {"NOP", "IAC"}
    BY <1>6 DEF CollectUnknown
  <2>2. Collected[2] = item[2]
    BY <1>3, <2>1
  <2>3. Len(item) = 2 \/ Len(item) = 3
    BY <1>3
  <2> QED BY <1>5, <2>1, <2>2, <2>3
<1>7. CASE CollectMore
  <2>1. /\ UNCHANGED input /\ UNCHANGED replies /\ recvbuf' = recvbuf
        /\ getrq' = Collected /\ i' = i + 1
        /\ Len(Collected) < 3 /\ (Len(Collected) = 2 => Collected[2] \in Verbs)
    BY <1>7 DEF CollectMore
  <2>2. k + 1 < Len(item)
    <3>1. CASE Len(item) = 2
      <4>1. SUFFICES ASSUME k + 1 = 2 PROVE FALSE
        BY <1>3, <3>1
      <4>2. Collected[2] = item[2] /\ Collected[2] \in Verbs
        <5>1. 2 \in 1 .. k + 1 /\ Len(Collected) = 2
          BY <1>3, <4>1
        <5> QED BY <1>3, <2>1, <5>1
      <4> QED BY <1>5, <3>1, <4>2 DEF Verbs
    <3>2. CASE Len(item) = 3
      BY <1>3, <2>1, <3>2
    <3>3. Len(item) = 2 \/ Len(item) = 3
      BY <1>3
    <3> QED BY <3>1, <3>2, <3>3
  <2>3. /\ recvbuf \in Seq(Bytes) /\ i \in Nat /\ Len(recvbuf) \in Nat /\ text' = text
        /\ Byte = recvbuf[i + 1]
    BY <2>1, Unmoved DEF Typing, Byte
  <2>4. k < Len(item) /\ recvbuf[i + 1] = item[k + 1] /\ Len(Sent(n)) + k < Limit
    <3>1. k < Len(item)
      BY <2>2, <1>3
    <3> QED BY <1>2, <1>3, <3>1, NextByte
  <2>5. Left' = Reached(n, k + 1)
    <3>1. Left' = Append(Left, recvbuf'[i + 1])
      BY <1>3, <2>1, <2>3, Grown
    <3>2. Left = Reached(n, k)
      BY DEF At
    <3>3. Reached(n, k + 1) = Append(Reached(n, k), items[n + 1][k + 1])
      BY <1>2, <1>3, <1>4, <2>4, ReachedGrows
    <3> QED BY <1>2, <2>1, <2>4, <3>1, <3>2, <3>3
  <2>6. InPlace(Len(Sent(n)) + k + 1)'
    <3>1. PICK p : p = Len(Sent(n)) + k
      OBVIOUS
    <3>2. p \in Nat /\ p < Limit /\ InPlace(p)
      <4>1. Len(Sent(n)) \in Nat
        BY <1>3, <1>4, Layout
      <4> QED BY <2>4, <3>1, <4>1 DEF At
    <3>3. /\ Len(recvbuf') - i' = Len(recvbuf) - (i + 1)
          /\ \A j \in 1 .. Len(recvbuf) - (i + 1) : recvbuf'[i' + j] = recvbuf[i + 1 + j]
      BY <2>1
    <3>4. InPlace(p + 1)'
      BY <2>1, <3>2, <3>3, Onward
    <3>5. (p + 1 = Len(Sent(n)) + k + 1)'
      BY <2>1, <3>1, Unmoved
    <3> QED BY <3>4, <3>5 DEF InPlace
  <2> QED BY <1>2, <1>3, <2>1, <2>2, <2>5, <2>6, SameItem
<1> QED BY <1>6, <1>7

(* What stands before a command that is collected is what should come out.    *)
LEMMA Before ==
  ASSUME Typing, NEW n \in 0 .. Len(items) - 1, NEW k \in 0 .. 2, k < Len(items[n + 1]), At(n, k),
         getrq = Began(n, k)
  PROVE  i - k \in Nat /\ text \o SubSeq(recvbuf, 1, i - k) = Out(n)
<1>1. /\ recvbuf \in Seq(Bytes) /\ text \in Seq(Bytes) /\ items \in Inputs
      /\ i \in 0 .. Len(recvbuf) /\ i \in Nat /\ Len(recvbuf) \in Nat /\ Len(getrq) <= i
  BY DEF Typing
<1>2. n + 1 \in 1 .. Len(items) /\ n \in 0 .. Len(items)
  BY <1>1, InputBytes
<1>3. Len(items[n + 1]) \in 1 .. 3
  BY <1>1, <1>2, InputBytes, ItemBytes
<1>4. Began(n, k) \in Seq(Bytes) /\ Len(Began(n, k)) = k
  <2>1. k \in 0 .. Len(items[n + 1])
    BY <1>3
  <2> QED BY <1>1, <2>1, BeganGrows
<1>5. i - k \in Nat
  BY <1>1, <1>4
<1>6. PICK m \in Nat : m = i - k
  BY <1>5
<1>7. m \in 0 .. i /\ m \in 0 .. Len(recvbuf) /\ m + k = i
  BY <1>1, <1>6
<1>8. PICK b : b = SubSeq(recvbuf, 1, i)
  OBVIOUS
<1>9. b \in Seq(Bytes) /\ Len(b) = i /\ \A j \in 1 .. i : b[j] = recvbuf[j]
  BY <1>1, <1>8, FirstPart
<1>10. Out(n) \in Seq(Bytes)
  BY <1>1, <1>2, OutGrows
<1>11. text \o b = Out(n) \o Began(n, k)
  BY <1>8 DEF At, Left, Reached
<1>12. text \o SubSeq(b, 1, m) = Out(n)
  <2>1. Divided(Bytes, text, b, Out(n), Began(n, k), m)
    BY <1>1, <1>4, <1>7, <1>9, <1>10, <1>11 DEF Divided
  <2> QED BY <2>1, Shortened
<1>13. SubSeq(b, 1, m) = SubSeq(recvbuf, 1, m)
  <2>1. m \in 0 .. Len(b)
    BY <1>7, <1>9
  <2>2. /\ SubSeq(b, 1, m) \in Seq(Bytes) /\ DOMAIN SubSeq(b, 1, m) = 1 .. m
        /\ \A j \in 1 .. m : SubSeq(b, 1, m)[j] = b[j]
    BY <1>9, <2>1, SplitElements
  <2>3. /\ SubSeq(recvbuf, 1, m) \in Seq(Bytes) /\ DOMAIN SubSeq(recvbuf, 1, m) = 1 .. m
        /\ \A j \in 1 .. m : SubSeq(recvbuf, 1, m)[j] = recvbuf[j]
    BY <1>1, <1>7, SplitElements
  <2>4. \A j \in 1 .. m : j \in 1 .. i
    BY <1>1, <1>7
  <2> QED BY <1>9, <2>2, <2>3, <2>4, SameElements
<1> QED BY <1>5, <1>6, <1>12, <1>13

(* Where do_eat_chars leaves the loop. *)
LEMMA EatPlace ==
  ASSUME Typing, NEW n \in 0 .. Len(items) - 1, NEW k \in 0 .. 2, At(n, k), i < Len(recvbuf),
         k + 1 = Len(items[n + 1]), UNCHANGED input,
         NEW buf \in Seq(Bytes), Len(buf) = Len(recvbuf),
         \A j \in 1 .. Len(recvbuf) : j > i + 1 => buf[j] = recvbuf[j],
         NEW m \in Nat, m <= i + 1, EatChars(buf, m)
  PROVE  /\ InPlace(Len(Sent(n + 1)))' /\ getrq' = <<>>
         /\ Left' = text \o SubSeq(buf, 1, i + 1 - m)
<1>1. /\ i \in Nat /\ Len(recvbuf) \in Nat /\ items \in Inputs /\ n \in 0 .. Len(items)
  BY InputBytes DEF Typing
<1>2. PICK a : a = i + 1 - m
  OBVIOUS
<1>3. a \in 0 .. Len(buf) /\ i + 1 \in a .. Len(buf) /\ i + 1 + 1 = i + 2 /\ a \in Nat
  BY <1>1, <1>2
<1>4. i' = a /\ getrq' = <<>> /\ recvbuf' = SubSeq(buf, 1, a) \o SubSeq(buf, i + 1 + 1, Len(buf))
  BY <1>2, <1>3 DEF EatChars
<1>5. /\ recvbuf' \in Seq(Bytes) /\ Len(recvbuf') = a + Len(buf) - (i + 1)
      /\ \A j \in 1 .. Len(buf) - (i + 1) : recvbuf'[a + j] = buf[i + 1 + j]
      /\ \A j \in 1 .. a : recvbuf'[j] = buf[j]
  <2>1. TakenOut(Bytes, buf, a, i + 1, recvbuf')
    BY <1>3, <1>4 DEF TakenOut
  <2> QED BY <2>1, Eaten
<1>6. SubSeq(recvbuf', 1, a) = SubSeq(buf, 1, a)
  <2>1. PICK out : out = recvbuf'
    OBVIOUS
  <2>2. out \in Seq(Bytes) /\ Len(out) = a + Len(buf) - (i + 1)
        /\ \A j \in 1 .. a : out[j] = buf[j]
    BY <1>5, <2>1
  <2>3. a \in 0 .. Len(out)
    BY <1>1, <1>3, <2>2
  <2>4. /\ SubSeq(out, 1, a) \in Seq(Bytes) /\ DOMAIN SubSeq(out, 1, a) = 1 .. a
        /\ \A j \in 1 .. a : SubSeq(out, 1, a)[j] = out[j]
    BY <2>2, <2>3, SplitElements
  <2>5. /\ SubSeq(buf, 1, a) \in Seq(Bytes) /\ DOMAIN SubSeq(buf, 1, a) = 1 .. a
        /\ \A j \in 1 .. a : SubSeq(buf, 1, a)[j] = buf[j]
    BY <1>3, SplitElements
  <2> QED BY <2>1, <2>2, <2>4, <2>5, SameElements
<1>7. Left' = text \o SubSeq(buf, 1, i + 1 - m)
  <2>1. text' = text
    BY Unmoved
  <2> QED BY <1>2, <1>4, <1>6, <2>1 DEF Left
<1>8. InPlace(Len(Sent(n + 1)))'
  <2>1. PICK p : p = Len(Sent(n)) + k
    OBVIOUS
  <2>2. /\ Len(Sent(n)) \in Nat /\ Len(Sent(n + 1)) = Len(Sent(n)) + Len(items[n + 1])
        /\ Len(Sent(n)) + k < Limit
    <3>1. Len(Sent(n)) + k < Limit
      BY <1>1, NextByte
    <3>2. Len(Sent(n)) \in 0 .. Len(Stream) /\ Len(Stream) \in Nat
      BY <1>1, Layout
    <3>3. Len(Sent(n + 1)) = Len(Sent(n)) + Len(items[n + 1])
      BY <1>1, Layout
    <3> QED BY <3>1, <3>2, <3>3
  <2>3. p \in Nat /\ p < Limit /\ InPlace(p)
    BY <2>1, <2>2 DEF At
  <2>4. Len(recvbuf') - i' = Len(recvbuf) - (i + 1)
    <3>1. PICK len : len = Len(recvbuf')
      OBVIOUS
    <3>2. len = a + Len(recvbuf) - (i + 1)
      BY <1>5, <3>1
    <3>3. len - a = Len(recvbuf) - (i + 1)
      BY <1>1, <1>3, <3>2
    <3> QED BY <1>4, <3>1, <3>3
  <2>5. \A j \in 1 .. Len(recvbuf) - (i + 1) : recvbuf'[i' + j] = recvbuf[i + 1 + j]
    <3>1. ASSUME NEW j \in 1 .. Len(recvbuf) - (i + 1)
          PROVE  i + 1 + j \in 1 .. Len(recvbuf) /\ i + 1 + j > i + 1
      BY <1>1
    <3> QED BY <1>4, <1>5, <3>1
  <2>6. InPlace(p + 1)'
    BY <2>3, <2>4, <2>5, Onward
  <2>7. p + 1 = Len(Sent(n + 1))
    BY <2>1, <2>2
  <2>8. (p + 1 = Len(Sent(n + 1)))'
    BY <2>1, <2>7, Unmoved
  <2> QED BY <2>6, <2>8 DEF InPlace
<1> QED BY <1>4, <1>7, <1>8

(* A command that is complete leaves the buffer, and at most one byte of it.  *)
LEMMA EatStep ==
  ASSUME Typing, OptionsFit, Regular, NEW n \in 0 .. Len(items), NEW k \in 0 .. 2, At(n, k),
         EatSimple \/ EatEscaped \/ RefuseOption
  PROVE  Position'
<1>1. Collects /\ UNCHANGED input
  BY DEF EatSimple, EatEscaped, RefuseOption
<1>2. PICK item : item = items[n + 1]
  OBVIOUS
<1>3. /\ n \in 0 .. Len(items) - 1 /\ Len(item) \in 2 .. 3
      /\ k + 1 \in 1 .. Len(item) /\ i < Len(recvbuf)
      /\ ~(Second /\ CutIn(n + 1))
      /\ getrq = Began(n, k) /\ Len(getrq) = k
      /\ Len(Collected) = k + 1
      /\ \A j \in 1 .. k + 1 : Collected[j] = item[j]
      /\ k + 1 = Len(item) => Collected = item
  BY <1>1, <1>2, Collecting
<1>4. items \in Inputs /\ n + 1 \in 1 .. Len(items) /\ n + 1 \in DOMAIN items /\ cut \in Nat
  <2>1. items \in Inputs
    BY DEF Typing
  <2>2. cut \in 0 .. Len(Stream) /\ Len(Stream) \in Nat
    BY <2>1, Layout DEF Typing
  <2> QED BY <1>3, <2>1, <2>2, InputBytes
<1>5. /\ Len(item) = 2 => item[1] = "IAC" /\ (item[2] = "NOP" \/ item = <<"IAC", "IAC">>)
      /\ Len(item) = 3 => item[1] = "IAC" /\ item[2] \in Verbs
  <2>1. item \in Items /\ item # Unknown
    BY <1>2, <1>4, InputBytes DEF Regular
  <2> QED BY <2>1, ItemBytes
<1>6. /\ Len(Collected) = 2 => Collected[2] = "NOP" \/ Collected[2] = "IAC"
      /\ Len(Collected) = 3 => Collected[2] \in Verbs
  BY DEF EatSimple, EatEscaped, RefuseOption
<1>7. k + 1 = Len(item) /\ Collected = item /\ k # 0
  <2>1. k + 1 = 2 \/ k + 1 = 3
    BY <1>3 DEF EatSimple, EatEscaped, RefuseOption
  <2>2. 2 \in 1 .. k + 1
    BY <2>1
  <2>3. Collected[2] = item[2]
    BY <1>3, <2>2
  <2>4. ASSUME Len(item) = 3, k + 1 = 2 PROVE FALSE
    BY <1>3, <1>5, <1>6, <2>3, <2>4 DEF Verbs
  <2>5. k + 1 = Len(item)
    <3>1. PICK len \in 2 .. 3 : len = Len(item)
      BY <1>3
    <3>2. k + 1 <= len /\ ~(len = 3 /\ k + 1 = 2)
      BY <1>3, <2>4, <3>1
    <3>3. k + 1 = len
      BY <2>1, <3>2
    <3> QED BY <3>1, <3>3
  <2> QED BY <1>3, <2>1, <2>5
<1>8. k < Len(items[n + 1]) /\ k + 1 = Len(items[n + 1])
  BY <1>2, <1>3, <1>7
<1>9. ~CutIn(n + 1)
  BY <1>3, <1>8, Whole
<1>10. /\ recvbuf \in Seq(Bytes) /\ text \in Seq(Bytes) /\ i \in Nat /\ Len(recvbuf) \in Nat
       /\ eat_chars = k /\ i \in 0 .. Len(recvbuf)
  BY <1>3 DEF Typing
<1>11. /\ i - k \in Nat /\ text \o SubSeq(recvbuf, 1, i - k) = Out(n)
  BY <1>3, <1>8, Before
<1>12. /\ Out(n) \in Seq(Bytes) /\ Out(n + 1) = Out(n) \o TextOf(n + 1)
       /\ Refused(n) \in Seq(Refusals) /\ Refused(n + 1) = Refused(n) \o ReplyOf(n + 1)
       /\ replies = Refused(n) /\ replies \in Seq(Refusals)
  BY <1>3, <1>4, OutGrows, RefusedGrows DEF At
<1>13. /\ TextOf(n + 1) = IF item = <<"IAC", "IAC">> THEN <<"IAC">> ELSE <<>>
       /\ Len(item) = 2 => ReplyOf(n + 1) = <<>>
       /\ Len(item) = 3 => ReplyOf(n + 1) = << <<"IAC", Refusal(item[2]), item[3]>> >>
  <2>1. Len(item) \in 2 .. 3
    BY <1>3
  <2>2. \A len \in 2 .. 3 : len # 1 /\ (len = 2 => len # 3)
    OBVIOUS
  <2>3. Len(item) # 1 /\ (Len(item) = 2 => Len(item) # 3)
    BY <2>1, <2>2
  <2>4. /\ Len(item) # 1 /\ ~CutIn(n + 1)
             => TextOf(n + 1) = IF item = <<"IAC", "IAC">> THEN <<"IAC">> ELSE <<>>
        /\ Len(item) # 3 => ReplyOf(n + 1) = <<>>
        /\ Len(item) = 3 /\ ~CutIn(n + 1)
             => ReplyOf(n + 1) = << <<"IAC", Refusal(item[2]), item[3]>> >>
    BY <1>2, <1>3, <1>4, ItemLeaves
  <2> QED BY <1>9, <2>3, <2>4
<1>14. Out(n) \o <<>> = Out(n) /\ Refused(n) \o <<>> = Refused(n)
  BY <1>12, JoinNone
<1>15. ASSUME EatChars(recvbuf, k + 1)
       PROVE  InPlace(Len(Sent(n + 1)))' /\ getrq' = <<>> /\ Left' = Out(n)
  <2>1. PICK m \in Nat : m = k + 1
    OBVIOUS
  <2>2. PICK buf : buf = recvbuf
    OBVIOUS
  <2>3. /\ buf \in Seq(Bytes) /\ Len(buf) = Len(recvbuf) /\ EatChars(buf, m) /\ m <= i + 1
        /\ \A j \in 1 .. Len(recvbuf) : j > i + 1 => buf[j] = recvbuf[j]
        /\ i + 1 - m = i - k
    BY <1>10, <1>11, <1>15, <2>1, <2>2
  <2>4. /\ InPlace(Len(Sent(n + 1)))' /\ getrq' = <<>>
        /\ Left' = text \o SubSeq(buf, 1, i + 1 - m)
    BY <1>1, <1>3, <1>8, <2>3, EatPlace
  <2> QED BY <1>11, <2>2, <2>3, <2>4
<1>16. CASE EatSimple
  <2>1. EatChars(recvbuf, k + 1) /\ replies' = replies /\ Len(item) = 2 /\ item[2] = "NOP"
    BY <1>7, <1>10, <1>16 DEF EatSimple
  <2>2. TextOf(n + 1) = <<>> /\ ReplyOf(n + 1) = <<>>
    <3>1. Len(item) = 2 /\ item[2] = "NOP"
      BY <2>1
    <3>2. <<"IAC", "IAC">>[2] # "NOP"
      OBVIOUS
    <3>3. item # <<"IAC", "IAC">>
      BY <3>1, <3>2
    <3> QED BY <1>13, <3>1, <3>3
  <2>3. Out(n + 1) = Out(n) /\ Refused(n + 1) = Refused(n)
    BY <1>12, <1>14, <2>2
  <2>4. replies' = Refused(n + 1)
    BY <1>12, <2>1, <2>3
  <2> QED BY <1>1, <1>3, <1>15, <2>1, <2>3, <2>4, ItemDone
<1>17. CASE RefuseOption
  <2>1. /\ EatChars(recvbuf, k + 1) /\ Len(item) = 3
        /\ replies' = Append(replies, <<"IAC", Refusal(item[2]), item[3]>>)
    BY <1>7, <1>10, <1>17 DEF RefuseOption
  <2>2. /\ TextOf(n + 1) = <<>>
        /\ ReplyOf(n + 1) = << <<"IAC", Refusal(item[2]), item[3]>> >>
    <3>1. Len(item) = 3
      BY <2>1
    <3>2. Len(<<"IAC", "IAC">>) # 3
      OBVIOUS
    <3>3. item # <<"IAC", "IAC">>
      BY <3>1, <3>2
    <3> QED BY <1>13, <3>1, <3>3
  <2>3. Out(n + 1) = Out(n)
    BY <1>12, <1>14, <2>2
  <2>4. replies' = Refused(n + 1)
    <3>1. PICK r : r = <<"IAC", Refusal(item[2]), item[3]>>
      OBVIOUS
    <3>2. r \in Refusals
      <4>1. item[3] \in Bytes
        <5>1. items[n + 1] \in Items
          BY <1>4, InputBytes
        <5>2. item \in Seq(Bytes)
          BY <1>2, <5>1, ItemBytes
        <5>3. 3 \in 1 .. Len(item)
          BY <2>1
        <5> QED BY <5>2, <5>3
      <4> QED BY <3>1, <4>1 DEF Refusals, Refusal
    <3>3. replies \o <<r>> = Append(replies, r)
      BY <1>12, <3>2, JoinLast
    <3> QED BY <1>12, <2>1, <2>2, <3>1, <3>3
  <2> QED BY <1>1, <1>3, <1>15, <2>1, <2>3, <2>4, ItemDone
<1>18. CASE EatEscaped
  <2>1. /\ k = 1 /\ item = <<"IAC", "IAC">> /\ replies' = replies
    <3>1. Len(Collected) = 2 /\ Collected[2] = "IAC" /\ replies' = replies
      BY <1>18 DEF EatEscaped
    <3>2. k = 1
      <4>1. \A x \in 0 .. 2 : x + 1 = 2 => x = 1
        OBVIOUS
      <4> QED BY <1>3, <3>1, <4>1
    <3> QED BY <1>5, <1>7, <3>1, <3>2
  <2>2. PICK buf : buf = [recvbuf EXCEPT ![i] = "IAC"]
    OBVIOUS
  <2>3. EatChars(buf, 1)
    <3>1. i + 1 - 1 = i
      BY <1>10
    <3> QED BY <1>10, <1>18, <2>1, <2>2, <3>1 DEF EatEscaped
  <2>4. "IAC" \in Bytes
    <3>1. <<"IAC", "IAC">> \in Items
      BY DEF Items
    <3> QED BY <3>1, ItemBytes
  <2>5. i \in 1 .. Len(recvbuf) /\ DOMAIN recvbuf = 1 .. Len(recvbuf)
    BY <1>10, <1>11, <2>1
  <2>6. /\ buf \in Seq(Bytes) /\ Len(buf) = Len(recvbuf) /\ buf[i] = "IAC"
        /\ \A j \in 1 .. Len(recvbuf) : j # i => buf[j] = recvbuf[j]
    BY <1>10, <2>2, <2>4, <2>5, Replaced
  <2>7. PICK m \in Nat : m = i - 1
    BY <1>11, <2>1
  <2>8. m < Len(recvbuf) /\ m + 1 = i /\ i + 1 - 1 = i /\ m = i - k /\ m \in 0 .. Len(recvbuf)
    BY <1>10, <2>1, <2>5, <2>7
  <2>9. SubSeq(buf, 1, i) = Append(SubSeq(recvbuf, 1, m), "IAC")
    <3>1. \A j \in 1 .. m : buf[j] = recvbuf[j]
      BY <1>10, <2>6, <2>8
    <3>2. SubSeq(buf, 1, m + 1) = Append(SubSeq(recvbuf, 1, m), buf[m + 1])
      BY <1>10, <2>6, <2>8, <3>1, OneMore
    <3> QED BY <2>6, <2>8, <3>2
  <2>10. text \o SubSeq(recvbuf, 1, m) = Out(n)
    BY <1>11, <2>8
  <2>11. text \o SubSeq(buf, 1, i) = Append(Out(n), "IAC")
    <3>1. PICK s \in Seq(Bytes) : s = SubSeq(recvbuf, 1, m)
      BY <1>10, <2>8, FirstPart
    <3>2. text \o Append(s, "IAC") = Append(text \o s, "IAC")
      BY <1>10, <2>4, <3>1, JoinOne
    <3> QED BY <2>9, <2>10, <3>1, <3>2
  <2>12. /\ InPlace(Len(Sent(n + 1)))' /\ getrq' = <<>>
         /\ Left' = text \o SubSeq(buf, 1, i + 1 - 1)
    <3>1. 1 \in Nat /\ 1 <= i + 1
      BY <1>10
    <3>2. \A j \in 1 .. Len(recvbuf) : j > i + 1 => buf[j] = recvbuf[j]
      BY <1>10, <2>6
    <3> QED BY <1>1, <1>3, <1>8, <2>3, <2>6, <3>1, <3>2, EatPlace
  <2>13. Left' = Out(n + 1) /\ replies' = Refused(n + 1)
    <3>1. TextOf(n + 1) = <<"IAC">> /\ ReplyOf(n + 1) = <<>>
      BY <1>7, <1>8, <1>13, <2>1
    <3>2. Out(n) \o <<"IAC">> = Append(Out(n), "IAC")
      BY <1>12, <2>4, JoinLast
    <3> QED BY <1>12, <1>14, <2>1, <2>8, <2>11, <2>12, <3>1, <3>2
  <2> QED BY <1>1, <1>3, <2>12, <2>13, ItemDone
<1> QED BY <1>16, <1>17, <1>18

(* The second recv. *)
LEMMA RecvStep ==
  ASSUME Typing, NEW n \in 0 .. Len(items), NEW k \in 0 .. 2, At(n, k), NextRecv
  PROVE  Position'
<1>1. /\ rest # <<>> /\ items' = items /\ cut' = cut /\ replies' = replies
      /\ text' = recvbuf /\ recvbuf' = rest /\ rest' = <<>>
      /\ i' = 0 /\ getrq' = <<>> /\ i >= Len(recvbuf)
  BY DEF NextRecv, Returned
<1>2. /\ items \in Inputs /\ cut \in 0 .. Len(Stream) /\ rest \in Seq(Bytes)
      /\ rest = SubSeq(Stream, cut + 1, Len(Stream)) /\ text = <<>>
      /\ recvbuf \in Seq(Bytes) /\ i \in 0 .. Len(recvbuf)
      /\ getrq \in Seq(Bytes)
  BY <1>1 DEF Typing
<1>3. /\ Stream \in Seq(Bytes) /\ Len(Stream) \in Nat /\ Len(recvbuf) \in Nat /\ i = Len(recvbuf)
      /\ cut \in Nat /\ Len(Sent(n)) \in Nat
  BY <1>1, <1>2, Layout
<1>4. PICK p : p = Len(Sent(n)) + k
  OBVIOUS
<1>5. p = cut
  <2>1. InPlace(p) /\ Limit = cut
    BY <1>1, <1>4 DEF At, Limit
  <2>2. Len(recvbuf) - i = cut - p
    BY <2>1 DEF InPlace
  <2> QED BY <1>3, <1>4, <2>2
<1>6. Stream' = Stream /\ (\A m : Sent(m)' = Sent(m) /\ CutIn(m)' = CutIn(m)
                                 /\ Out(m)' = Out(m) /\ Refused(m)' = Refused(m)
                                 /\ \A j : Began(m, j)' = Began(m, j))
  <2>1. \A m : Sent(m)' = Sent(m) /\ CutIn(m)' = CutIn(m) /\ \A j : Began(m, j)' = Began(m, j)
    BY <1>1 DEF Sent, CutIn, Offset, Began
  <2>2. \A m : TextOf(m)' = TextOf(m) /\ ReplyOf(m)' = ReplyOf(m)
    BY <1>1, <2>1 DEF TextOf, ReplyOf
  <2>3. TextItems' = TextItems /\ ReplyItems' = ReplyItems
    BY <1>1, <2>2 DEF TextItems, ReplyItems
  <2>4. \A m : Out(m)' = Out(m) /\ Refused(m)' = Refused(m)
    BY <2>3 DEF Out, Refused
  <2>5. Stream' = Stream
    BY <1>1 DEF Stream
  <2> QED BY <2>1, <2>4, <2>5
<1>7. /\ Len(rest) = Len(Stream) - cut
      /\ \A j \in 1 .. Len(Stream) - cut : rest[j] = Stream[cut + j]
  BY <1>2, <1>3
<1>8. cut < Len(Stream)
  <2>1. Len(rest) # 0
    BY <1>1, <1>2
  <2> QED BY <1>2, <1>3, <1>7, <2>1
<1>9. InPlace(p)'
  <2>1. Limit' = Len(Stream)
    BY <1>1, <1>6 DEF Limit
  <2>2. Len(rest) - 0 = Len(Stream) - p
    BY <1>2, <1>3, <1>5, <1>7
  <2>3. \A j \in 1 .. Len(Stream) - p : rest[0 + j] = Stream[p + j]
    BY <1>3, <1>5, <1>7
  <2>4. cut <= p
    BY <1>3, <1>5
  <2> QED BY <1>1, <1>6, <2>1, <2>2, <2>3, <2>4 DEF InPlace
<1>10. Left' = Reached(n, k)'
  <2>1. SubSeq(rest, 1, 0) = <<>> /\ SubSeq(recvbuf, 1, Len(recvbuf)) = recvbuf
        /\ recvbuf \o <<>> = recvbuf /\ <<>> \o recvbuf = recvbuf
    BY <1>2
  <2>2. Left = recvbuf /\ Left' = recvbuf
    BY <1>1, <1>2, <1>3, <2>1 DEF Left
  <2> QED BY <1>6, <2>2 DEF At, Reached
<1>11. ASSUME k # 0 PROVE CutIn(n + 1)
  <2>1. n # Len(items) /\ k < Len(items[n + 1])
    BY <1>11 DEF At
  <2>2. n \in 0 .. Len(items) - 1 /\ n + 1 \in 1 .. Len(items)
    <3>1. PICK len \in Nat : len = Len(items)
      BY <1>2, InputBytes
    <3>2. n \in 0 .. len /\ n # len
      BY <2>1, <3>1
    <3>3. n \in 0 .. len - 1 /\ n + 1 \in 1 .. len
      BY <3>1, <3>2
    <3> QED BY <3>1, <3>3
  <2>3. Len(items[n + 1]) \in 1 .. 3
    BY <1>2, <2>2, InputBytes, ItemBytes
  <2>4. Len(Sent(n)) < cut /\ cut < Len(Sent(n)) + Len(items[n + 1])
    BY <1>3, <1>4, <1>5, <1>11, <2>1, <2>3
  <2> QED BY <1>2, <2>2, <2>4, CutAt
<1>12. (getrq = IF Second /\ CutIn(n + 1) THEN <<>> ELSE Began(n, k))'
  <2>1. Second' /\ CutIn(n + 1)' = CutIn(n + 1)
    BY <1>1, <1>6, <1>8 DEF Second
  <2>2. k = 0 => Began(n, k)' = <<>>
    BY DEF Began
  <2> QED BY <1>1, <1>11, <2>1, <2>2
<1>13. (IF n = Len(items) THEN k = 0 ELSE k < Len(items[n + 1]))'
  BY <1>1 DEF At
<1>14. InPlace(Len(Sent(n)) + k)'
  BY <1>4, <1>6, <1>9 DEF InPlace
<1>15. (replies = Refused(n))'
  BY <1>1, <1>6 DEF At
<1>16. At(n, k)'
  BY <1>10, <1>12, <1>13, <1>14, <1>15 DEF At
<1> QED BY <1>1, <1>16 DEF Position

LEMMA PositionInit ==
  ASSUME Init, Typing
  PROVE  Position
<1>1. /\ items \in Inputs /\ cut \in 0 .. Len(Stream) /\ text = <<>> /\ i = 0 /\ getrq = <<>>
      /\ replies = <<>> /\ recvbuf = SubSeq(Stream, 1, cut)
      /\ rest = SubSeq(Stream, cut + 1, Len(Stream))
  BY DEF Init, Stream
<1>2. /\ Stream \in Seq(Bytes) /\ Len(Stream) \in Nat /\ cut \in Nat /\ Len(Sent(0)) = 0
      /\ Len(items) \in Nat
  BY <1>1, Layout, InputBytes
<1>3. Limit = cut /\ ~Second
  <2>1. Len(rest) = Len(Stream) - cut
    BY <1>1, <1>2
  <2>2. rest = <<>> => cut = Len(Stream)
    <3>1. rest = <<>> => Len(rest) = 0
      OBVIOUS
    <3> QED BY <1>2, <2>1, <3>1
  <2> QED BY <1>1, <1>2, <2>2 DEF Limit, Second
<1>4. Len(recvbuf) = cut /\ \A j \in 1 .. cut : recvbuf[j] = Stream[j]
  BY <1>1, <1>2, FirstPart
<1>5. InPlace(Len(Sent(0)) + 0)
  <2>1. Len(Sent(0)) + 0 = 0
    BY <1>2
  <2>2. Len(recvbuf) - 0 = cut - 0 /\ \A j \in 1 .. cut - 0 : recvbuf[0 + j] = Stream[0 + j]
    BY <1>2, <1>4
  <2> QED BY <1>1, <1>3, <2>1, <2>2 DEF InPlace
<1>6. Left = Reached(0, 0)
  <2>1. recvbuf \in Seq(Bytes)
    BY DEF Typing
  <2>2. SubSeq(recvbuf, 1, 0) = <<>> /\ <<>> \o <<>> = <<>>
    BY <2>1
  <2> QED BY <1>1, <2>2, OutGrows DEF Left, Reached, Began
<1>7. IF 0 = Len(items) THEN 0 = 0 ELSE 0 < Len(items[0 + 1])
  <2>1. ASSUME 0 # Len(items) PROVE Len(items[1]) \in 1 .. 3
    BY <1>1, <1>2, <2>1, InputBytes, ItemBytes
  <2> QED BY <2>1
<1>8. At(0, 0)
  BY <1>1, <1>3, <1>5, <1>6, <1>7, RefusedGrows DEF At, Began
<1> QED BY <1>2, <1>8 DEF Position

LEMMA PositionStep ==
  ASSUME OptionsFit, Typing, Regular, Position, [Next]_vars
  PROVE  Position'
<1>1. PICK n \in 0 .. Len(items), k \in 0 .. 2 : At(n, k)
  BY DEF Position
<1>2. CASE NextRecv
  BY <1>1, <1>2, RecvStep
<1>3. CASE ReplaceZero \/ PassText
  BY <1>1, <1>3, PassStep
<1>4. CASE CollectMore \/ CollectUnknown
  BY <1>1, <1>4, CollectStep
<1>5. CASE EatSimple \/ EatEscaped \/ RefuseOption
  BY <1>1, <1>5, EatStep
<1>6. CASE UNCHANGED vars
  <2>1. UNCHANGED input /\ recvbuf' = recvbuf /\ i' = i /\ getrq' = getrq /\ replies' = replies
    BY <1>6 DEF vars
  <2>2. InPlace(Len(Sent(n)) + k)'
    BY <1>1, <2>1, Unmoved DEF At, InPlace
  <2>3. (Left = Reached(n, k))'
    BY <1>1, <2>1, Unmoved DEF At, Left, Reached
  <2>4. At(n, k)'
    BY <1>1, <2>1, <2>2, <2>3, Unmoved DEF At
  <2>5. items' = items
    BY <2>1, Unmoved
  <2> QED BY <2>4, <2>5 DEF Position
<1> QED BY <1>2, <1>3, <1>4, <1>5, <1>6 DEF Next

-----------------------------------------------------------------------------
LEMMA InvStep == OptionsFit /\ Inv /\ [Next]_vars => Inv'
<1> SUFFICES ASSUME OptionsFit, Inv, [Next]_vars PROVE Inv'
  OBVIOUS
<1>1. Typing /\ Typing'
  BY TypeStep DEF Inv
<1>2. Regular' => Regular
  <2>1. items' = items /\ cut' = cut
    BY DEF Next, vars, input, NextRecv, ReplaceZero, PassText, CollectMore, CollectUnknown,
           EatSimple, EatEscaped, RefuseOption
  <2> QED BY <2>1 DEF Regular, CutIn, Offset
<1>3. Regular' => Position'
  BY <1>1, <1>2, PositionStep DEF Inv
<1> QED BY <1>1, <1>3 DEF Inv

LEMMA Invariant == ASSUME OptionsFit PROVE Spec => []Inv
<1>1. Init => Inv
  BY TypeInit, PositionInit DEF Inv
<1>2. Inv /\ [Next]_vars => Inv'
  BY InvStep
<1> QED BY <1>1, <1>2, PTL DEF Spec

(* TelnetParse.TypeOK (HLRConnector::TelnetParse): the index stays in the     *)
(* buffer, although do_eat_chars moves it back, eat_chars counts the command  *)
(* that is collected, and no device that is regular fills the command buffer, *)
(* however much it sends and wherever recv cuts it.                           *)
THEOREM TypeCorrect == ASSUME OptionsFit PROVE Spec => []TypeOK
<1>1. Inv => TypeOK
  <2> SUFFICES ASSUME Inv PROVE TypeOK
    OBVIOUS
  <2>1. /\ items \in Inputs /\ cut \in 0 .. Len(Stream) /\ i \in 0 .. Len(recvbuf)
        /\ rest \in Seq(Bytes) /\ text \in Seq(Bytes) /\ recvbuf \in Seq(Bytes)
        /\ eat_chars = Len(getrq) /\ replies \in Seq(Refusals)
    BY DEF Inv, Typing
  <2>2. cut \in Nat
    BY <2>1, Layout
  <2>3. ASSUME Regular PROVE Len(getrq) < 3
    <3>1. PICK n \in 0 .. Len(items), k \in 0 .. 2 : At(n, k)
      BY <2>3 DEF Inv, Position
    <3>2. getrq = <<>> \/ getrq = Began(n, k)
      BY <3>1 DEF At
    <3>3. Len(Began(n, k)) < 3
      <4>1. CASE k = 0
        BY <4>1 DEF Began
      <4>2. CASE k # 0
        <5>1. n # Len(items) /\ k < Len(items[n + 1])
          BY <3>1, <4>2 DEF At
        <5>2. PICK len \in Nat : len = Len(items)
          BY <2>1, InputBytes
        <5>3. n \in 0 .. Len(items) - 1 /\ n + 1 \in 1 .. Len(items)
          <6>1. n \in 0 .. len /\ n # len
            BY <5>1, <5>2
          <6>2. n \in 0 .. len - 1 /\ n + 1 \in 1 .. len
            BY <5>2, <6>1
          <6> QED BY <5>2, <6>2
        <5>4. Len(items[n + 1]) \in 1 .. 3
          BY <2>1, <5>3, InputBytes, ItemBytes
        <5>5. k \in 0 .. Len(items[n + 1])
          BY <3>1, <5>1, <5>4
        <5>6. Len(Began(n, k)) = k
          BY <2>1, <5>3, <5>5, BeganGrows
        <5> QED BY <3>1, <5>6
      <4> QED BY <4>1, <4>2
    <3> QED BY <3>2, <3>3
  <2> QED BY <2>1, <2>2, <2>3 DEF TypeOK, Refusals
<1> QED BY <1>1, Invariant, PTL

(* HLRConnector::TelnetParse, at do_eat_chars: whatever the options, whether  *)
(* or not the codes are known, never are more bytes taken out than stand      *)
(* behind the index. It becomes negative, as the comment there says, by no    *)
(* more than the one that the loop adds again.                                *)
THEOREM IndexInBuffer == Spec => [](i \in 0 .. Len(recvbuf) /\ 0 <= eat_chars /\ eat_chars <= i)
<1>1. Typing => i \in 0 .. Len(recvbuf) /\ 0 <= eat_chars /\ eat_chars <= i
  BY DEF Typing
<1> QED BY <1>1, TypeInvariant, PTL

(* TelnetParse.TextAndRefusals (HLRConnector::TelnetParse): of a regular      *)
(* stream, cut anywhere, exactly its text is left, and each option in a       *)
(* command received whole is refused once, in order.                          *)
THEOREM TextRight == ASSUME OptionsFit PROVE Spec => []TextAndRefusals
<1>1. Inv => TextAndRefusals
  <2> SUFFICES ASSUME Inv, Done, Regular
               PROVE  text \o recvbuf = ExpectedText /\ replies = ExpectedReplies
    BY DEF TextAndRefusals
  <2>1. PICK n \in 0 .. Len(items), k \in 0 .. 2 : At(n, k)
    BY DEF Inv, Position
  <2>2. /\ items \in Inputs /\ i \in 0 .. Len(recvbuf) /\ recvbuf \in Seq(Bytes) /\ rest = <<>>
        /\ i >= Len(recvbuf) /\ text \in Seq(Bytes)
    BY DEF Inv, Typing, Done, Returned
  <2>3. i = Len(recvbuf) /\ Len(recvbuf) \in Nat
    BY <2>2
  <2>4. Len(Stream) \in Nat /\ Len(Sent(n)) \in Nat
    BY <2>1, <2>2, Layout
  <2>5. Len(Sent(n)) + k = Len(Stream)
    <3>1. PICK p : p = Len(Sent(n)) + k
      OBVIOUS
    <3>2. Len(recvbuf) - i = Len(Stream) - p
      BY <2>1, <2>2, <3>1 DEF At, InPlace, Limit
    <3>3. p \in Nat
      BY <2>1, <2>4, <3>1
    <3> QED BY <2>3, <2>4, <3>1, <3>2, <3>3
  <2>6. n = Len(items) /\ k = 0
    <3>1. SUFFICES ASSUME n # Len(items) PROVE FALSE
      BY <2>1 DEF At
    <3>2. PICK len \in Nat : len = Len(items)
      BY <2>2, InputBytes
    <3>3. n \in 0 .. Len(items) - 1 /\ n + 1 \in 0 .. Len(items) /\ n + 1 \in 1 .. Len(items)
      <4>1. n \in 0 .. len /\ n # len
        BY <2>1, <3>1, <3>2
      <4>2. n \in 0 .. len - 1 /\ n + 1 \in 0 .. len /\ n + 1 \in 1 .. len
        BY <3>2, <4>1
      <4> QED BY <3>2, <4>2
    <3>4. Len(items[n + 1]) \in 1 .. 3
      BY <2>2, <3>3, InputBytes, ItemBytes
    <3>5. Len(Sent(n + 1)) = Len(Sent(n)) + Len(items[n + 1])
      BY <2>2, <3>3, Layout
    <3>6. Len(Sent(n + 1)) \in 0 .. Len(Stream)
      BY <2>2, <3>3, Layout
    <3>7. k < Len(items[n + 1])
      BY <2>1, <3>1 DEF At
    <3> QED BY <2>1, <2>4, <2>5, <3>4, <3>5, <3>6, <3>7
  <2>7. replies = ExpectedReplies
    BY <2>1, <2>2, <2>6, RefusedGrows DEF At
  <2>8. Left = text \o recvbuf
    BY <2>2, <2>3 DEF Left
  <2>9. Left = ExpectedText
    <3>1. Out(n) \in Seq(Bytes) /\ Out(n) = ExpectedText
      BY <2>1, <2>2, <2>6, OutGrows
    <3>2. Left = Out(n) \o <<>>
      BY <2>1, <2>6 DEF At, Reached, Began
    <3> QED BY <3>1, <3>2, JoinNone
  <2> QED BY <2>7, <2>8, <2>9
<1> QED BY <1>1, Invariant, PTL

=============================================================================
