----------------------------- MODULE TelnetParse -----------------------------
(***************************************************************************)
(* HLRConnector::TelnetParse, one byte of the buffer per step: it takes    *)
(* Telnet commands out of the text in place, answers every option with a   *)
(* refusal, and replaces zero bytes by spaces.                             *)
(*                                                                         *)
(* The input is a sequence of items, each a byte of text or one complete   *)
(* command, so that what should come out of it is known.  It arrives in    *)
(* two recv calls, cut anywhere, and each call's bytes are filtered alone. *)
(* A byte is named by what the function compares it with.                  *)
(***************************************************************************)
EXTENDS Integers, Sequences, SequencesExt

CONSTANTS Options,    \* option bytes the device negotiates
          MaxItems    \* bound: items the device sends

ASSUME ItemsAssumption == MaxItems \in Nat

Zero == "0"
Verbs == {"WILL", "WONT", "DO", "DONT"}

(* Text, a zero byte, a command without data, a doubled IAC, a negotiation,   *)
(* and a code the function does not know.                                     *)
Text        == { <<"a">>, <<Zero>> }
Negotiation == { <<"IAC", verb, opt>> : verb \in Verbs, opt \in Options }
Unknown     == <<"IAC", "unknown">>
Items       == Text \cup { <<"IAC", "NOP">>, <<"IAC", "IAC">>, Unknown } \cup Negotiation

VARIABLES
  items,       \* what the device sends
  cut,         \* how many of its bytes the first recv returns
  rest,        \* the bytes the second recv will return
  text,        \* what the first call of the function left
  recvbuf,     \* the buffer up to *bytesRecv
  i,           \* the loop index, from 0
  getrq,       \* the command being collected; its length is l
  eat_chars,
  replies      \* what was sent back

input == <<items, cut, rest, text>>
vars == <<input, recvbuf, i, getrq, eat_chars, replies>>

Inputs == UNION { [1 .. n -> Items] : n \in 0 .. MaxItems }

Init ==
  /\ items \in Inputs
  /\ LET bytes == FlattenSeq(items) IN
       /\ cut \in 0 .. Len(bytes)
       /\ recvbuf = SubSeq(bytes, 1, cut)
       /\ rest = SubSeq(bytes, cut + 1, Len(bytes))
  /\ text = <<>>
  /\ i = 0
  /\ getrq = <<>>
  /\ eat_chars = 0
  /\ replies = <<>>

-----------------------------------------------------------------------------
Byte == recvbuf[i + 1]

(* getrq holds four bytes: a fifth is written past its end.                   *)
Overflown == Len(getrq) > 4

More == i < Len(recvbuf) /\ ~Overflown

ReplaceZero ==
  /\ More
  /\ Byte = Zero
  /\ recvbuf' = [recvbuf EXCEPT ![i + 1] = " "]
  /\ i' = i + 1
  /\ UNCHANGED <<input, getrq, eat_chars, replies>>

PassText ==
  /\ More
  /\ Byte \notin {Zero, "IAC"} /\ getrq = <<>>
  /\ i' = i + 1
  /\ UNCHANGED <<input, recvbuf, getrq, eat_chars, replies>>

(* The byte belongs to a command. *)
Collects == More /\ Byte # Zero /\ (Byte = "IAC" \/ getrq # <<>>)

(* The command that this byte would complete or continue. *)
Collected == Append(getrq, Byte)

(* Wait for the code, or for the option after it. *)
CollectMore ==
  /\ Collects
  /\ Len(Collected) < 3
  /\ Len(Collected) = 2 => Collected[2] \in Verbs
  /\ getrq' = Collected
  /\ eat_chars' = eat_chars + 1
  /\ i' = i + 1
  /\ UNCHANGED <<input, recvbuf, replies>>

(* An unknown code: l is never reset. *)
CollectUnknown ==
  /\ Collects
  /\ Len(Collected) > 1 /\ Collected[2] \notin Verbs \cup {"NOP", "IAC"}
  /\ getrq' = Collected
  /\ eat_chars' = eat_chars + 1
  /\ i' = i + 1
  /\ UNCHANGED <<input, recvbuf, replies>>

(* Fault for mutation: l is not set back. *)
EatCharsKeepsL(buf, n) ==
  /\ recvbuf' = SubSeq(buf, 1, i + 1 - n) \o SubSeq(buf, i + 2, Len(buf))
  /\ i' = i + 1 - n
  /\ eat_chars' = 0
  /\ getrq' = Collected

(* do_eat_chars: the last n bytes up to i leave the buffer. *)
EatChars(buf, n) ==
  /\ recvbuf' = SubSeq(buf, 1, i + 1 - n) \o SubSeq(buf, i + 2, Len(buf))
  /\ i' = i + 1 - n
  /\ eat_chars' = 0
  /\ getrq' = <<>>

(* Fault for mutation: the index goes back, the bytes stay where they are. *)
EatSimpleStays ==
  /\ Collects
  /\ Len(Collected) = 2 /\ Collected[2] = "NOP"
  /\ i' = i - eat_chars
  /\ eat_chars' = 0 /\ getrq' = <<>>
  /\ UNCHANGED <<input, recvbuf, replies>>

EatSimple ==
  /\ Collects
  /\ Len(Collected) = 2 /\ Collected[2] = "NOP"
  /\ EatChars(recvbuf, eat_chars + 1)
  /\ UNCHANGED <<input, replies>>

(* Fault for mutation: the doubled IAC leaves no data byte. *)
EatWhole ==
  /\ Collects
  /\ Len(Collected) = 2 /\ Collected[2] = "IAC"
  /\ EatChars(recvbuf, eat_chars + 1)
  /\ UNCHANGED <<input, replies>>

(* A doubled IAC leaves one in the text. *)
EatEscaped ==
  /\ Collects
  /\ Len(Collected) = 2 /\ Collected[2] = "IAC"
  /\ EatChars([recvbuf EXCEPT ![i + 1 - eat_chars] = "IAC"], eat_chars)
  /\ UNCHANGED <<input, replies>>

(* Offers and demands alike are answered by a refusal. *)
Refusal(verb) == IF verb \in {"WILL", "WONT"} THEN "DONT" ELSE "WONT"

RefuseOption ==
  /\ Collects
  /\ Len(Collected) = 3 /\ Collected[2] \in Verbs
  /\ replies' = Append(replies, <<"IAC", Refusal(Collected[2]), Collected[3]>>)
  /\ EatChars(recvbuf, eat_chars + 1)
  /\ UNCHANGED input

Returned == i >= Len(recvbuf)

(* The next recv: getrq, l and eat_chars are local, so that a command begun   *)
(* in the first buffer is forgotten.                                          *)
NextRecv ==
  /\ Returned /\ ~Overflown
  /\ rest # <<>>
  /\ text' = recvbuf
  /\ recvbuf' = rest /\ rest' = <<>>
  /\ i' = 0 /\ getrq' = <<>> /\ eat_chars' = 0
  /\ UNCHANGED <<items, cut, replies>>

Next ==
  \/ NextRecv
  \/ ReplaceZero \/ PassText
  \/ CollectMore \/ CollectUnknown
  \/ EatSimple \/ EatEscaped \/ RefuseOption

Spec == Init /\ [][Next]_vars
FairSpec == Spec /\ WF_vars(Next)

-----------------------------------------------------------------------------
(* Item n begins after the bytes of the items before it. *)
Offset(n) == Len(FlattenSeq(SubSeq(items, 1, n - 1)))
CutIn(n)  == Offset(n) < cut /\ cut < Offset(n) + Len(items[n])

(* What should come out, item by item: a command cut in two comes out as text. *)
Spaced(bytes) == [k \in DOMAIN bytes |-> IF bytes[k] = Zero THEN " " ELSE bytes[k]]

TextOf(n) ==
  LET item == items[n] IN
  IF Len(item) = 1 \/ CutIn(n) THEN Spaced(item)
  ELSE IF item = <<"IAC", "IAC">> THEN <<"IAC">> ELSE <<>>

ReplyOf(n) ==
  LET item == items[n] IN
  IF Len(item) = 3 /\ ~CutIn(n) THEN << <<"IAC", Refusal(item[2]), item[3]>> >> ELSE <<>>

ExpectedText    == FlattenSeq([n \in DOMAIN items |-> TextOf(n)])
ExpectedReplies == FlattenSeq([n \in DOMAIN items |-> ReplyOf(n)])

Done == Returned /\ rest = <<>>

(* No code is unknown, and no doubled IAC is cut: the second half of one      *)
(* begins a command.                                                          *)
Regular == \A n \in DOMAIN items :
             items[n] # Unknown /\ (items[n] = <<"IAC", "IAC">> => ~CutIn(n))

(* What a buffer may hold. *)
Bytes == (UNION {{item[n] : n \in DOMAIN item} : item \in Items}) \cup {" "}

(* The index stays in the buffer, as the comment on its going negative hopes, *)
(* and only an unknown code, or half of a doubled IAC, fills the command      *)
(* buffer.                                                                    *)
TypeOK ==
  /\ items \in Inputs
  /\ cut \in Nat
  /\ {rest, text, recvbuf} \subseteq Seq(Bytes)
  /\ i \in 0 .. Len(recvbuf)
  /\ eat_chars = Len(getrq)
  /\ Regular => Len(getrq) < 3
  /\ replies \in Seq({"IAC"} \X {"DONT", "WONT"} \X Bytes)

(* Wherever recv cuts the stream, text comes out as it went in, each command  *)
(* received whole is taken out, and each option is refused once, in order.    *)
(* A cut spoils the command it cuts and nothing else: its bytes are read as   *)
(* text and it is not answered.                                               *)
TextAndRefusals ==
  Done /\ Regular => text \o recvbuf = ExpectedText /\ replies = ExpectedReplies

(* The loop ends, although it moves its index back. *)
ParseEnds == <>(Done \/ Overflown)

=============================================================================
