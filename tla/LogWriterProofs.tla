--------------------------- MODULE LogWriterProofs ---------------------------
(***************************************************************************)
(* Proofs about LogWriter, for any threads, messages and days: every       *)
(* message goes to the file of its own day and in the order of its thread, *)
(* and when the write thread has ended none is missing but those whose     *)
(* file could not be opened.                                               *)
(***************************************************************************)
EXTENDS LogWriter, TLAPS

(* The inductive invariant, in named parts. *)

(* The write thread holds a message exactly between pop and write. *)
HoldsMessage == pc = "popped" <=> pMessage # NoMessage

(* The open file is the one m_logFileDate names. *)
StreamIsDate == streamDay # 0 => streamDay = logFileDate

(* A message not yet pushed is the last its thread has made. *)
StampedIsLast ==
  \A t \in Threads : stamped[t] # NoMessage => stamped[t][1] = t /\ stamped[t][2] = count[t]

(* m was logged before n, if one thread logged both. *)
Before(m, n) == m[1] = n[1] => m[2] < n[2]

(* A message on its way to the file is not newer than its thread's count, and *)
(* is older than what its thread has stamped.                                 *)
Counted(m) ==
  /\ m[2] <= count[m[1]]
  /\ stamped[m[1]] # NoMessage => m[2] < count[m[1]]

(* What is written comes before what is in hand, and that before what is      *)
(* queued.                                                                    *)
WrittenOrder ==
  \A i, j \in DOMAIN written : i < j => Before(written[i].message, written[j].message)

QueueOrder ==
  \A i, j \in DOMAIN messageQueue : i < j => Before(messageQueue[i], messageQueue[j])

AcrossOrder ==
  /\ \A i \in DOMAIN written, j \in DOMAIN messageQueue :
       Before(written[i].message, messageQueue[j])
  /\ pMessage # NoMessage =>
       /\ \A i \in DOMAIN written : Before(written[i].message, pMessage)
       /\ \A j \in DOMAIN messageQueue : Before(pMessage, messageQueue[j])

AllCounted ==
  /\ \A i \in DOMAIN written : Counted(written[i].message)
  /\ \A j \in DOMAIN messageQueue : Counted(messageQueue[j])
  /\ pMessage # NoMessage => Counted(pMessage)

(* Where message n of thread t can be. *)
Is(m, t, n) == m # NoMessage /\ m[1] = t /\ m[2] = n

Somewhere(t, n) ==
  \/ \E m \in lost : m[1] = t /\ m[2] = n
  \/ \E i \in DOMAIN written : written[i].message[1] = t /\ written[i].message[2] = n
  \/ Is(pMessage, t, n)
  \/ \E j \in DOMAIN messageQueue : Is(messageQueue[j], t, n)
  \/ Is(stamped[t], t, n)

NoneMissing == \A t \in Threads : \A n \in 1 .. count[t] : Somewhere(t, n)

Stopping ==
  /\ stopFlag => \A t \in Threads : stamped[t] = NoMessage
  /\ pc = "returned" => stopFlag /\ messageQueue = <<>>

TypeInv == TypeOK /\ HoldsMessage /\ StreamIsDate /\ RightFile

OrderInv ==
  StampedIsLast /\ WrittenOrder /\ QueueOrder /\ AcrossOrder /\ AllCounted

-----------------------------------------------------------------------------
(* What Append, Head and Tail do, element by element. *)

LEMMA AppendElements ==
  ASSUME NEW S, NEW s \in Seq(S), NEW e \in S
  PROVE  /\ Append(s, e) \in Seq(S)
         /\ DOMAIN s = 1 .. Len(s) /\ Len(s) \in Nat
         /\ DOMAIN Append(s, e) = 1 .. Len(s) + 1
         /\ \A i \in 1 .. Len(s) : Append(s, e)[i] = s[i]
         /\ Append(s, e)[Len(s) + 1] = e
OBVIOUS

LEMMA TailElements ==
  ASSUME NEW S, NEW s \in Seq(S), s # <<>>
  PROVE  /\ Head(s) \in S /\ Tail(s) \in Seq(S)
         /\ Head(s) = s[1]
         /\ DOMAIN s = 1 .. Len(s) /\ Len(s) \in Nat /\ Len(s) > 0
         /\ DOMAIN Tail(s) = 1 .. Len(s) - 1
         /\ \A i \in 1 .. Len(s) - 1 : Tail(s)[i] = s[i + 1]
OBVIOUS

LEMMA SeqElements ==
  ASSUME NEW S, NEW s \in Seq(S)
  PROVE  \A i \in DOMAIN s : s[i] \in S
OBVIOUS

(* The parts of a message. *)
LEMMA MessageParts ==
  /\ \A m \in Messages :
       /\ m # NoMessage
       /\ m[1] \in Threads /\ m[2] \in 1 .. MaxMessages /\ m[3] \in 1 .. MaxDay
  /\ MaxMessages \in Nat /\ MaxDay \in Nat \ {0}
BY LogAssumption DEF Messages

-----------------------------------------------------------------------------
(* Types, and the right file. *)

LEMMA TypeInvInit == Init => TypeInv
<1> SUFFICES ASSUME Init PROVE TypeInv
  OBVIOUS
<1>1. 1 \in 1 .. MaxDay /\ 1 \in 0 .. MaxDay /\ 0 \in 0 .. MaxMessages
  BY MessageParts
<1>2. /\ count \in [Threads -> 0 .. MaxMessages]
      /\ stamped \in [Threads -> Messages \cup {NoMessage}]
  BY <1>1 DEF Init
<1>3. /\ messageQueue \in Seq(Messages)
      /\ written \in Seq([message : Messages, file : 0 .. MaxDay])
      /\ DOMAIN written = {}
  BY DEF Init
<1>4. TypeOK
  BY <1>1, <1>2, <1>3 DEF Init, TypeOK
<1>5. HoldsMessage /\ StreamIsDate /\ RightFile
  BY <1>3 DEF Init, HoldsMessage, StreamIsDate, RightFile
<1> QED BY <1>4, <1>5 DEF TypeInv

(* The message in hand is appended to the file of day d. *)
LEMMA WriteToInv ==
  ASSUME TypeInv, NEW d \in 0 .. MaxDay, pc = "popped", WriteTo(d)
  PROVE  /\ pMessage \in Messages
         /\ written' \in Seq([message : Messages, file : 0 .. MaxDay])
         /\ DOMAIN written = 1 .. Len(written) /\ Len(written) \in Nat
         /\ DOMAIN written' = 1 .. Len(written) + 1
         /\ \A i \in 1 .. Len(written) : written'[i] = written[i]
         /\ written'[Len(written) + 1] = [message |-> pMessage, file |-> d]
<1>1. pMessage \in Messages
  BY DEF TypeInv, TypeOK, HoldsMessage
<1>2. [message |-> pMessage, file |-> d] \in [message : Messages, file : 0 .. MaxDay]
  BY <1>1
<1>3. /\ written \in Seq([message : Messages, file : 0 .. MaxDay])
      /\ written' = Append(written, [message |-> pMessage, file |-> d])
  BY DEF TypeInv, TypeOK, WriteTo
<1> QED BY <1>1, <1>2, <1>3, AppendElements

LEMMA TypeInvNext == TypeInv /\ [Next]_vars => TypeInv'
<1> SUFFICES ASSUME TypeInv, [Next]_vars PROVE TypeInv'
  OBVIOUS
<1> USE MessageParts DEF writerVars, threadVars
<1>0. TypeOK /\ HoldsMessage /\ StreamIsDate /\ RightFile
  BY DEF TypeInv
<1>1. ASSUME NEW t \in Threads, Stamp(t) PROVE TypeInv'
  <2>1. UNCHANGED <<pc, pMessage, streamDay, logFileDate, written, lost, today,
                    messageQueue, stopFlag>>
    BY <1>1 DEF Stamp
  <2>2. count' \in [Threads -> 0 .. MaxMessages]
    BY <1>0, <1>1 DEF TypeOK, Stamp
  <2>3. <<t, count[t] + 1, today>> \in Messages
    BY <1>0, <1>1 DEF TypeOK, Stamp, Messages
  <2>4. stamped' \in [Threads -> Messages \cup {NoMessage}]
    BY <1>0, <1>1, <2>3 DEF TypeOK, Stamp
  <2> QED BY <1>0, <2>1, <2>2, <2>4
          DEF TypeInv, TypeOK, HoldsMessage, StreamIsDate, RightFile
<1>2. ASSUME NEW t \in Threads, Push(t) PROVE TypeInv'
  <2>1. UNCHANGED <<pc, pMessage, streamDay, logFileDate, written, lost, today, count,
                    stopFlag>>
    BY <1>2 DEF Push
  <2>2. stamped[t] \in Messages
    BY <1>0, <1>2 DEF TypeOK, Push
  <2>3. messageQueue' \in Seq(Messages)
    BY <1>0, <1>2, <2>2, AppendElements DEF TypeOK, Push
  <2>4. stamped' \in [Threads -> Messages \cup {NoMessage}]
    BY <1>0, <1>2 DEF TypeOK, Push
  <2> QED BY <1>0, <2>1, <2>3, <2>4
          DEF TypeInv, TypeOK, HoldsMessage, StreamIsDate, RightFile
<1>3. CASE Midnight
  BY <1>0, <1>3 DEF Midnight, TypeInv, TypeOK, HoldsMessage, StreamIsDate, RightFile
<1>4. CASE Destroy
  BY <1>0, <1>4 DEF Destroy, TypeInv, TypeOK, HoldsMessage, StreamIsDate, RightFile
<1>5. CASE Top
  BY <1>0, <1>5 DEF Top, TypeInv, TypeOK, HoldsMessage, StreamIsDate, RightFile
<1>6. CASE Pop
  <2>1. UNCHANGED <<streamDay, logFileDate, written, lost, today, count, stamped, stopFlag>>
    BY <1>6 DEF Pop
  <2>2. CASE messageQueue = <<>>
    BY <1>0, <1>6, <2>1, <2>2 DEF Pop, TypeInv, TypeOK, HoldsMessage, StreamIsDate, RightFile
  <2>3. CASE messageQueue # <<>>
    <3>1. /\ pc' = "popped" /\ pMessage' = Head(messageQueue)
          /\ messageQueue' = Tail(messageQueue)
      BY <1>6, <2>3 DEF Pop
    <3>2. pMessage' \in Messages /\ messageQueue' \in Seq(Messages)
      BY <1>0, <2>3, <3>1, TailElements DEF TypeOK
    <3> QED BY <1>0, <2>1, <3>1, <3>2
            DEF TypeInv, TypeOK, HoldsMessage, StreamIsDate, RightFile
  <2> QED BY <2>2, <2>3
<1>7. CASE WriteSameFile \/ WriteNewFile
  <2>1. PICK d \in 0 .. MaxDay : WriteTo(d) /\ d = pMessage[3] /\ logFileDate' = d
    <3>1. pc = "popped" /\ pMessage \in Messages
      BY <1>0, <1>7 DEF WriteSameFile, WriteNewFile, TypeOK, HoldsMessage
    <3> QED BY <1>0, <1>7, <3>1
            DEF WriteSameFile, WriteNewFile, RightFileOpen, StreamIsDate
  <2>2. pc = "popped"
    BY <1>7 DEF WriteSameFile, WriteNewFile
  <2>3. /\ pMessage \in Messages
        /\ written' \in Seq([message : Messages, file : 0 .. MaxDay])
        /\ DOMAIN written = 1 .. Len(written) /\ Len(written) \in Nat
        /\ DOMAIN written' = 1 .. Len(written) + 1
        /\ \A i \in 1 .. Len(written) : written'[i] = written[i]
        /\ written'[Len(written) + 1] = [message |-> pMessage, file |-> d]
    BY <2>1, <2>2, WriteToInv
  <2>4. RightFile'
    <3> SUFFICES ASSUME NEW i \in DOMAIN written'
                 PROVE  written'[i].file = written'[i].message[3]
      BY DEF RightFile
    <3>1. CASE i \in 1 .. Len(written)
      BY <1>0, <2>3, <3>1 DEF RightFile
    <3>2. CASE i = Len(written) + 1
      BY <2>1, <2>3, <3>2
    <3> QED BY <2>3, <3>1, <3>2
  <2>5. HoldsMessage' /\ StreamIsDate'
    BY <2>1 DEF WriteTo, HoldsMessage, StreamIsDate
  <2>6. TypeOK'
    BY <1>0, <2>1, <2>3 DEF TypeOK, WriteTo
  <2> QED BY <2>4, <2>5, <2>6 DEF TypeInv
<1>8. CASE OpenFails
  <2>1. pMessage \in Messages
    BY <1>0, <1>8 DEF OpenFails, TypeOK, HoldsMessage
  <2> QED BY <1>0, <1>8, <2>1
          DEF OpenFails, TypeInv, TypeOK, HoldsMessage, StreamIsDate, RightFile
<1>9. CASE UNCHANGED vars
  BY <1>0, <1>9 DEF vars, TypeInv, TypeOK, HoldsMessage, StreamIsDate, RightFile
<1> QED BY <1>1, <1>2, <1>3, <1>4, <1>5, <1>6, <1>7, <1>8, <1>9 DEF Next, WriterStep

LEMMA TypeInvAlways == Spec => []TypeInv
BY TypeInvInit, TypeInvNext, PTL DEF Spec

(* Every variable stays in its type, for any threads, messages and days. *)
THEOREM TypeCorrect == Spec => []TypeOK
BY TypeInvAlways, PTL DEF TypeInv

(* Every message is written to the open file of its own day. *)
THEOREM WritesRightFile == Spec => []RightFile
BY TypeInvAlways, PTL DEF TypeInv

-----------------------------------------------------------------------------
(* The order of each thread's messages. *)

LEMMA OrderInit == Init => OrderInv
<1> SUFFICES ASSUME Init PROVE OrderInv
  OBVIOUS
<1>1. DOMAIN written = {} /\ DOMAIN messageQueue = {} /\ pMessage = NoMessage
  BY DEF Init
<1>2. StampedIsLast
  BY DEF Init, StampedIsLast
<1> QED BY <1>1, <1>2 DEF OrderInv, WrittenOrder, QueueOrder, AcrossOrder, AllCounted

(* Nothing of the order changes while these do not. *)
LEMMA OrderUnchanged ==
  ASSUME OrderInv, UNCHANGED <<count, stamped, messageQueue, pMessage, written>>
  PROVE  OrderInv'
BY DEF OrderInv, StampedIsLast, WrittenOrder, QueueOrder, AcrossOrder, AllCounted,
   Before, Counted

(* What is on its way is a message. *)
LEMMA OnTheWay ==
  ASSUME TypeInv
  PROVE  /\ \A i \in DOMAIN written : written[i].message \in Messages
         /\ \A j \in DOMAIN messageQueue : messageQueue[j] \in Messages
         /\ pMessage # NoMessage => pMessage \in Messages
         /\ \A t \in Threads : /\ count[t] \in Nat
                               /\ stamped[t] # NoMessage => stamped[t] \in Messages
<1>1. \A i \in DOMAIN written : written[i] \in [message : Messages, file : 0 .. MaxDay]
  BY SeqElements DEF TypeInv, TypeOK
<1>2. \A j \in DOMAIN messageQueue : messageQueue[j] \in Messages
  BY DEF TypeInv, TypeOK
<1>3. /\ pMessage # NoMessage => pMessage \in Messages
      /\ \A t \in Threads : stamped[t] # NoMessage => stamped[t] \in Messages
  BY DEF TypeInv, TypeOK
<1>4. \A t \in Threads : count[t] \in Nat
  BY MessageParts DEF TypeInv, TypeOK
<1> QED BY <1>1, <1>2, <1>3, <1>4

LEMMA OrderStamp ==
  ASSUME TypeInv, OrderInv, NEW t \in Threads, Stamp(t)
  PROVE  OrderInv'
<1>1. /\ count[t] \in Nat
      /\ stamped[t] = NoMessage
      /\ count' = [count EXCEPT ![t] = @ + 1]
      /\ stamped' = [stamped EXCEPT ![t] = <<t, count[t] + 1, today>>]
      /\ UNCHANGED <<messageQueue, pMessage, written>>
  BY OnTheWay DEF Stamp, writerVars
<1>2. /\ count'[t] = count[t] + 1 /\ stamped'[t] = <<t, count[t] + 1, today>>
      /\ \A u \in Threads : u # t => count'[u] = count[u] /\ stamped'[u] = stamped[u]
  BY <1>1 DEF TypeInv, TypeOK
<1>3. StampedIsLast'
  BY <1>2 DEF OrderInv, StampedIsLast
<1>4. ASSUME NEW m \in Messages, Counted(m) PROVE Counted(m)'
  <2>1. m[1] \in Threads /\ m[2] \in Nat /\ count[m[1]] \in Nat
    BY MessageParts, OnTheWay
  <2>2. CASE m[1] = t
    BY <1>1, <1>2, <1>4, <2>1, <2>2 DEF Counted
  <2>3. CASE m[1] # t
    BY <1>2, <1>4, <2>1, <2>3 DEF Counted
  <2> QED BY <2>2, <2>3
<1>5. AllCounted'
  BY <1>1, <1>4, OnTheWay DEF OrderInv, AllCounted
<1>6. WrittenOrder' /\ QueueOrder' /\ AcrossOrder'
  BY <1>1 DEF OrderInv, WrittenOrder, QueueOrder, AcrossOrder, Before
<1> QED BY <1>3, <1>5, <1>6 DEF OrderInv

LEMMA OrderPush ==
  ASSUME TypeInv, OrderInv, NEW t \in Threads, Push(t)
  PROVE  OrderInv'
<1> DEFINE n == Len(messageQueue)
<1>0. PICK m \in Messages : m = stamped[t]
  BY OnTheWay DEF Push
<1>1. /\ m[1] = t /\ m[2] = count[t] /\ m # NoMessage
      /\ messageQueue' = Append(messageQueue, m)
      /\ stamped' = [stamped EXCEPT ![t] = NoMessage]
      /\ UNCHANGED <<count, pMessage, written>>
  BY <1>0, MessageParts DEF Push, writerVars, OrderInv, StampedIsLast
<1>2. /\ stamped'[t] = NoMessage
      /\ \A u \in Threads : u # t => stamped'[u] = stamped[u]
  BY <1>1 DEF TypeInv, TypeOK
<1>3. /\ DOMAIN messageQueue = 1 .. n /\ n \in Nat
      /\ DOMAIN messageQueue' = 1 .. n + 1
      /\ \A j \in 1 .. n : messageQueue'[j] = messageQueue[j]
      /\ messageQueue'[n + 1] = m
  BY <1>1, AppendElements DEF TypeInv, TypeOK
<1>4. ASSUME NEW x \in Messages, Counted(x) PROVE Counted(x)' /\ Before(x, m)
  <2>1. x[1] \in Threads
    BY MessageParts
  <2> QED BY <1>0, <1>1, <1>2, <1>4, <2>1 DEF Counted, Before
<1>5. Counted(m)'
  <2>1. m[2] \in Nat /\ count[t] \in Nat
    BY <1>1, OnTheWay
  <2> QED BY <1>1, <1>2, <2>1 DEF Counted
<1> HIDE DEF n
<1>6. StampedIsLast'
  BY <1>1, <1>2 DEF OrderInv, StampedIsLast
<1>7. ASSUME NEW j \in DOMAIN messageQueue'
      PROVE  \/ j \in DOMAIN messageQueue /\ messageQueue'[j] = messageQueue[j]
             \/ j = n + 1 /\ messageQueue'[j] = m
  BY <1>3
<1>8. AllCounted'
  BY <1>1, <1>4, <1>5, <1>7, OnTheWay DEF OrderInv, AllCounted
<1>9. WrittenOrder'
  BY <1>1 DEF OrderInv, WrittenOrder, Before
<1>10. QueueOrder'
  <2> SUFFICES ASSUME NEW i \in DOMAIN messageQueue', NEW j \in DOMAIN messageQueue', i < j
               PROVE  Before(messageQueue'[i], messageQueue'[j])
    BY DEF QueueOrder, Before
  <2>1. i \in DOMAIN messageQueue /\ messageQueue'[i] = messageQueue[i]
    BY <1>3
  <2>2. CASE j \in DOMAIN messageQueue
    BY <1>3, <2>1, <2>2 DEF OrderInv, QueueOrder
  <2>3. CASE j = n + 1
    <3>1. messageQueue[i] \in Messages /\ Counted(messageQueue[i])
      BY <2>1, OnTheWay DEF OrderInv, AllCounted
    <3> QED BY <1>3, <1>4, <2>1, <2>3, <3>1
  <2> QED BY <1>7, <2>2, <2>3
<1>11. AcrossOrder'
  <2>1. ASSUME NEW i \in DOMAIN written, NEW j \in DOMAIN messageQueue'
        PROVE  Before(written[i].message, messageQueue'[j])
    <3>1. written[i].message \in Messages /\ Counted(written[i].message)
      BY OnTheWay DEF OrderInv, AllCounted
    <3> QED BY <1>4, <1>7, <3>1 DEF OrderInv, AcrossOrder
  <2>2. ASSUME pMessage # NoMessage, NEW j \in DOMAIN messageQueue'
        PROVE  Before(pMessage, messageQueue'[j])
    <3>1. pMessage \in Messages /\ Counted(pMessage)
      BY <2>2, OnTheWay DEF OrderInv, AllCounted
    <3> QED BY <1>4, <1>7, <2>2, <3>1 DEF OrderInv, AcrossOrder
  <2>3. pMessage # NoMessage => \A i \in DOMAIN written : Before(written[i].message, pMessage)
    BY DEF OrderInv, AcrossOrder
  <2> QED BY <1>1, <2>1, <2>2, <2>3 DEF AcrossOrder, Before
<1> QED BY <1>6, <1>8, <1>9, <1>10, <1>11 DEF OrderInv

LEMMA OrderPop ==
  ASSUME TypeInv, OrderInv, Pop
  PROVE  OrderInv'
<1>1. CASE messageQueue = <<>>
  BY <1>1, OrderUnchanged DEF Pop, threadVars
<1>2. CASE messageQueue # <<>>
  <2> DEFINE n == Len(messageQueue)
  <2>1. /\ pMessage' = Head(messageQueue) /\ messageQueue' = Tail(messageQueue)
        /\ UNCHANGED <<count, stamped, written>>
    BY <1>2 DEF Pop, threadVars
  <2>2. /\ pMessage' = messageQueue[1]
        /\ DOMAIN messageQueue = 1 .. n /\ n \in Nat /\ n > 0
        /\ DOMAIN messageQueue' = 1 .. n - 1
        /\ \A j \in 1 .. n - 1 : messageQueue'[j] = messageQueue[j + 1]
    BY <1>2, <2>1, TailElements DEF TypeInv, TypeOK
  <2>3. ASSUME NEW j \in DOMAIN messageQueue'
        PROVE  /\ j + 1 \in DOMAIN messageQueue /\ 1 < j + 1
               /\ messageQueue'[j] = messageQueue[j + 1]
    BY <2>2
  <2>4. 1 \in DOMAIN messageQueue
    BY <2>2
  <2>5. StampedIsLast' /\ WrittenOrder'
    BY <2>1 DEF OrderInv, StampedIsLast, WrittenOrder, Before
  <2>6. QueueOrder'
    <3> SUFFICES ASSUME NEW i \in DOMAIN messageQueue', NEW j \in DOMAIN messageQueue', i < j
                 PROVE  Before(messageQueue'[i], messageQueue'[j])
      BY DEF QueueOrder, Before
    <3>1. i + 1 < j + 1
      BY <2>2
    <3> QED BY <2>3, <3>1 DEF OrderInv, QueueOrder
  <2>7. AcrossOrder'
    BY <2>1, <2>2, <2>3, <2>4 DEF OrderInv, AcrossOrder, QueueOrder, Before
  <2>8. AllCounted'
    BY <2>1, <2>2, <2>3, <2>4 DEF OrderInv, AllCounted, Counted
  <2> QED BY <2>5, <2>6, <2>7, <2>8 DEF OrderInv
<1> QED BY <1>1, <1>2

LEMMA OrderWrite ==
  ASSUME TypeInv, OrderInv, NEW d \in 0 .. MaxDay, pc = "popped", WriteTo(d)
  PROVE  OrderInv'
<1> DEFINE n == Len(written)
<1>1. /\ pMessage \in Messages /\ pMessage # NoMessage
      /\ DOMAIN written = 1 .. n /\ n \in Nat
      /\ DOMAIN written' = 1 .. n + 1
      /\ \A i \in 1 .. n : written'[i] = written[i]
      /\ written'[n + 1] = [message |-> pMessage, file |-> d]
  BY WriteToInv, MessageParts
<1>2. /\ pMessage' = NoMessage /\ UNCHANGED <<count, stamped, messageQueue>>
  BY DEF WriteTo, threadVars
<1> HIDE DEF n
<1>3. ASSUME NEW i \in DOMAIN written'
      PROVE  \/ i \in DOMAIN written /\ written'[i].message = written[i].message
             \/ i = n + 1 /\ written'[i].message = pMessage
  BY <1>1
<1>4. StampedIsLast' /\ QueueOrder'
  BY <1>2 DEF OrderInv, StampedIsLast, QueueOrder, Before
<1>5. WrittenOrder'
  <2> SUFFICES ASSUME NEW i \in DOMAIN written', NEW j \in DOMAIN written', i < j
               PROVE  Before(written'[i].message, written'[j].message)
    BY DEF WrittenOrder, Before
  <2>1. i \in DOMAIN written /\ written'[i].message = written[i].message
    BY <1>1
  <2> QED BY <1>1, <1>3, <2>1 DEF OrderInv, WrittenOrder, AcrossOrder
<1>6. AcrossOrder'
  <2>1. ASSUME NEW i \in DOMAIN written', NEW j \in DOMAIN messageQueue
        PROVE  Before(written'[i].message, messageQueue[j])
    BY <1>1, <1>3 DEF OrderInv, AcrossOrder
  <2> QED BY <1>2, <2>1 DEF AcrossOrder, Before
<1>7. AllCounted'
  BY <1>1, <1>2, <1>3 DEF OrderInv, AllCounted, Counted
<1> QED BY <1>4, <1>5, <1>6, <1>7 DEF OrderInv

LEMMA OrderNext == TypeInv /\ OrderInv /\ [Next]_vars => OrderInv'
<1> SUFFICES ASSUME TypeInv, OrderInv, [Next]_vars PROVE OrderInv'
  OBVIOUS
<1>1. CASE Midnight \/ Destroy \/ Top \/ UNCHANGED vars
  BY <1>1, OrderUnchanged DEF Midnight, Destroy, Top, vars, writerVars, threadVars
<1>2. CASE WriteSameFile \/ WriteNewFile
  <2>1. \E d \in 0 .. MaxDay : WriteTo(d) /\ pc = "popped"
    <3>1. pMessage \in Messages
      BY <1>2 DEF WriteSameFile, WriteNewFile, TypeInv, TypeOK, HoldsMessage
    <3> QED BY <1>2, <3>1, MessageParts DEF WriteSameFile, WriteNewFile, TypeInv, TypeOK
  <2> QED BY <2>1, OrderWrite
<1>3. CASE OpenFails
  <2>1. pMessage' = NoMessage /\ UNCHANGED <<count, stamped, messageQueue, written>>
    BY <1>3 DEF OpenFails, threadVars
  <2> QED BY <2>1 DEF OrderInv, StampedIsLast, WrittenOrder, QueueOrder, AcrossOrder,
          AllCounted, Before, Counted
<1> QED BY <1>1, <1>2, <1>3, OrderStamp, OrderPush, OrderPop DEF Next, WriterStep

LEMMA OrderAlways == Spec => []OrderInv
BY OrderInit, OrderNext, TypeInvAlways, PTL DEF Spec

(* What one thread logs is written in the order it was logged and never twice. *)
THEOREM WritesInOrder == Spec => []ThreadOrder
<1>1. OrderInv => ThreadOrder
  BY DEF OrderInv, WrittenOrder, Before, ThreadOrder
<1> QED BY <1>1, OrderAlways, PTL

-----------------------------------------------------------------------------
(* Nothing is missing. *)

DrainInv == NoneMissing /\ Stopping

LEMMA DrainInit == Init => DrainInv
BY DEF Init, DrainInv, NoneMissing, Stopping

LEMMA DrainUnchanged ==
  ASSUME NoneMissing, UNCHANGED <<count, stamped, messageQueue, pMessage, written, lost>>
  PROVE  NoneMissing'
BY DEF NoneMissing, Somewhere, Is

LEMMA DrainStamp ==
  ASSUME TypeInv, NoneMissing, NEW t \in Threads, Stamp(t)
  PROVE  NoneMissing'
<1>1. /\ count[t] \in Nat
      /\ stamped[t] = NoMessage
      /\ UNCHANGED <<messageQueue, pMessage, written, lost>>
  BY OnTheWay DEF Stamp, writerVars
<1>2. /\ count'[t] = count[t] + 1 /\ stamped'[t] = <<t, count[t] + 1, today>>
      /\ \A u \in Threads : u # t => count'[u] = count[u] /\ stamped'[u] = stamped[u]
  BY DEF Stamp, TypeInv, TypeOK
<1>3. stamped'[t] # NoMessage
  <2>1. today \in 1 .. MaxDay /\ count[t] + 1 \in 1 .. MaxMessages
    BY <1>1, MessageParts DEF Stamp, TypeInv, TypeOK
  <2> QED BY <1>2, <2>1, MessageParts DEF Messages
<1> SUFFICES ASSUME NEW u \in Threads, NEW n \in 1 .. count'[u]
             PROVE  Somewhere(u, n)'
  BY DEF NoneMissing
<1>4. CASE u = t /\ n = count[t] + 1
  <2>1. stamped'[u] # NoMessage /\ stamped'[u][1] = u /\ stamped'[u][2] = n
    BY <1>2, <1>3, <1>4
  <2> QED BY <2>1 DEF Somewhere, Is
<1>5. CASE ~(u = t /\ n = count[t] + 1)
  <2>1. n \in 1 .. count[u]
    BY <1>1, <1>2, <1>5
  <2>2. Somewhere(u, n)
    BY <2>1 DEF NoneMissing
  <2> QED BY <1>1, <1>2, <2>2 DEF Somewhere, Is
<1> QED BY <1>4, <1>5

LEMMA DrainPush ==
  ASSUME TypeInv, NoneMissing, NEW t \in Threads, Push(t)
  PROVE  NoneMissing'
<1>1. PICK m \in Messages : m = stamped[t]
  BY OnTheWay DEF Push
<1>2. /\ messageQueue' = Append(messageQueue, m)
      /\ UNCHANGED <<count, pMessage, written, lost>>
      /\ \A u \in Threads : u # t => stamped'[u] = stamped[u]
  BY <1>1 DEF Push, writerVars, TypeInv, TypeOK
<1>3. /\ \A j \in DOMAIN messageQueue : /\ j \in DOMAIN messageQueue'
                                        /\ messageQueue'[j] = messageQueue[j]
      /\ \E j \in DOMAIN messageQueue' : messageQueue'[j] = m
  <2>1. /\ DOMAIN messageQueue = 1 .. Len(messageQueue) /\ Len(messageQueue) \in Nat
        /\ DOMAIN messageQueue' = 1 .. Len(messageQueue) + 1
        /\ \A j \in 1 .. Len(messageQueue) : messageQueue'[j] = messageQueue[j]
        /\ messageQueue'[Len(messageQueue) + 1] = m
    BY <1>2, AppendElements DEF TypeInv, TypeOK
  <2>2. Len(messageQueue) + 1 \in DOMAIN messageQueue'
    BY <2>1
  <2> QED BY <2>1, <2>2
<1> SUFFICES ASSUME NEW u \in Threads, NEW n \in 1 .. count[u]
             PROVE  Somewhere(u, n)'
  BY <1>2 DEF NoneMissing
<1>4. Somewhere(u, n)
  BY DEF NoneMissing
<1>5. CASE Is(stamped[u], u, n)
  <2>1. CASE u = t
    BY <1>1, <1>3, <1>5, <2>1 DEF Somewhere, Is
  <2>2. CASE u # t
    BY <1>2, <1>5, <2>2 DEF Somewhere, Is
  <2> QED BY <2>1, <2>2
<1>6. CASE ~Is(stamped[u], u, n)
  BY <1>2, <1>3, <1>4, <1>6 DEF Somewhere, Is
<1> QED BY <1>5, <1>6

LEMMA DrainPop ==
  ASSUME TypeInv, NoneMissing, Pop
  PROVE  NoneMissing'
<1>1. CASE messageQueue = <<>>
  BY <1>1, DrainUnchanged DEF Pop, threadVars
<1>2. CASE messageQueue # <<>>
  <2>1. /\ pMessage = NoMessage
        /\ pMessage' = Head(messageQueue) /\ messageQueue' = Tail(messageQueue)
        /\ UNCHANGED <<count, stamped, written, lost>>
    BY <1>2 DEF Pop, threadVars, TypeInv, HoldsMessage
  <2>2. \A j \in DOMAIN messageQueue :
          \/ pMessage' = messageQueue[j]
          \/ \E i \in DOMAIN messageQueue' : messageQueue'[i] = messageQueue[j]
    <3> SUFFICES ASSUME NEW j \in DOMAIN messageQueue, j # 1
                 PROVE  \E i \in DOMAIN messageQueue' : messageQueue'[i] = messageQueue[j]
      BY <1>2, <2>1, TailElements DEF TypeInv, TypeOK
    <3>1. j - 1 \in DOMAIN messageQueue' /\ messageQueue'[j - 1] = messageQueue[j]
      BY <1>2, <2>1, TailElements DEF TypeInv, TypeOK
    <3> QED BY <3>1
  <2> SUFFICES ASSUME NEW u \in Threads, NEW n \in 1 .. count[u]
               PROVE  Somewhere(u, n)'
    BY <2>1 DEF NoneMissing
  <2>3. Somewhere(u, n)
    BY DEF NoneMissing
  <2>4. CASE \E j \in DOMAIN messageQueue : Is(messageQueue[j], u, n)
    BY <2>2, <2>4 DEF Somewhere, Is
  <2>5. CASE ~\E j \in DOMAIN messageQueue : Is(messageQueue[j], u, n)
    BY <2>1, <2>3, <2>5 DEF Somewhere, Is
  <2> QED BY <2>4, <2>5
<1> QED BY <1>1, <1>2

LEMMA DrainWrite ==
  ASSUME TypeInv, NoneMissing, NEW d \in 0 .. MaxDay, pc = "popped", WriteTo(d)
  PROVE  NoneMissing'
<1>1. UNCHANGED <<count, stamped, messageQueue, lost>>
  BY DEF WriteTo, threadVars
<1>2. /\ \A i \in DOMAIN written : /\ i \in DOMAIN written'
                                   /\ written'[i] = written[i]
      /\ \E i \in DOMAIN written' : written'[i].message = pMessage
  <2>1. /\ DOMAIN written = 1 .. Len(written) /\ Len(written) \in Nat
        /\ DOMAIN written' = 1 .. Len(written) + 1
        /\ \A i \in 1 .. Len(written) : written'[i] = written[i]
        /\ written'[Len(written) + 1] = [message |-> pMessage, file |-> d]
    BY WriteToInv
  <2>2. Len(written) + 1 \in DOMAIN written' /\ written'[Len(written) + 1].message = pMessage
    BY <2>1
  <2> QED BY <2>1, <2>2
<1> SUFFICES ASSUME NEW u \in Threads, NEW n \in 1 .. count[u]
             PROVE  Somewhere(u, n)'
  BY <1>1 DEF NoneMissing
<1>3. Somewhere(u, n)
  BY DEF NoneMissing
<1>4. CASE Is(pMessage, u, n)
  BY <1>2, <1>4 DEF Somewhere, Is
<1>5. CASE ~Is(pMessage, u, n)
  BY <1>1, <1>2, <1>3, <1>5 DEF Somewhere, Is
<1> QED BY <1>4, <1>5

LEMMA DrainOpenFails ==
  ASSUME TypeInv, NoneMissing, OpenFails
  PROVE  NoneMissing'
<1>1. /\ UNCHANGED <<count, stamped, messageQueue, written>>
      /\ lost' = lost \cup {pMessage}
  BY DEF OpenFails, threadVars
<1> SUFFICES ASSUME NEW u \in Threads, NEW n \in 1 .. count[u]
             PROVE  Somewhere(u, n)'
  BY <1>1 DEF NoneMissing
<1>2. Somewhere(u, n)
  BY DEF NoneMissing
<1> QED BY <1>1, <1>2 DEF Somewhere, Is

LEMMA DrainNext == TypeInv /\ DrainInv /\ [Next]_vars => DrainInv'
<1> SUFFICES ASSUME TypeInv, NoneMissing, Stopping, [Next]_vars
             PROVE  NoneMissing' /\ Stopping'
  BY DEF DrainInv
<1>1. NoneMissing'
  <2>1. CASE Midnight \/ Destroy \/ Top \/ UNCHANGED vars
    BY <2>1, DrainUnchanged DEF Midnight, Destroy, Top, vars, writerVars, threadVars
  <2>2. CASE WriteSameFile \/ WriteNewFile
    <3>1. \E d \in 0 .. MaxDay : WriteTo(d) /\ pc = "popped"
      <4>1. pMessage \in Messages
        BY <2>2 DEF WriteSameFile, WriteNewFile, TypeInv, TypeOK, HoldsMessage
      <4> QED BY <2>2, <4>1, MessageParts DEF WriteSameFile, WriteNewFile, TypeInv, TypeOK
    <3> QED BY <3>1, DrainWrite
  <2> QED BY <2>1, <2>2, DrainStamp, DrainPush, DrainPop, DrainOpenFails
          DEF Next, WriterStep
<1>2. Stopping'
  <2>1. ASSUME NEW t \in Threads, Stamp(t) \/ Push(t) PROVE Stopping'
    <3>1. ~stopFlag /\ UNCHANGED <<stopFlag, pc>>
      BY <2>1 DEF Stamp, Push, Stopping, writerVars
    <3> QED BY <3>1 DEF Stopping
  <2>2. CASE Destroy
    BY <2>2 DEF Destroy, Stopping, threadVars, writerVars
  <2>3. CASE Top
    BY <2>3 DEF Top, Stopping, threadVars
  <2>4. CASE Midnight \/ UNCHANGED vars
    BY <2>4 DEF Midnight, vars, Stopping, threadVars, writerVars
  <2>5. CASE Pop
    BY <2>5 DEF Pop, Stopping, threadVars
  <2>6. CASE WriteSameFile \/ WriteNewFile \/ OpenFails
    BY <2>6 DEF WriteSameFile, WriteNewFile, WriteTo, OpenFails, Stopping, threadVars
  <2> QED BY <2>1, <2>2, <2>3, <2>4, <2>5, <2>6 DEF Next, WriterStep
<1> QED BY <1>1, <1>2

LEMMA DrainAlways == Spec => []DrainInv
BY DrainInit, DrainNext, TypeInvAlways, PTL DEF Spec

(* When the write thread has ended, every message that any thread made was     *)
(* written, or was lost because its file could not be opened.                  *)
THEOREM StopLosesNothing == Spec => []StopDrains
<1>1. TypeInv /\ DrainInv => StopDrains
  <2> SUFFICES ASSUME TypeInv, DrainInv, pc = "returned",
                      NEW t \in Threads, NEW n \in 1 .. count[t]
               PROVE  \/ \E m \in lost : m[1] = t /\ m[2] = n
                      \/ \E i \in DOMAIN written :
                           written[i].message[1] = t /\ written[i].message[2] = n
    BY DEF StopDrains
  <2>1. pMessage = NoMessage /\ DOMAIN messageQueue = {} /\ stamped[t] = NoMessage
    BY DEF TypeInv, HoldsMessage, DrainInv, Stopping
  <2>2. Somewhere(t, n)
    BY DEF DrainInv, NoneMissing
  <2> QED BY <2>1, <2>2 DEF Somewhere, Is
<1> QED BY <1>1, TypeInvAlways, DrainAlways, PTL

=============================================================================
