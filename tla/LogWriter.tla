------------------------------ MODULE LogWriter ------------------------------
(***************************************************************************)
(* LogWriter.cpp: every thread stamps its messages and pushes them on a    *)
(* lock-free queue; one thread pops them and appends each to the file of   *)
(* its day, opening that file when it is not the one already open.  When a *)
(* file cannot be opened, the message in hand is lost.                     *)
(*                                                                         *)
(* Threads is the set of all threads that log, main included.  The time is *)
(* the day alone.  Initialize has run: nothing is logged before it.        *)
(***************************************************************************)
EXTENDS Naturals, Sequences

CONSTANTS Threads,
          MaxMessages,   \* bound: messages of each thread
          MaxDay,        \* bound: days
          NoMessage

ASSUME LogAssumption ==
  /\ MaxMessages \in Nat /\ MaxDay \in Nat \ {0}
  /\ NoMessage \notin Threads \X (1 .. MaxMessages) \X (1 .. MaxDay)

(* A message is its thread, its number among that thread's, and its day. *)
Messages == Threads \X (1 .. MaxMessages) \X (1 .. MaxDay)

VARIABLES
  today,
  count,          \* how many messages each thread has made
  stamped,        \* the message each thread has stamped and not yet pushed
  messageQueue,
  pc,             \* where WriteThreadFunction is
  pMessage,
  streamDay,      \* the day of the file that m_logStream has open, 0 if none
  logFileDate,    \* m_logFileDate
  stopFlag,
  written,        \* history: what was written, and to the file of which day
  lost            \* history: the messages whose file could not be opened

writerVars == <<pc, pMessage, streamDay, logFileDate, written, lost>>
threadVars == <<today, count, stamped>>
vars == <<writerVars, threadVars, messageQueue, stopFlag>>

Init ==
  /\ today = 1
  /\ count = [t \in Threads |-> 0]
  /\ stamped = [t \in Threads |-> NoMessage]
  /\ messageQueue = <<>>
  /\ pc = "top" /\ pMessage = NoMessage
  /\ streamDay = 1 /\ logFileDate = 1       \* Initialize opened today's file
  /\ stopFlag = FALSE
  /\ written = <<>> /\ lost = {}

-----------------------------------------------------------------------------
(* The threads that log. *)

(* Write: the time is taken first and the message pushed after. *)
Stamp(t) ==
  /\ ~stopFlag
  /\ stamped[t] = NoMessage /\ count[t] < MaxMessages
  /\ count' = [count EXCEPT ![t] = @ + 1]
  /\ stamped' = [stamped EXCEPT ![t] = <<t, count[t] + 1, today>>]
  /\ UNCHANGED <<today, messageQueue, stopFlag, writerVars>>

(* Fault for mutation: what is pushed is not the message. *)
PushNull(t) ==
  /\ stamped[t] # NoMessage
  /\ messageQueue' = Append(messageQueue, NoMessage)
  /\ stamped' = [stamped EXCEPT ![t] = NoMessage]
  /\ UNCHANGED <<today, count, stopFlag, writerVars>>

Push(t) ==
  /\ stamped[t] # NoMessage
  /\ messageQueue' = Append(messageQueue, stamped[t])
  /\ stamped' = [stamped EXCEPT ![t] = NoMessage]
  /\ UNCHANGED <<today, count, stopFlag, writerVars>>

Midnight ==
  /\ today < MaxDay
  /\ today' = today + 1
  /\ UNCHANGED <<count, stamped, messageQueue, stopFlag, writerVars>>

(* The destructor: main is the last thread, and has joined the others. *)
Destroy ==
  /\ ~stopFlag
  /\ \A t \in Threads : stamped[t] = NoMessage
  /\ stopFlag' = TRUE
  /\ UNCHANGED <<threadVars, messageQueue, writerVars>>

-----------------------------------------------------------------------------
(* WriteThreadFunction. *)

(* Fault for mutation: the thread returns as soon as it is told to stop. *)
TopReturnsAtOnce ==
  /\ pc = "top"
  /\ pc' = IF stopFlag THEN "returned" ELSE "drain"
  /\ UNCHANGED <<pMessage, streamDay, logFileDate, written, lost, threadVars,
                 messageQueue, stopFlag>>

(* Fault for mutation: the thread sleeps on while the queue is empty. *)
TopSleepsOn ==
  /\ pc = "top"
  /\ messageQueue # <<>>
  /\ pc' = "drain"
  /\ UNCHANGED <<pMessage, streamDay, logFileDate, written, lost, threadVars,
                 messageQueue, stopFlag>>

(* Both are read at once: nobody pushes any more when stopFlag is set.  The   *)
(* sleep on an empty queue is the wait until this step or the next is taken.  *)
Top ==
  /\ pc = "top"
  /\ pc' = IF stopFlag /\ messageQueue = <<>> THEN "returned" ELSE "drain"
  /\ UNCHANGED <<pMessage, streamDay, logFileDate, written, lost, threadVars,
                 messageQueue, stopFlag>>

(* Fault for mutation: the newest message is taken. *)
PopNewest ==
  /\ pc = "drain"
  /\ messageQueue # <<>>
  /\ pMessage' = messageQueue[Len(messageQueue)]
  /\ messageQueue' = SubSeq(messageQueue, 1, Len(messageQueue) - 1)
  /\ pc' = "popped"
  /\ UNCHANGED <<streamDay, logFileDate, written, lost, threadVars, stopFlag>>

Pop ==
  /\ pc = "drain"
  /\ IF messageQueue = <<>>
     THEN pc' = "top" /\ UNCHANGED <<pMessage, messageQueue>>
     ELSE /\ pMessage' = Head(messageQueue)
          /\ messageQueue' = Tail(messageQueue)
          /\ pc' = "popped"
  /\ UNCHANGED <<streamDay, logFileDate, written, lost, threadVars, stopFlag>>

(* Fault for mutation: only the date is compared. *)
SameDate(day) == logFileDate = day

(* SetLogStream. *)
RightFileOpen(day) == logFileDate = day /\ streamDay # 0

(* The message goes to whatever file is open. *)
WriteTo(day) ==
  /\ written' = Append(written, [message |-> pMessage, file |-> day])
  /\ streamDay' = day
  /\ pMessage' = NoMessage
  /\ pc' = "drain"
  /\ UNCHANGED <<lost, threadVars, messageQueue, stopFlag>>

WriteSameFile ==
  /\ pc = "popped"
  /\ RightFileOpen(pMessage[3])
  /\ WriteTo(streamDay)
  /\ UNCHANGED logFileDate

WriteNewFile ==
  /\ pc = "popped"
  /\ ~RightFileOpen(pMessage[3])
  /\ WriteTo(pMessage[3])
  /\ logFileDate' = pMessage[3]

(* The old file is closed, the new one not open, and SetLogStream throws. *)
OpenFails ==
  /\ pc = "popped"
  /\ ~RightFileOpen(pMessage[3])
  /\ streamDay' = 0
  /\ lost' = lost \cup {pMessage}
  /\ pMessage' = NoMessage
  /\ pc' = "top"
  /\ UNCHANGED <<logFileDate, written, threadVars, messageQueue, stopFlag>>

WriterStep == Top \/ Pop \/ WriteSameFile \/ WriteNewFile \/ OpenFails

Next ==
  \/ \E t \in Threads : Stamp(t) \/ Push(t)
  \/ Midnight
  \/ Destroy
  \/ WriterStep

Spec == Init /\ [][Next]_vars

(* The write thread runs on, and a thread that has stamped pushes. *)
FairSpec == Spec /\ WF_vars(WriterStep) /\ \A t \in Threads : WF_vars(Push(t))

-----------------------------------------------------------------------------
TypeOK ==
  /\ today \in 1 .. MaxDay
  /\ count \in [Threads -> 0 .. MaxMessages]
  /\ stamped \in [Threads -> Messages \cup {NoMessage}]
  /\ messageQueue \in Seq(Messages)
  /\ pc \in {"top", "drain", "popped", "returned"}
  /\ pMessage \in Messages \cup {NoMessage}
  /\ streamDay \in 0 .. MaxDay
  /\ logFileDate \in 1 .. MaxDay
  /\ stopFlag \in BOOLEAN
  /\ written \in Seq([message : Messages, file : 0 .. MaxDay])
  /\ lost \in SUBSET Messages

(* Every message is written to the file of its own day and to an open file,   *)
(* though messages of two days may reach the writer mixed, and though opening *)
(* a file may fail in between.                                                *)
RightFile == \A i \in DOMAIN written : written[i].file = written[i].message[3]

(* What one thread logs is written in the order it was logged, each message   *)
(* at most once.                                                              *)
ThreadOrder ==
  \A i, j \in DOMAIN written :
    i < j /\ written[i].message[1] = written[j].message[1]
      => written[i].message[2] < written[j].message[2]

(* When the write thread has ended, every message was written or was lost     *)
(* because its file could not be opened.                                      *)
StopDrains ==
  pc = "returned" =>
    \A t \in Threads : \A n \in 1 .. count[t] :
      \/ \E m \in lost : m[1] = t /\ m[2] = n
      \/ \E i \in DOMAIN written : written[i].message[1] = t /\ written[i].message[2] = n

(* The destructor's join returns. *)
StopEnds == stopFlag ~> (pc = "returned")

=============================================================================
