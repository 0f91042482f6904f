------------------------- MODULE ConnectionPoolProofs -------------------------
(***************************************************************************)
(* Proofs about ConnectionPool for any sets of workers and requests.  The  *)
(* invariants of the runs are not inductive alone: IInv adds who may hold  *)
(* the lock, who may hold a request, and what is over once the pool stops. *)
(***************************************************************************)
EXTENDS ConnectionPool, SequenceTheorems, TLAPS

(* The lock is held by the worker that is between acquiring and releasing it. *)
LockDiscipline ==
  \A w \in Workers : lock = w <=> pc[w] \in {"locked", "unlock"}

Serving == {"popped", "exec", "execHLR", "respond"}

(* A worker has a request exactly between a successful pop and the answer. *)
HandDiscipline ==
  \A w \in Workers : request[w] # NoRequest <=> pc[w] \in Serving

(* The second query is asked only after the first set a result. *)
ResultBeforeRespond ==
  \A w \in Workers : pc[w] \in {"respond", "execHLR"} => resultCode[request[w]] # "unset"

(* Nothing is pushed before main serves.  The destructor runs after the last *)
(* push has signalled and ends when the last worker has.                     *)
MainDiscipline ==
  /\ main \in {"notifyAll", "joining", "destroyed"} => pushing = NoRequest
  /\ main = "destroyed" => \A w \in Workers : pc[w] = "exited"
  /\ main \in {"init", "binding", "exit"} =>
       incomingRequests = <<>> /\ \A w \in Workers : request[w] = NoRequest

IInv ==
  /\ TypeOK
  /\ LockDiscipline
  /\ HandDiscipline
  /\ MainDiscipline
  /\ LiveRequestsInOnePlace
  /\ OnlyMissedWakesStrand
  /\ ResultBeforeRespond

-----------------------------------------------------------------------------
(* Sequences without repetitions, as the queue is one. *)

LEMMA RangeAppend ==
  ASSUME NEW S, NEW s \in Seq(S), NEW e \in S
  PROVE  /\ Append(s, e) \in Seq(S)
         /\ Range(Append(s, e)) = Range(s) \cup {e}
         /\ IsInjective(s) /\ e \notin Range(s) => IsInjective(Append(s, e))
<1>1. /\ Append(s, e) \in Seq(S)
      /\ DOMAIN s = 1 .. Len(s)
      /\ DOMAIN Append(s, e) = 1 .. Len(s) + 1
      /\ Len(s) \in Nat
      /\ \A i \in 1 .. Len(s) : Append(s, e)[i] = s[i]
      /\ Append(s, e)[Len(s) + 1] = e
  OBVIOUS
<1>2. Range(Append(s, e)) = Range(s) \cup {e}
  BY <1>1 DEF Range
<1>3. IsInjective(s) /\ e \notin Range(s) => IsInjective(Append(s, e))
  BY <1>1 DEF Range, IsInjective
<1> QED BY <1>1, <1>2, <1>3

LEMMA RangeHeadTail ==
  ASSUME NEW S, NEW s \in Seq(S), s # <<>>
  PROVE  /\ Head(s) \in S
         /\ Tail(s) \in Seq(S)
         /\ Range(s) = Range(Tail(s)) \cup {Head(s)}
         /\ IsInjective(s) => Head(s) \notin Range(Tail(s)) /\ IsInjective(Tail(s))
<1>1. /\ Head(s) \in S
      /\ Tail(s) \in Seq(S)
      /\ Len(s) \in Nat /\ Len(s) > 0
      /\ Head(s) = s[1]
      /\ DOMAIN s = 1 .. Len(s)
      /\ DOMAIN Tail(s) = 1 .. Len(s) - 1
      /\ \A i \in 1 .. Len(s) - 1 : Tail(s)[i] = s[i + 1]
  OBVIOUS
<1>2. ASSUME NEW i \in 1 .. Len(s), i # 1
      PROVE  \E j \in 1 .. Len(s) - 1 : i = j + 1
  <2>1. i - 1 \in 1 .. Len(s) - 1 /\ i = (i - 1) + 1
    BY <1>1, <1>2
  <2> QED BY <2>1
<1>3. \A j \in 1 .. Len(s) - 1 : j + 1 \in 1 .. Len(s) /\ j + 1 # 1
  BY <1>1
<1>4. Range(s) = Range(Tail(s)) \cup {Head(s)}
  <2>1. ASSUME NEW i \in 1 .. Len(s)
        PROVE  s[i] \in Range(Tail(s)) \cup {Head(s)}
    <3>1. CASE i = 1
      BY <1>1, <3>1
    <3>2. CASE i # 1
      BY <1>1, <1>2, <3>2 DEF Range
    <3> QED BY <3>1, <3>2
  <2>2. Range(s) \subseteq Range(Tail(s)) \cup {Head(s)}
    BY <1>1, <2>1 DEF Range
  <2>3. Range(Tail(s)) \cup {Head(s)} \subseteq Range(s)
    BY <1>1, <1>3 DEF Range
  <2> QED BY <2>2, <2>3
<1>5. IsInjective(s) => Head(s) \notin Range(Tail(s)) /\ IsInjective(Tail(s))
  BY <1>1, <1>3 DEF Range, IsInjective
<1> QED BY <1>1, <1>4, <1>5

-----------------------------------------------------------------------------
(* Type correctness. *)

LEMMA TypeInit == Init => TypeOK
<1> SUFFICES ASSUME Init PROVE TypeOK
  OBVIOUS
<1>1. incomingRequests \in Seq(Requests)
  BY DEF Init
<1>2. /\ pc \in [Workers -> WorkerPCs]
      /\ request \in [Workers -> Requests \cup {NoRequest}]
      /\ main \in MainPCs
  BY DEF Init, WorkerPCs, MainPCs
<1>3. /\ requestType \in [Requests -> RequestTypes \cup {"unknown"}]
      /\ resultCode \in [Requests -> ResultCodes]
      /\ fate \in [Requests -> {"unborn", "live"} \cup Dispatch!Fates]
  BY DEF Init, ResultCodes
<1> QED BY <1>1, <1>2, <1>3 DEF Init, TypeOK

LEMMA GotoType ==
  ASSUME TypeOK, NEW w \in Workers, NEW from, NEW to \in WorkerPCs, Goto(w, from, to)
  PROVE  pc' \in [Workers -> WorkerPCs]
BY DEF TypeOK, Goto

LEMMA CodeOfType ==
  ASSUME NEW parseRes
  PROVE  CodeOf(parseRes) \in ResultCodes \ {"unset"}
BY DEF CodeOf, ResultCodes

LEMMA TypeMainStep == TypeOK /\ MainStep => TypeOK'
<1> SUFFICES ASSUME TypeOK, MainStep PROVE TypeOK'
  OBVIOUS
<1> USE DEF queueVars, fieldVars
<1>1. ASSUME NEW w \in Workers, StartWorker(w) PROVE TypeOK'
  BY <1>1 DEF TypeOK, StartWorker, WorkerPCs, MainPCs
<1>2. CASE InitializeServer \/ InitializeFails
  BY <1>2 DEF TypeOK, InitializeServer, InitializeFails, MainPCs
<1>3. ASSUME NEW r \in Requests, NEW t \in RequestTypes, Push(r, t) PROVE TypeOK'
  <2>1. incomingRequests' \in Seq(Requests)
    BY <1>3, RangeAppend DEF TypeOK, Push
  <2> QED BY <1>3, <2>1 DEF TypeOK, Push
<1>4. CASE NotifyOne
  BY <1>4 DEF TypeOK, NotifyOne, Waiting, WorkerPCs, Draining
<1>5. CASE Stop
  BY <1>5 DEF TypeOK, Stop, MainPCs
<1>6. CASE NotifyAll
  BY <1>6 DEF TypeOK, NotifyAll, WorkerPCs, Draining, MainPCs
<1>7. CASE Join
  BY <1>7 DEF TypeOK, Join, MainPCs
<1> QED BY <1>1, <1>2, <1>3, <1>4, <1>5, <1>6, <1>7 DEF MainStep

LEMMA TypeWorkerStep ==
  ASSUME TypeOK, NEW w \in Workers, WorkerStep(w) \/ AcquireLock(w) \/ SpuriousWake(w)
  PROVE  TypeOK'
<1> USE DEF queueVars, fieldVars
<1>0. {"loop", "exited", "lock", "locked", "waiting", "unlock", "pop", "popped",
       "exec", "execHLR", "respond", "woken"} \subseteq WorkerPCs
  BY DEF WorkerPCs, Draining
<1>1. CASE LoopTest(w)
  <2>1. pc' \in [Workers -> WorkerPCs]
    BY <1>0, <1>1 DEF TypeOK, LoopTest, Goto
  <2> QED BY <1>1, <2>1 DEF TypeOK, LoopTest
<1>2. CASE ReleaseLock(w)
  <2>1. pc' \in [Workers -> WorkerPCs]
    BY <1>0, <1>2 DEF TypeOK, ReleaseLock, Goto
  <2> QED BY <1>2, <2>1 DEF TypeOK, ReleaseLock
<1>3. CASE Pop(w)
  <2>1. pc' \in [Workers -> WorkerPCs]
    BY <1>0, <1>3 DEF TypeOK, Pop, Goto
  <2>2. /\ incomingRequests' \in Seq(Requests)
        /\ request' \in [Workers -> Requests \cup {NoRequest}]
    BY <1>3, RangeHeadTail DEF TypeOK, Pop
  <2> QED BY <1>3, <2>1, <2>2 DEF TypeOK, Pop
<1>4. CASE CheckAge(w)
  <2>1. pc' \in [Workers -> WorkerPCs]
    BY <1>0, <1>4 DEF TypeOK, CheckAge, Goto
  <2>2. /\ request' \in [Workers -> Requests \cup {NoRequest}]
        /\ fate' \in [Requests -> {"unborn", "live"} \cup Dispatch!Fates]
    BY <1>4 DEF TypeOK, CheckAge, Dispatch!Fates
  <2> QED BY <1>4, <2>1, <2>2 DEF TypeOK, CheckAge
<1>5. CASE Execute(w)
  <2>1. pc' \in [Workers -> WorkerPCs]
    BY <1>0, <1>5 DEF TypeOK, Execute, Goto
  <2>2. resultCode' \in [Requests -> ResultCodes]
    BY <1>5, CodeOfType DEF TypeOK, Execute, SetResult, ResultCodes
  <2> QED BY <1>5, <2>1, <2>2 DEF TypeOK, Execute
<1>6. CASE ExecuteHLR(w)
  <2>1. pc' \in [Workers -> WorkerPCs]
    BY <1>0, <1>6 DEF TypeOK, ExecuteHLR, Goto
  <2>2. resultCode' \in [Requests -> ResultCodes]
    BY <1>6, CodeOfType DEF TypeOK, ExecuteHLR, SetResult, ResultCodes
  <2> QED BY <1>6, <2>1, <2>2 DEF TypeOK, ExecuteHLR
<1>7. CASE Respond(w)
  <2>1. pc' \in [Workers -> WorkerPCs]
    BY <1>0, <1>7 DEF TypeOK, Respond, Goto
  <2>2. fate' \in [Requests -> {"unborn", "live"} \cup Dispatch!Fates]
    BY <1>7 DEF TypeOK, Respond, Dispatch!Fates
  <2>3. /\ request' \in [Workers -> Requests \cup {NoRequest}]
        /\ requestType' \in [Requests -> RequestTypes \cup {"unknown"}]
        /\ resultCode' \in [Requests -> ResultCodes]
        /\ aged' \in SUBSET Requests
    BY <1>7 DEF TypeOK, Respond, ResultCodes
  <2> QED BY <1>7, <2>1, <2>2, <2>3 DEF TypeOK, Respond
<1>8. CASE AcquireLock(w)
  <2>1. pc' \in [Workers -> WorkerPCs]
    BY <1>0, <1>8 DEF TypeOK, AcquireLock, Goto
  <2> QED BY <1>8, <2>1 DEF TypeOK, AcquireLock
<1>9. CASE SpuriousWake(w)
  <2>1. pc' \in [Workers -> WorkerPCs]
    BY <1>0, <1>9 DEF TypeOK, SpuriousWake, Goto
  <2> QED BY <1>9, <2>1 DEF TypeOK, SpuriousWake
<1> QED BY <1>1, <1>2, <1>3, <1>4, <1>5, <1>6, <1>7, <1>8, <1>9 DEF WorkerStep

LEMMA TypeAge ==
  ASSUME TypeOK, NEW r \in Requests, Age(r)
  PROVE  TypeOK'
BY DEF TypeOK, Age, queueVars

(* Every variable stays in its type, for any number of workers and requests. *)
THEOREM TypeCorrect == Spec => []TypeOK
<1>1. TypeOK /\ [Next]_vars => TypeOK'
  <2> SUFFICES ASSUME TypeOK, [Next]_vars PROVE TypeOK'
    OBVIOUS
  <2>1. CASE UNCHANGED vars
    BY <2>1 DEF TypeOK, vars, queueVars, fieldVars
  <2> QED BY <2>1, TypeMainStep, TypeWorkerStep, TypeAge DEF Next
<1> QED BY <1>1, TypeInit, PTL DEF Spec

-----------------------------------------------------------------------------
(* The inductive invariant. *)

LEMMA InvInit == Init => IInv
<1> SUFFICES ASSUME Init PROVE IInv
  OBVIOUS
<1>1. TypeOK
  BY TypeInit
<1>2. Range(incomingRequests) = {} /\ IsInjective(incomingRequests)
  BY DEF Init, Range, IsInjective
<1>3. LockDiscipline /\ HandDiscipline /\ MainDiscipline /\ ResultBeforeRespond
  BY ValuesAssumption DEF Init, LockDiscipline, HandDiscipline, MainDiscipline,
     ResultBeforeRespond, Serving
<1>4. LiveRequestsInOnePlace
  BY <1>2, ValuesAssumption DEF Init, LiveRequestsInOnePlace, Queued
<1>5. OnlyMissedWakesStrand
  BY <1>2 DEF OnlyMissedWakesStrand, Queued
<1> QED BY <1>1, <1>3, <1>4, <1>5 DEF IInv

(* A step of the worker loop moves one worker. *)
LEMMA GotoMoves ==
  ASSUME TypeOK, NEW w \in Workers, NEW from, NEW to, Goto(w, from, to)
  PROVE  /\ pc[w] = from /\ pc'[w] = to
         /\ \A v \in Workers : v # w => pc'[v] = pc[v]
BY DEF TypeOK, Goto

LEMMA InvMainStep ==
  ASSUME IInv, TypeOK', MainStep
  PROVE  IInv'
<1> USE DEF queueVars, fieldVars
<1>1. ASSUME NEW w \in Workers, StartWorker(w) PROVE IInv'
  <2>1. /\ TypeOK /\ pc[w] = "unborn" /\ main = "init" /\ main' \in {"init", "binding"}
        /\ pc' = [pc EXCEPT ![w] = "loop"]
        /\ UNCHANGED <<queueVars, fieldVars, lock, stopFlag, request, fate>>
    BY <1>1 DEF IInv, StartWorker
  <2>2. \A v \in Workers : v # w => pc'[v] = pc[v]
    BY <2>1 DEF TypeOK
  <2>3. pc'[w] = "loop"
    BY <2>1 DEF TypeOK
  <2>4. LockDiscipline' /\ HandDiscipline' /\ MainDiscipline' /\ ResultBeforeRespond'
    BY <2>1, <2>2, <2>3 DEF IInv, LockDiscipline, HandDiscipline, MainDiscipline,
       ResultBeforeRespond, Serving
  <2>5. LiveRequestsInOnePlace'
    BY <2>1 DEF IInv, LiveRequestsInOnePlace, Queued
  <2>6. OnlyMissedWakesStrand'
    BY <2>1, <2>2, <2>3 DEF IInv, OnlyMissedWakesStrand, Queued, Draining
  <2> QED BY <2>4, <2>5, <2>6 DEF IInv
<1>2. CASE InitializeServer \/ InitializeFails
  BY <1>2 DEF InitializeServer, InitializeFails, IInv, LockDiscipline, HandDiscipline, MainDiscipline,
     ResultBeforeRespond, LiveRequestsInOnePlace, OnlyMissedWakesStrand, Queued
<1>3. ASSUME NEW r \in Requests, NEW t \in RequestTypes, Push(r, t) PROVE IInv'
  <2>1. /\ TypeOK /\ fate[r] = "unborn" /\ fate' = [fate EXCEPT ![r] = "live"]
        /\ pushing = NoRequest /\ pushing' = r /\ main = "serving"
        /\ incomingRequests' = Append(incomingRequests, r)
        /\ UNCHANGED <<lock, stopFlag, pc, request, main, resultCode, missed>>
    BY <1>3 DEF IInv, Push
  <2>2. r \notin Queued /\ \A w \in Workers : request[w] # r
    BY <2>1 DEF IInv, LiveRequestsInOnePlace
  <2>3. Queued' = Queued \cup {r} /\ IsInjective(incomingRequests)'
    BY <2>1, <2>2, RangeAppend DEF IInv, LiveRequestsInOnePlace, TypeOK, Queued
  <2>4. LockDiscipline' /\ HandDiscipline' /\ MainDiscipline' /\ ResultBeforeRespond'
    BY <2>1 DEF IInv, LockDiscipline, HandDiscipline, MainDiscipline,
       ResultBeforeRespond
  <2>5. LiveRequestsInOnePlace'
    <3>1. \A q \in Requests : fate'[q] = "live" <=> fate[q] = "live" \/ q = r
      BY <2>1 DEF TypeOK
    <3> QED BY <2>1, <2>2, <2>3, <3>1 DEF IInv, LiveRequestsInOnePlace
  <2>6. OnlyMissedWakesStrand'
    <3>1. Queued \subseteq Requests
      BY <2>1 DEF TypeOK, Queued, Range
    <3> QED BY <2>1, <2>3, <3>1, ValuesAssumption DEF IInv, OnlyMissedWakesStrand
  <2> QED BY <2>4, <2>5, <2>6 DEF IInv
<1>4. CASE NotifyOne
  <2>1. /\ TypeOK /\ main = "serving" /\ pushing' = NoRequest
        /\ UNCHANGED <<incomingRequests, fieldVars, lock, stopFlag, request, main, fate>>
    BY <1>4 DEF IInv, NotifyOne
  <2>2. LiveRequestsInOnePlace'
    BY <2>1 DEF IInv, LiveRequestsInOnePlace, Queued
  <2>3. CASE Waiting = {} /\ missed' = missed \cup {pushing} /\ UNCHANGED pc
    <3>1. LockDiscipline' /\ HandDiscipline' /\ MainDiscipline' /\ ResultBeforeRespond'
      BY <2>1, <2>3 DEF IInv, LockDiscipline, HandDiscipline, MainDiscipline,
         ResultBeforeRespond
    <3>2. OnlyMissedWakesStrand'
      BY <2>1, <2>3 DEF IInv, OnlyMissedWakesStrand, Queued
    <3> QED BY <2>2, <3>1, <3>2 DEF IInv
  <2>4. ASSUME NEW w \in Waiting, pc' = [pc EXCEPT ![w] = "woken"], UNCHANGED missed
        PROVE  IInv'
    <3>1. /\ w \in Workers /\ pc[w] = "waiting" /\ pc'[w] = "woken"
          /\ \A v \in Workers : v # w => pc'[v] = pc[v]
      BY <2>1, <2>4 DEF TypeOK, Waiting
    <3>2. LockDiscipline' /\ HandDiscipline' /\ MainDiscipline' /\ ResultBeforeRespond'
      BY <2>1, <3>1 DEF IInv, LockDiscipline, HandDiscipline, MainDiscipline,
         ResultBeforeRespond, Serving
    <3>3. OnlyMissedWakesStrand'
      BY <3>1 DEF OnlyMissedWakesStrand, Draining
    <3> QED BY <2>2, <3>2, <3>3 DEF IInv
  <2> QED BY <1>4, <2>3, <2>4 DEF NotifyOne
<1>5. CASE Stop
  BY <1>5 DEF Stop, IInv, LockDiscipline, HandDiscipline, MainDiscipline,
     ResultBeforeRespond, LiveRequestsInOnePlace, OnlyMissedWakesStrand, Queued
<1>6. CASE NotifyAll
  <2>1. /\ TypeOK /\ main = "notifyAll" /\ main' = "joining"
        /\ \A w \in Workers : pc'[w] = IF pc[w] = "waiting" THEN "woken" ELSE pc[w]
        /\ UNCHANGED <<queueVars, fieldVars, lock, stopFlag, request, fate>>
    BY <1>6 DEF IInv, NotifyAll
  <2>2. LockDiscipline' /\ HandDiscipline' /\ MainDiscipline' /\ ResultBeforeRespond'
    BY <2>1 DEF IInv, LockDiscipline, HandDiscipline, MainDiscipline,
       ResultBeforeRespond, Serving
  <2>3. LiveRequestsInOnePlace'
    BY <2>1 DEF IInv, LiveRequestsInOnePlace, Queued
  <2>4. OnlyMissedWakesStrand'
    BY <2>1 DEF IInv, OnlyMissedWakesStrand, Queued, Draining
  <2> QED BY <2>2, <2>3, <2>4 DEF IInv
<1>7. CASE Join
  BY <1>7 DEF Join, IInv, LockDiscipline, HandDiscipline, MainDiscipline,
     ResultBeforeRespond, LiveRequestsInOnePlace, OnlyMissedWakesStrand, Queued
<1> QED BY <1>1, <1>2, <1>3, <1>4, <1>5, <1>6, <1>7 DEF MainStep

(* Putting a request down with a final fate keeps the live ones in one place. *)
LEMMA HandEmptied ==
  ASSUME IInv, NEW w \in Workers, pc[w] \in Serving,
         NEW f, f # "live",
         request' = [request EXCEPT ![w] = NoRequest],
         fate' = [fate EXCEPT ![request[w]] = f],
         UNCHANGED incomingRequests
  PROVE  LiveRequestsInOnePlace'
<1>1. TypeOK /\ request[w] \in Requests
  BY DEF IInv, TypeOK, HandDiscipline
<1>2. /\ request'[w] = NoRequest
      /\ \A v \in Workers : v # w => request'[v] = request[v] /\ request[v] # request[w]
  BY <1>1, ValuesAssumption DEF TypeOK, IInv, LiveRequestsInOnePlace
<1>3. /\ fate'[request[w]] = f
      /\ \A r \in Requests : r # request[w] => fate'[r] = fate[r]
  BY <1>1 DEF TypeOK
<1>4. Queued' = Queued /\ NoRequest \notin Queued /\ request[w] \notin Queued
  BY <1>1, ValuesAssumption DEF TypeOK, Queued, Range, IInv, LiveRequestsInOnePlace
<1> QED BY <1>1, <1>2, <1>3, <1>4, ValuesAssumption DEF IInv, LiveRequestsInOnePlace

LEMMA InvWorkerStep ==
  ASSUME IInv, TypeOK', NEW w \in Workers,
         WorkerStep(w) \/ AcquireLock(w) \/ SpuriousWake(w)
  PROVE  IInv'
<1> USE DEF queueVars, fieldVars
<1>0. TypeOK
  BY DEF IInv
<1>1. CASE LoopTest(w) \/ SpuriousWake(w)
  <2>1. /\ pc[w] \in {"loop", "waiting"}
        /\ pc'[w] \in {"exited", "lock", "woken"}
        /\ \A v \in Workers : v # w => pc'[v] = pc[v]
        /\ UNCHANGED <<queueVars, fieldVars, lock, stopFlag, request, main, fate>>
    BY <1>0, <1>1, GotoMoves DEF LoopTest, SpuriousWake
  <2>2. LockDiscipline' /\ HandDiscipline' /\ MainDiscipline' /\ ResultBeforeRespond'
    BY <2>1 DEF IInv, LockDiscipline, HandDiscipline, MainDiscipline,
       ResultBeforeRespond, Serving
  <2>3. LiveRequestsInOnePlace'
    BY <2>1 DEF IInv, LiveRequestsInOnePlace, Queued
  <2>4. OnlyMissedWakesStrand'
    BY <2>1 DEF IInv, OnlyMissedWakesStrand, Queued, Draining
  <2> QED BY <2>2, <2>3, <2>4 DEF IInv
<1>2. CASE AcquireLock(w)
  <2>1. /\ lock = NoWorker /\ lock' = w
        /\ \/ pc[w] = "lock" /\ pc'[w] = "locked"
           \/ pc[w] = "woken" /\ pc'[w] = "unlock"
        /\ \A v \in Workers : v # w => pc'[v] = pc[v]
        /\ UNCHANGED <<queueVars, fieldVars, stopFlag, request, main, fate>>
    BY <1>0, <1>2, GotoMoves DEF AcquireLock
  <2>2. LockDiscipline'
    BY <2>1, ValuesAssumption DEF IInv, LockDiscipline
  <2>3. HandDiscipline' /\ MainDiscipline' /\ ResultBeforeRespond'
    BY <2>1 DEF IInv, HandDiscipline, MainDiscipline, ResultBeforeRespond, Serving
  <2>4. LiveRequestsInOnePlace'
    BY <2>1 DEF IInv, LiveRequestsInOnePlace, Queued
  <2>5. OnlyMissedWakesStrand'
    BY <2>1 DEF IInv, OnlyMissedWakesStrand, Queued, Draining
  <2> QED BY <2>2, <2>3, <2>4, <2>5 DEF IInv
<1>3. CASE ReleaseLock(w)
  <2>1. /\ lock' = NoWorker
        /\ \/ pc[w] = "locked" /\ pc'[w] = "waiting"
           \/ pc[w] = "unlock" /\ pc'[w] = "pop"
        /\ \A v \in Workers : v # w => pc'[v] = pc[v]
        /\ UNCHANGED <<queueVars, fieldVars, stopFlag, request, main, fate>>
    BY <1>0, <1>3, GotoMoves DEF ReleaseLock
  <2>2. LockDiscipline'
    <3>1. \A v \in Workers : lock' # v
      BY <2>1, ValuesAssumption
    <3>2. lock = w /\ pc'[w] \notin {"locked", "unlock"}
      BY <2>1 DEF IInv, LockDiscipline
    <3>3. \A v \in Workers : v # w => pc[v] \notin {"locked", "unlock"}
      BY <3>2 DEF IInv, LockDiscipline
    <3> QED BY <2>1, <3>1, <3>2, <3>3 DEF LockDiscipline
  <2>3. HandDiscipline' /\ MainDiscipline' /\ ResultBeforeRespond'
    BY <2>1 DEF IInv, HandDiscipline, MainDiscipline, ResultBeforeRespond, Serving
  <2>4. LiveRequestsInOnePlace'
    BY <2>1 DEF IInv, LiveRequestsInOnePlace, Queued
  <2>5. OnlyMissedWakesStrand'
    BY <2>1 DEF IInv, OnlyMissedWakesStrand, Queued, Draining
  <2> QED BY <2>2, <2>3, <2>4, <2>5 DEF IInv
<1>4. CASE Pop(w)
  <2>1. /\ pc[w] = "pop" /\ request[w] = NoRequest
        /\ \A v \in Workers : v # w => pc'[v] = pc[v]
        /\ UNCHANGED <<pushing, missed, fieldVars, lock, stopFlag, main, fate>>
    BY <1>0, <1>4, GotoMoves DEF Pop, IInv, HandDiscipline, Serving
  <2>2. CASE incomingRequests # <<>>
    <3>1. /\ pc'[w] = "popped"
          /\ request' = [request EXCEPT ![w] = Head(incomingRequests)]
          /\ incomingRequests' = Tail(incomingRequests)
      BY <1>0, <1>4, <2>2, GotoMoves DEF Pop
    <3> DEFINE r == Head(incomingRequests)
    <3>2. /\ r \in Requests /\ Queued = Queued' \cup {r}
          /\ r \notin Queued' /\ IsInjective(incomingRequests)'
      BY <1>0, <2>2, <3>1, RangeHeadTail DEF TypeOK, IInv, LiveRequestsInOnePlace, Queued
    <3>3. request'[w] = r /\ \A v \in Workers : v # w => request'[v] = request[v]
      BY <1>0, <3>1 DEF TypeOK
    <3> HIDE DEF r
    <3>4. LockDiscipline' /\ HandDiscipline' /\ MainDiscipline' /\ ResultBeforeRespond'
      BY <2>1, <2>2, <3>1, <3>2, <3>3, ValuesAssumption DEF IInv, LockDiscipline,
         HandDiscipline, MainDiscipline, ResultBeforeRespond, Serving
    <3>5. LiveRequestsInOnePlace'
      <4>1. r \in Queued /\ \A v \in Workers : request[v] # r /\ request[v] \notin Queued
        BY <3>2 DEF IInv, LiveRequestsInOnePlace
      <4>2. \A u, v \in Workers :
              request'[u] = request'[v] /\ request'[u] # NoRequest => u = v
        BY <3>3, <4>1 DEF IInv, LiveRequestsInOnePlace
      <4>3. \A v \in Workers : request'[v] \notin Queued'
        BY <3>2, <3>3, <4>1
      <4>4. ASSUME NEW q \in Requests
            PROVE  fate'[q] = "live" <=> q \in Queued' \/ \E v \in Workers : request'[v] = q
        <5>1. fate[q] = "live" <=> q \in Queued \/ \E v \in Workers : request[v] = q
          BY DEF IInv, LiveRequestsInOnePlace
        <5>2. q # NoRequest
          BY ValuesAssumption
        <5> QED BY <2>1, <3>2, <3>3, <5>1, <5>2
      <4> QED BY <3>2, <4>2, <4>3, <4>4 DEF LiveRequestsInOnePlace
    <3>6. OnlyMissedWakesStrand'
      BY <2>1, <3>1, <3>2 DEF IInv, OnlyMissedWakesStrand, Draining
    <3> QED BY <3>4, <3>5, <3>6 DEF IInv
  <2>3. CASE incomingRequests = <<>>
    <3>1. pc'[w] = "loop" /\ UNCHANGED <<request, incomingRequests>>
      BY <1>0, <1>4, <2>3, GotoMoves DEF Pop
    <3>2. LockDiscipline' /\ HandDiscipline' /\ MainDiscipline' /\ ResultBeforeRespond'
      BY <2>1, <3>1 DEF IInv, LockDiscipline, HandDiscipline, MainDiscipline,
         ResultBeforeRespond, Serving
    <3>3. LiveRequestsInOnePlace'
      BY <2>1, <3>1 DEF IInv, LiveRequestsInOnePlace, Queued
    <3>4. OnlyMissedWakesStrand'
      BY <2>3, <3>1 DEF OnlyMissedWakesStrand, Queued, Range
    <3> QED BY <3>2, <3>3, <3>4 DEF IInv
  <2> QED BY <2>2, <2>3
<1>5. CASE CheckAge(w)
  <2>1. /\ pc[w] = "popped"
        /\ \A v \in Workers : v # w => pc'[v] = pc[v]
        /\ UNCHANGED <<queueVars, fieldVars, lock, stopFlag, main>>
    BY <1>0, <1>5, GotoMoves DEF CheckAge
  <2>2. CASE request[w] \notin aged
    <3>1. pc'[w] = "exec" /\ UNCHANGED <<request, fate>>
      BY <1>0, <1>5, <2>2, GotoMoves DEF CheckAge
    <3>2. LockDiscipline' /\ HandDiscipline' /\ MainDiscipline' /\ ResultBeforeRespond'
      BY <2>1, <3>1 DEF IInv, LockDiscipline, HandDiscipline, MainDiscipline,
         ResultBeforeRespond, Serving
    <3>3. LiveRequestsInOnePlace'
      BY <2>1, <3>1 DEF IInv, LiveRequestsInOnePlace, Queued
    <3>4. OnlyMissedWakesStrand'
      BY <2>1, <3>1 DEF IInv, OnlyMissedWakesStrand, Queued, Draining
    <3> QED BY <3>2, <3>3, <3>4 DEF IInv
  <2>3. CASE request[w] \in aged
    <3>1. /\ pc'[w] = "pop"
          /\ request' = [request EXCEPT ![w] = NoRequest]
          /\ fate' = [fate EXCEPT ![request[w]] = "discarded"]
      BY <1>0, <1>5, <2>3, GotoMoves DEF CheckAge
    <3>2. LockDiscipline' /\ HandDiscipline' /\ MainDiscipline' /\ ResultBeforeRespond'
      BY <1>0, <2>1, <3>1 DEF TypeOK, IInv, LockDiscipline, HandDiscipline,
         MainDiscipline, ResultBeforeRespond, Serving
    <3>3. LiveRequestsInOnePlace'
      <4>1. pc[w] \in Serving /\ "discarded" # "live" /\ UNCHANGED incomingRequests
        BY <2>1 DEF Serving
      <4> QED BY <3>1, <4>1, HandEmptied
    <3>4. OnlyMissedWakesStrand'
      BY <2>1, <3>1 DEF IInv, OnlyMissedWakesStrand, Queued, Draining
    <3> QED BY <3>2, <3>3, <3>4 DEF IInv
  <2> QED BY <2>2, <2>3
<1>6. CASE Execute(w) \/ ExecuteHLR(w)
  <2>1. /\ pc[w] \in {"exec", "execHLR"}
        /\ pc'[w] \in {"execHLR", "respond"}
        /\ \A v \in Workers : v # w => pc'[v] = pc[v]
        /\ UNCHANGED <<queueVars, requestType, aged, lock, stopFlag, request, main, fate>>
    BY <1>0, <1>6, GotoMoves DEF Execute, ExecuteHLR
  <2>2. \E code \in ResultCodes \ {"unset"} : SetResult(w, code)
    BY <1>6, CodeOfType DEF Execute, ExecuteHLR, ResultCodes
  <2>3. LockDiscipline' /\ HandDiscipline' /\ MainDiscipline'
    BY <2>1 DEF IInv, LockDiscipline, HandDiscipline, MainDiscipline, Serving
  <2>4. ResultBeforeRespond'
    <3>1. request[w] \in Requests
      BY <1>0, <2>1 DEF TypeOK, IInv, HandDiscipline, Serving
    <3>2. \A r \in Requests : resultCode[r] # "unset" \/ r = request[w] => resultCode'[r] # "unset"
      BY <1>0, <2>2, <3>1 DEF TypeOK, SetResult
    <3>3. ASSUME NEW v \in Workers, pc[v] \in Serving PROVE request[v] \in Requests
      BY <1>0, <3>3 DEF TypeOK, IInv, HandDiscipline
    <3> QED BY <2>1, <3>2, <3>3 DEF IInv, ResultBeforeRespond, Serving
  <2>5. LiveRequestsInOnePlace'
    BY <2>1 DEF IInv, LiveRequestsInOnePlace, Queued
  <2>6. OnlyMissedWakesStrand'
    BY <2>1 DEF IInv, OnlyMissedWakesStrand, Queued, Draining
  <2> QED BY <2>3, <2>4, <2>5, <2>6 DEF IInv
<1>7. CASE Respond(w)
  <2>1. /\ pc[w] = "respond" /\ pc'[w] = "pop"
        /\ \A v \in Workers : v # w => pc'[v] = pc[v]
        /\ request' = [request EXCEPT ![w] = NoRequest]
        /\ resultCode' = [resultCode EXCEPT ![request[w]] = "unset"]
        /\ UNCHANGED <<queueVars, lock, stopFlag, main>>
    BY <1>0, <1>7, GotoMoves DEF Respond
  <2>2. PICK f \in {"answered", "unsent"} : fate' = [fate EXCEPT ![request[w]] = f]
    BY <1>7 DEF Respond
  <2>3. LockDiscipline' /\ HandDiscipline' /\ MainDiscipline'
    BY <1>0, <2>1 DEF TypeOK, IInv, LockDiscipline, HandDiscipline, MainDiscipline,
       Serving
  <2>4. ResultBeforeRespond'
    <3>1. ASSUME NEW v \in Workers, pc'[v] \in {"respond", "execHLR"}
          PROVE  /\ v # w /\ pc[v] = pc'[v] /\ request'[v] = request[v]
                 /\ request[v] # request[w] /\ request[v] \in Requests
      BY <1>0, <2>1, <3>1 DEF TypeOK, IInv, HandDiscipline, LiveRequestsInOnePlace,
         Serving
    <3>2. \A r \in Requests : r # request[w] => resultCode'[r] = resultCode[r]
      BY <1>0, <2>1 DEF TypeOK
    <3> QED BY <3>1, <3>2 DEF IInv, ResultBeforeRespond
  <2>5. LiveRequestsInOnePlace'
    <3>1. pc[w] \in Serving /\ f # "live" /\ UNCHANGED incomingRequests
      BY <2>1, <2>2 DEF Serving
    <3> QED BY <2>1, <2>2, <3>1, HandEmptied
  <2>6. OnlyMissedWakesStrand'
    BY <2>1 DEF IInv, OnlyMissedWakesStrand, Queued, Draining
  <2> QED BY <2>3, <2>4, <2>5, <2>6 DEF IInv
<1> QED BY <1>1, <1>2, <1>3, <1>4, <1>5, <1>6, <1>7 DEF WorkerStep

LEMMA InvAge ==
  ASSUME IInv, TypeOK', NEW r \in Requests, Age(r)
  PROVE  IInv'
BY DEF Age, queueVars, IInv, LockDiscipline, HandDiscipline, MainDiscipline,
   ResultBeforeRespond, LiveRequestsInOnePlace, OnlyMissedWakesStrand, Queued

(* The inductive invariant holds in every reachable state. *)
THEOREM InductiveInvariant == Spec => []IInv
<1>1. IInv /\ TypeOK' /\ [Next]_vars => IInv'
  <2> SUFFICES ASSUME IInv, TypeOK', [Next]_vars PROVE IInv'
    OBVIOUS
  <2>1. CASE UNCHANGED vars
    BY <2>1 DEF vars, queueVars, fieldVars, IInv, LockDiscipline, HandDiscipline,
       MainDiscipline, ResultBeforeRespond, LiveRequestsInOnePlace,
       OnlyMissedWakesStrand, Queued
  <2> QED BY <2>1, InvMainStep, InvWorkerStep, InvAge DEF Next
<1> QED BY <1>1, InvInit, TypeCorrect, PTL DEF Spec

-----------------------------------------------------------------------------
(* What follows from it. *)

(* A live request is in the queue once or with one worker: no pointer is     *)
(* processed twice, deleted twice or used after it was deleted.              *)
THEOREM LiveRequestsSafe == Spec => []LiveRequestsInOnePlace
BY InductiveInvariant, PTL DEF IInv

(* If no worker is draining, the queue holds only requests whose own signal  *)
(* was lost (and the one being pushed).                                      *)
THEOREM StrandedWereMissed == Spec => []OnlyMissedWakesStrand
BY InductiveInvariant, PTL DEF IInv

(* After the destructor's joins, only requests whose signal was lost are     *)
(* left unserved.                                                            *)
THEOREM ShutdownServesHeard == Spec => []ShutdownDropsOnlyMissed
<1>1. IInv => ShutdownDropsOnlyMissed
  <2> SUFFICES ASSUME IInv, main = "destroyed", NEW r \in Requests, fate[r] = "live"
               PROVE  r \in missed
    BY DEF ShutdownDropsOnlyMissed
  <2>1. \A w \in Workers : pc[w] = "exited" /\ request[w] = NoRequest
    BY DEF IInv, MainDiscipline, HandDiscipline, Serving
  <2>2. r \in Queued
    BY <2>1, ValuesAssumption DEF IInv, LiveRequestsInOnePlace
  <2>3. r # pushing
    BY ValuesAssumption DEF IInv, MainDiscipline
  <2> QED BY <2>1, <2>2, <2>3 DEF IInv, OnlyMissedWakesStrand, Draining
<1> QED BY <1>1, InductiveInvariant, PTL

(* When exit() is called on a failed start, no worker has anything to do.     *)
THEOREM ExitIsIdle == Spec => []ExitFindsPoolIdle
<1>1. IInv => ExitFindsPoolIdle
  BY DEF IInv, MainDiscipline, ExitFindsPoolIdle, Queued, Range
<1> QED BY <1>1, InductiveInvariant, PTL

(* A worker about to answer has a result code that ProcessRequest assigned. *)
THEOREM ResponsesHaveResult == Spec => []ResponseHasResult
<1>1. IInv => ResponseHasResult
  BY DEF IInv, ResultBeforeRespond, ResponseHasResult
<1> QED BY <1>1, InductiveInvariant, PTL

(* Every step of the pool is a step of RequestDispatch or changes none of its *)
(* variables: requests are taken in the order pushed, by one worker each, and *)
(* get one fate for good.                                                     *)
THEOREM PoolImplementsDispatch == Spec => DispatchSpec
<1>1. Init => Dispatch!Init
  BY DEF Init, Dispatch!Init
<1>2. ASSUME IInv, [Next]_vars
      PROVE  [Dispatch!Next]_(Dispatch!vars)
  <2> USE DEF queueVars, fieldVars
  <2>1. ASSUME NEW r \in Requests, NEW t \in RequestTypes, Push(r, t)
        PROVE  Dispatch!Submit(r)
    BY <2>1 DEF Push, Dispatch!Submit
  <2>2. ASSUME NEW w \in Workers, Pop(w)
        PROVE  Dispatch!Take(w) \/ UNCHANGED Dispatch!vars
    <3>1. request[w] = NoRequest
      BY <1>2, <2>2 DEF Pop, Goto, IInv, HandDiscipline, Serving
    <3> QED BY <2>2, <3>1 DEF Pop, Dispatch!Take, Dispatch!vars
  <2>3. ASSUME NEW w \in Workers, CheckAge(w) \/ Respond(w)
        PROVE  (\E f \in Dispatch!Fates : Dispatch!Finish(w, f)) \/ UNCHANGED Dispatch!vars
    <3>1. request[w] # NoRequest /\ fate[request[w]] = "live"
      <4>1. pc[w] \in Serving
        BY <2>3 DEF CheckAge, Respond, Goto, Serving
      <4> QED BY <1>2, <4>1 DEF IInv, TypeOK, HandDiscipline, LiveRequestsInOnePlace
    <3> QED BY <2>3, <3>1 DEF CheckAge, Respond, Dispatch!Finish, Dispatch!Fates,
                              Dispatch!vars
  <2>4. CASE \/ \E w \in Workers : StartWorker(w)
             \/ InitializeServer \/ InitializeFails \/ NotifyOne \/ Stop \/ NotifyAll \/ Join
    BY <2>4 DEF StartWorker, InitializeServer, InitializeFails, NotifyOne, Stop, NotifyAll, Join,
       Dispatch!vars
  <2>5. ASSUME NEW w \in Workers,
               LoopTest(w) \/ ReleaseLock(w) \/ AcquireLock(w) \/ SpuriousWake(w)
                 \/ Execute(w) \/ ExecuteHLR(w)
        PROVE  UNCHANGED Dispatch!vars
    BY <2>5 DEF LoopTest, ReleaseLock, AcquireLock, SpuriousWake, Execute, ExecuteHLR,
       Dispatch!vars
  <2>6. ASSUME NEW r \in Requests, Age(r) PROVE UNCHANGED Dispatch!vars
    BY <2>6 DEF Age, Dispatch!vars
  <2>7. CASE UNCHANGED vars
    BY <2>7 DEF vars, Dispatch!vars
  <2> QED BY <1>2, <2>1, <2>2, <2>3, <2>4, <2>5, <2>6, <2>7
          DEF Next, MainStep, WorkerStep, Dispatch!Next
<1> QED BY <1>1, <1>2, InductiveInvariant, PTL DEF Spec, DispatchSpec, Dispatch!Spec

=============================================================================
