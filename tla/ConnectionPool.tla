---------------------------- MODULE ConnectionPool ----------------------------
(***************************************************************************)
(* ConnectionPool.cpp: the main thread pushes requests on a lock-free      *)
(* queue and signals a condition variable; one worker thread per device    *)
(* connection sleeps on that variable, and when woken drains the queue,    *)
(* runs each request on its connection and answers the client.  The wait   *)
(* has no predicate and the signaller does not take the lock, so a signal  *)
(* that finds no worker asleep is lost.                                    *)
(*                                                                         *)
(* The result of HLRConnector::ProcessCommand and of the parser is a       *)
(* choice here (HLRConnector models how it comes about), and so is the     *)
(* result of sending the response.  Time is the set `aged' of the requests *)
(* accepted more than maxRequestAgeSec ago.                                *)
(***************************************************************************)
EXTENDS Sequences, Functions

CONSTANTS Requests,      \* the ClientRequest objects the server may create
          Workers,       \* one thread and one HLRConnector each (connectionCount)
          RequestTypes,  \* the request types clients use
          NoRequest,     \* the worker holds no request
          NoWorker       \* nobody holds the lock

KnownTypes == {"stateQuery", "resetRequest", "activateRequest",
               "deactivateRequest", "imsiQuery"}

ResultCodes == {"unset", "OPERATION_SUCCESS", "BAD_DEVICE_RESPONSE",
                "CMD_NOTEXECUTED", "CMD_UNKNOWN"}

ASSUME ValuesAssumption ==
  /\ NoRequest \notin Requests
  /\ NoWorker \notin Workers

ASSUME WorkersAssumption == Workers # {}   \* ValidateParams: at least 1

VARIABLES
  incomingRequests,  \* the lock-free queue
  lock,              \* the mutex of the condition variable: its holder
  stopFlag,
  pc,                \* where each worker thread is
  request,           \* the local variable `request' of each worker
  main,              \* where the main thread is
  pushing,           \* the request pushed whose notify_one is still to come
  requestType, resultCode,   \* fields of each ClientRequest
  aged,              \* the requests older than maxRequestAgeSec
  fate,              \* history: what became of each request
  missed             \* history: requests whose notify_one found nobody asleep

Dispatch == INSTANCE RequestDispatch WITH
  pending <- incomingRequests,
  serving <- request

queueVars  == <<incomingRequests, pushing, missed>>
fieldVars  == <<requestType, resultCode, aged>>
vars == <<queueVars, fieldVars, lock, stopFlag, pc, request, main, fate>>

(* A worker in one of these will call pop again before it sleeps or exits. *)
Draining == {"woken", "unlock", "pop", "popped", "exec", "execHLR", "respond"}

WorkerPCs == {"unborn", "loop", "lock", "locked", "waiting", "exited"} \cup Draining

MainPCs == {"init", "binding", "serving", "notifyAll", "joining", "destroyed", "exit"}

Waiting == {w \in Workers : pc[w] = "waiting"}

Queued == Range(incomingRequests)

Init ==
  /\ incomingRequests = <<>>
  /\ lock = NoWorker
  /\ stopFlag = FALSE
  /\ pc = [w \in Workers |-> "unborn"]
  /\ request = [w \in Workers |-> NoRequest]
  /\ main = "init"
  /\ pushing = NoRequest
  /\ requestType = [r \in Requests |-> "unknown"]
  /\ resultCode = [r \in Requests |-> "unset"]
  /\ aged = {}
  /\ fate = [r \in Requests |-> "unborn"]
  /\ missed = {}

-----------------------------------------------------------------------------
(* The main thread. *)

(* Initialize: connector w logs in and its thread starts, while the threads *)
(* started before it already run.                                           *)
StartWorker(w) ==
  /\ main = "init"
  /\ pc[w] = "unborn"
  /\ pc' = [pc EXCEPT ![w] = "loop"]
  /\ main' = IF \A v \in Workers \ {w} : pc[v] # "unborn" THEN "binding" ELSE "init"
  /\ UNCHANGED <<queueVars, fieldVars, lock, stopFlag, request, fate>>

(* main goes on to Server::Initialize, while the workers run. *)
InitializeServer ==
  /\ main = "binding"
  /\ main' = "serving"
  /\ UNCHANGED <<queueVars, fieldVars, lock, stopFlag, pc, request, fate>>

(* Fault for mutation: a failure while serving ends the program the same way. *)
ExitWhileServing ==
  /\ main \in {"init", "binding", "serving"}
  /\ main' = "exit"
  /\ UNCHANGED <<queueVars, fieldVars, lock, stopFlag, pc, request, fate>>

(* Initialize of the pool fails on a connector, or the server's fails: main   *)
(* calls exit(), which does not run the pool's destructor.  The workers run   *)
(* on while it destroys the globals.                                          *)
InitializeFails ==
  /\ main \in {"init", "binding"}
  /\ main' = "exit"
  /\ UNCHANGED <<queueVars, fieldVars, lock, stopFlag, pc, request, fate>>

(* Fault for mutation: the pointer is taken before the request is allocated. *)
PushNull(r, t) ==
  /\ main = "serving"
  /\ pushing = NoRequest
  /\ fate[r] = "unborn"
  /\ incomingRequests' = Append(incomingRequests, NoRequest)
  /\ pushing' = r
  /\ UNCHANGED <<fieldVars, fate, lock, stopFlag, pc, request, main, missed>>

(* PushRequest, first statement.  The request was accepted just now. *)
Push(r, t) ==
  /\ main = "serving"
  /\ pushing = NoRequest
  /\ fate[r] = "unborn"
  /\ incomingRequests' = Append(incomingRequests, r)
  /\ pushing' = r
  /\ requestType' = [requestType EXCEPT ![r] = t]
  /\ fate' = [fate EXCEPT ![r] = "live"]
  /\ UNCHANGED <<lock, stopFlag, pc, request, main, resultCode, aged, missed>>

(* PushRequest, second statement, taken without the lock. *)
NotifyOne ==
  /\ main = "serving"
  /\ pushing # NoRequest
  /\ pushing' = NoRequest
  /\ \/ /\ Waiting = {}
        /\ missed' = missed \cup {pushing}
        /\ UNCHANGED pc
     \/ /\ \E w \in Waiting : pc' = [pc EXCEPT ![w] = "woken"]
        /\ UNCHANGED missed
  /\ UNCHANGED <<incomingRequests, fieldVars, lock, stopFlag, request, main, fate>>

(* SIGINT or SIGTERM: server.Run returns and the pool is destroyed. *)
Stop ==
  /\ main = "serving"
  /\ pushing = NoRequest
  /\ stopFlag' = TRUE
  /\ main' = "notifyAll"
  /\ UNCHANGED <<queueVars, fieldVars, lock, pc, request, fate>>

NotifyAll ==
  /\ main = "notifyAll"
  /\ pc' = [w \in Workers |-> IF pc[w] = "waiting" THEN "woken" ELSE pc[w]]
  /\ main' = "joining"
  /\ UNCHANGED <<queueVars, fieldVars, lock, stopFlag, request, fate>>

(* join() returns for every thread, then the connectors are deleted. *)
Join ==
  /\ main = "joining"
  /\ \A w \in Workers : pc[w] = "exited"
  /\ main' = "destroyed"
  /\ UNCHANGED <<queueVars, fieldVars, lock, stopFlag, pc, request, fate>>

-----------------------------------------------------------------------------
(* WorkerThread. *)

Goto(w, from, to) ==
  /\ pc[w] = from
  /\ pc' = [pc EXCEPT ![w] = to]

(* Fault for mutation: `while (true)'. *)
LoopForever(w) ==
  /\ Goto(w, "loop", "lock")
  /\ UNCHANGED <<queueVars, fieldVars, lock, stopFlag, request, main, fate>>

LoopTest(w) ==
  /\ Goto(w, "loop", IF stopFlag THEN "exited" ELSE "lock")
  /\ UNCHANGED <<queueVars, fieldVars, lock, stopFlag, request, main, fate>>

AcquireLock(w) ==
  /\ lock = NoWorker
  /\ lock' = w
  /\ \/ Goto(w, "lock", "locked")      \* unique_lock's constructor
     \/ Goto(w, "woken", "unlock")     \* inside wait, once woken
  /\ UNCHANGED <<queueVars, fieldVars, stopFlag, request, main, fate>>

(* wait releases the lock and falls asleep in one step; unlock releases it. *)
ReleaseLock(w) ==
  /\ lock' = NoWorker
  /\ \/ Goto(w, "locked", "waiting")
     \/ Goto(w, "unlock", "pop")
  /\ UNCHANGED <<queueVars, fieldVars, stopFlag, request, main, fate>>

(* wait may return without a signal. *)
SpuriousWake(w) ==
  /\ Goto(w, "waiting", "woken")
  /\ UNCHANGED <<queueVars, fieldVars, lock, stopFlag, request, main, fate>>

(* Faults for mutation: the head is read and not removed; the newest request *)
(* is taken; the inner loop also ends when the pool is told to stop.         *)
PopKeepsHead(w) ==
  /\ incomingRequests # <<>>
  /\ Goto(w, "pop", "popped")
  /\ request' = [request EXCEPT ![w] = Head(incomingRequests)]
  /\ UNCHANGED <<queueVars, fieldVars, lock, stopFlag, main, fate>>

PopNewest(w) ==
  LET n == Len(incomingRequests) IN
  /\ n > 0
  /\ Goto(w, "pop", "popped")
  /\ request' = [request EXCEPT ![w] = incomingRequests[n]]
  /\ incomingRequests' = SubSeq(incomingRequests, 1, n - 1)
  /\ UNCHANGED <<pushing, missed, fieldVars, lock, stopFlag, main, fate>>

PopUnlessStopping(w) ==
  /\ \/ /\ incomingRequests # <<>> /\ ~stopFlag
        /\ Goto(w, "pop", "popped")
        /\ request' = [request EXCEPT ![w] = Head(incomingRequests)]
        /\ incomingRequests' = Tail(incomingRequests)
     \/ /\ incomingRequests = <<>> \/ stopFlag
        /\ Goto(w, "pop", "loop")
        /\ UNCHANGED <<request, incomingRequests>>
  /\ UNCHANGED <<pushing, missed, fieldVars, lock, stopFlag, main, fate>>

Pop(w) ==
  /\ \/ /\ incomingRequests # <<>>
        /\ Goto(w, "pop", "popped")
        /\ request' = [request EXCEPT ![w] = Head(incomingRequests)]
        /\ incomingRequests' = Tail(incomingRequests)
     \/ /\ incomingRequests = <<>>
        /\ Goto(w, "pop", "loop")
        /\ UNCHANGED <<request, incomingRequests>>
  /\ UNCHANGED <<pushing, missed, fieldVars, lock, stopFlag, main, fate>>

(* The age test.  A request found too old is dropped: not answered and not *)
(* deleted either.                                                         *)
CheckAge(w) ==
  /\ \/ /\ request[w] \notin aged
        /\ Goto(w, "popped", "exec")
        /\ UNCHANGED <<request, fate>>
     \/ /\ request[w] \in aged
        /\ Goto(w, "popped", "pop")
        /\ request' = [request EXCEPT ![w] = NoRequest]
        /\ fate' = [fate EXCEPT ![request[w]] = "discarded"]
  /\ UNCHANGED <<queueVars, fieldVars, lock, stopFlag, main>>

(* ParseAndSetResultCode, by what the parser returned. *)
CodeOf(parseRes) ==
  IF parseRes = "success" THEN "OPERATION_SUCCESS" ELSE "BAD_DEVICE_RESPONSE"

SetResult(w, code) == resultCode' = [resultCode EXCEPT ![request[w]] = code]

(* Fault for mutation: the commands that carry no answer set no result. *)
ExecuteForgetsSuccess(w) ==
  /\ pc[w] = "exec"
  /\ \/ /\ requestType[request[w]] \in {"resetRequest", "activateRequest"}
        /\ UNCHANGED resultCode
     \/ SetResult(w, "CMD_NOTEXECUTED")
  /\ Goto(w, "exec", "respond")
  /\ UNCHANGED <<queueVars, requestType, aged, lock, stopFlag, request, main, fate>>

(* ProcessRequest up to the first device answer.  Only the state query's   *)
(* parser can find the VLR's answer incomplete.                            *)
Execute(w) ==
  LET type == requestType[request[w]] IN
  /\ pc[w] = "exec"
  /\ \/ /\ type \notin KnownTypes
        /\ SetResult(w, "CMD_UNKNOWN")
        /\ Goto(w, "exec", "respond")
     \/ /\ type \in KnownTypes                 \* ProcessCommand failed
        /\ SetResult(w, "CMD_NOTEXECUTED")
        /\ Goto(w, "exec", "respond")
     \/ /\ type \in {"resetRequest", "activateRequest", "deactivateRequest"}
        /\ SetResult(w, "OPERATION_SUCCESS")
        /\ Goto(w, "exec", "respond")
     \/ /\ type \in {"stateQuery", "imsiQuery"}
        /\ \E res \in {"success", "failure"} : SetResult(w, CodeOf(res))
        /\ Goto(w, "exec", "respond")
     \/ /\ type = "stateQuery"
        /\ SetResult(w, CodeOf("infoNotComplete"))
        /\ Goto(w, "exec", "execHLR")
  /\ UNCHANGED <<queueVars, requestType, aged, lock, stopFlag, request, main, fate>>

(* ProcessRequest's second query: the HLR is asked for the location. *)
ExecuteHLR(w) ==
  /\ Goto(w, "execHLR", "respond")
  /\ \/ SetResult(w, "CMD_NOTEXECUTED")
     \/ \E res \in {"success", "failure"} : SetResult(w, CodeOf(res))
  /\ UNCHANGED <<queueVars, requestType, aged, lock, stopFlag, request, main, fate>>

(* Fault for mutation: `if (pop)' for `while (pop)', one request a wake-up. *)
RespondAndWait(w) ==
  /\ Goto(w, "respond", "loop")
  /\ \E f \in {"answered", "unsent"} : fate' = [fate EXCEPT ![request[w]] = f]
  /\ request' = [request EXCEPT ![w] = NoRequest]
  /\ requestType' = [requestType EXCEPT ![request[w]] = "unknown"]
  /\ resultCode' = [resultCode EXCEPT ![request[w]] = "unset"]
  /\ aged' = aged \ {request[w]}
  /\ UNCHANGED <<queueVars, lock, stopFlag, main>>

(* SendRequestResultToClient, which may fail, and delete request: the object *)
(* and its fields are gone.                                                  *)
Respond(w) ==
  /\ Goto(w, "respond", "pop")
  /\ \E f \in {"answered", "unsent"} : fate' = [fate EXCEPT ![request[w]] = f]
  /\ request' = [request EXCEPT ![w] = NoRequest]
  /\ requestType' = [requestType EXCEPT ![request[w]] = "unknown"]
  /\ resultCode' = [resultCode EXCEPT ![request[w]] = "unset"]
  /\ aged' = aged \ {request[w]}
  /\ UNCHANGED <<queueVars, lock, stopFlag, main>>

-----------------------------------------------------------------------------
(* maxRequestAgeSec passes since r was accepted. *)
Age(r) ==
  /\ fate[r] = "live"
  /\ r \notin aged
  /\ aged' = aged \cup {r}
  /\ UNCHANGED <<queueVars, requestType, resultCode, lock, stopFlag, pc, request,
                 main, fate>>

MainStep ==
  \/ \E w \in Workers : StartWorker(w)
  \/ InitializeServer
  \/ InitializeFails
  \/ \E r \in Requests, t \in RequestTypes : Push(r, t)
  \/ NotifyOne
  \/ Stop
  \/ NotifyAll
  \/ Join

(* What worker w does without being blocked by another thread. *)
WorkerStep(w) ==
  \/ LoopTest(w)
  \/ ReleaseLock(w)
  \/ Pop(w)
  \/ CheckAge(w)
  \/ Execute(w)
  \/ ExecuteHLR(w)
  \/ Respond(w)

Next ==
  \/ MainStep
  \/ \E w \in Workers : WorkerStep(w) \/ AcquireLock(w) \/ SpuriousWake(w)
  \/ \E r \in Requests : Age(r)

Spec == Init /\ [][Next]_vars

(* Each thread runs on.  The lock is held for a few instructions at a time,  *)
(* so a thread that keeps asking for it gets it.  Device calls are taken to  *)
(* return, and so are the sends to the clients, whose sockets block: when    *)
(* they do not, CommandReturns of HLRConnector and Blocks of Gateway say.    *)
(* Nobody owes the pool a push, a stop signal, a spurious wake-up or an      *)
(* expiry.                                                                   *)
Fairness ==
  /\ WF_vars(NotifyOne)
  /\ WF_vars(NotifyAll)
  /\ WF_vars(Join)
  /\ \A w \in Workers : WF_vars(WorkerStep(w)) /\ SF_vars(AcquireLock(w))

FairSpec == Spec /\ Fairness

-----------------------------------------------------------------------------
(* Type invariant. *)
TypeOK ==
  /\ incomingRequests \in Seq(Requests)
  /\ lock \in Workers \cup {NoWorker}
  /\ stopFlag \in BOOLEAN
  /\ pc \in [Workers -> WorkerPCs]
  /\ request \in [Workers -> Requests \cup {NoRequest}]
  /\ main \in MainPCs
  /\ pushing \in Requests \cup {NoRequest}
  /\ requestType \in [Requests -> RequestTypes \cup {"unknown"}]
  /\ resultCode \in [Requests -> ResultCodes]
  /\ aged \in SUBSET Requests
  /\ fate \in [Requests -> {"unborn", "live"} \cup Dispatch!Fates]
  /\ missed \in SUBSET Requests

(* The raw ClientRequest pointers are never shared, duplicated or used after *)
(* delete: a request is live exactly while it sits once in the queue or in   *)
(* the hands of one worker.                                                  *)
LiveRequestsInOnePlace ==
  /\ IsInjective(incomingRequests)
  /\ \A v, w \in Workers :
       request[v] = request[w] /\ request[v] # NoRequest => v = w
  /\ \A w \in Workers : request[w] \notin Queued
  /\ \A r \in Requests :
       fate[r] = "live" <=> r \in Queued \/ \E w \in Workers : request[w] = r

(* The only requests that can be left queued while no worker is going to     *)
(* look at the queue are those whose own notify_one found nobody asleep: a   *)
(* signal that reached a worker covers everything queued before it.          *)
OnlyMissedWakesStrand ==
  \A r \in Queued \ (missed \cup {pushing}) : \E w \in Workers : pc[w] \in Draining

(* Shutdown drops no request whose signal was heard: a worker told to stop   *)
(* empties the queue first, so what is still live after the join was missed. *)
ShutdownDropsOnlyMissed ==
  main = "destroyed" => \A r \in Requests : fate[r] = "live" => r \in missed

(* exit() on a failed start leaves the workers running while the globals that *)
(* they use are destroyed: then there is nothing they could be doing with a   *)
(* device or a client, nor will there be.                                     *)
ExitFindsPoolIdle ==
  main = "exit" => Queued = {} /\ \A w \in Workers : request[w] = NoRequest

(* No response carries an uninitialised resultCode (the constructor leaves   *)
(* it unset): every path through ProcessRequest assigns it before the        *)
(* response is built.                                                        *)
ResponseHasResult ==
  \A w \in Workers : pc[w] = "respond" => resultCode[request[w]] # "unset"

(* The pool serves requests in the order pushed, each by one worker, each    *)
(* with one final fate.                                                      *)
DispatchSpec == Dispatch!Spec

(* A worker that is awake lets nothing sit in the queue: whatever is queued  *)
(* while some worker drains, missed wake-up or not, is taken.                *)
AwakeWorkerDrains ==
  \A r \in Requests :
    (r \in Queued /\ \E w \in Workers : pc[w] \in Draining) ~> (r \notin Queued)

(* The destructor returns if no worker was past the stopFlag test, and not   *)
(* yet asleep, when it called notify_all.                                    *)
CleanShutdownCompletes ==
  (main = "joining" /\ \A w \in Workers : pc[w] \notin {"lock", "locked", "waiting"})
    ~> (main = "destroyed")

(* Broken by the code: join waits for a worker that tested stopFlag before   *)
(* it was set and fell asleep after notify_all.                              *)
ShutdownCompletes == (main = "joining") ~> (main = "destroyed")

=============================================================================
