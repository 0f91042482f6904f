--------------------------- MODULE RequestDispatch ---------------------------
(***************************************************************************)
(* What the connection pool owes the server, with no threads, no locks and *)
(* no condition variable: requests are served in the order they were       *)
(* pushed, a request is served by one worker only, and it meets one fate,  *)
(* which never changes afterwards.  ConnectionPool is shown to implement   *)
(* this module.  No fairness is stated: the pool does not promise that a   *)
(* pushed request is ever taken (see OnlyMissedWakesStrand in ConnectionPool).          *)
(***************************************************************************)
EXTENDS Sequences

CONSTANTS Requests,   \* the requests clients may send
          Workers,    \* the pool's worker threads
          NoRequest   \* what an idle worker holds

(* How a request leaves the pool: its response was sent, sending it failed, *)
(* or it was too old when its turn came.                                    *)
Fates == {"answered", "unsent", "discarded"}

VARIABLES pending,    \* the requests pushed and not taken, oldest first
          serving,    \* the request each worker has in hand
          fate        \* "unborn", "live", or one of Fates

vars == <<pending, serving, fate>>

Init ==
  /\ pending = <<>>
  /\ serving = [w \in Workers |-> NoRequest]
  /\ fate = [r \in Requests |-> "unborn"]

Submit(r) ==
  /\ fate[r] = "unborn"
  /\ fate' = [fate EXCEPT ![r] = "live"]
  /\ pending' = Append(pending, r)
  /\ UNCHANGED serving

Take(w) ==
  /\ serving[w] = NoRequest
  /\ pending # <<>>
  /\ serving' = [serving EXCEPT ![w] = Head(pending)]
  /\ pending' = Tail(pending)
  /\ UNCHANGED fate

Finish(w, f) ==
  /\ serving[w] # NoRequest
  /\ fate[serving[w]] = "live"
  /\ fate' = [fate EXCEPT ![serving[w]] = f]
  /\ serving' = [serving EXCEPT ![w] = NoRequest]
  /\ UNCHANGED pending

Next ==
  \/ \E r \in Requests : Submit(r)
  \/ \E w \in Workers : Take(w) \/ \E f \in Fates : Finish(w, f)

Spec == Init /\ [][Next]_vars

=============================================================================
