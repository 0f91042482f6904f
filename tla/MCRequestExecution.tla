-------------------------- MODULE MCRequestExecution --------------------------
(* A small instance of RequestExecution for TLC. *)
EXTENDS RequestExecution, TLC

CONSTANTS s1, s2

TwoSubscribers == {s1, s2}

(* Nothing tells one subscriber from another. *)
RequestSymmetry == Permutations(TwoSubscribers)

=============================================================================
