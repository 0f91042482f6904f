----------------------------- MODULE MCLogWriter -----------------------------
(* Small instances of LogWriter for TLC: the cfg gives the constants. *)
EXTENDS LogWriter
=============================================================================
