--------------------------- MODULE MCConnectionPool ---------------------------
(* Small instances of ConnectionPool for TLC: the cfg gives the constants. *)
EXTENDS ConnectionPool
=============================================================================
