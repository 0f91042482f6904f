--------------------------- MODULE MCHLRConnector ---------------------------
(* Small instances of HLRConnector for TLC: the cfg gives the bounds. *)
EXTENDS HLRConnector
=============================================================================
