---------------------------- MODULE MCTelnetParse ----------------------------
(* Small instances of TelnetParse for TLC: the cfg gives the constants. *)
EXTENDS TelnetParse
=============================================================================
