------------------------------- MODULE MCService -------------------------------
(* A small instance of Service for TLC. *)
EXTENDS Service, TLC

CONSTANTS v1, v2

Line(option, value) == [option |-> option, value |-> value]

(* The required parameters, set and unset again; counts beyond the limit and  *)
(* the width; ports that are 5200 and 0 in 16 bits; what is ignored and what  *)
(* is an error.                                                               *)
AllLines ==
  {Line("VLR_ADDRESS", "host"), Line("VLR_USERNAME", "user"),
   Line("VLR_PASSWORD", "secret"), Line("VLR_PASSWORD", ""),
   Line("LOG_LEVEL", "all"), Line(None, ""), Line("blanks", "")}
    \cup {Line("CONNECTION_COUNT", n) : n \in {17, 65536 + 1, NotANumber}}
    \cup {Line("SERVER_PORT", n) : n \in {65536, 65536 + 5200}}

=============================================================================
