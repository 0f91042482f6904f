--------------------------------- MODULE Config ---------------------------------
(***************************************************************************)
(* Config.cpp: the parameters that a configuration file sets, line by      *)
(* line.  A line is the parameter it names and the value given; an empty   *)
(* line or a comment names None.  A line of nothing but blanks, or of the  *)
(* carriage return that a DOS file leaves, names a parameter too: itself,  *)
(* which is unknown.                                                       *)
(***************************************************************************)
EXTENDS Integers

None == "none"
NotANumber == -1

Texts   == {"VLR_ADDRESS", "VLR_USERNAME", "VLR_PASSWORD", "LOG_DIR"}
Numbers == {"VLR_PORT", "SERVER_PORT", "CONNECTION_COUNT"}
Levels  == {"error", "notice", "debug"}
Options == Texts \cup Numbers \cup {"LOG_LEVEL"}

(* Config's constructor. *)
Defaults ==
  [o \in Options |-> CASE o \in Texts -> ""
                      [] o = "VLR_PORT" -> 5000
                      [] o = "SERVER_PORT" -> 5200
                      [] o = "CONNECTION_COUNT" -> 2
                      [] o = "LOG_LEVEL" -> "notice"]

minConnCount == 1
maxConnCount == 16

(* connectionCount is an unsigned short.  The ports are kept in 32 bits, of    *)
(* which htons, all that they are read for, takes 16 (Server.cpp:31,          *)
(* HLRConnector.cpp:83): the same 16 bits of what stoul returned.             *)
UShortWidth == 65536
UShorts == 0 .. UShortWidth - 1
ToUShort(n) == n % UShortWidth

(* A value that the parameter does not take throws, as does an unknown name. *)
Throws(line) ==
  \/ line.option \in Numbers /\ line.value = NotANumber
  \/ line.option = "LOG_LEVEL" /\ line.value \notin Levels
  \/ line.option \notin Options \cup {None}

(* Fault for mutation: the numbers are as wide as what stoul returns. *)
SetWide(params, line) ==
  IF line.option = None THEN params ELSE [params EXCEPT ![line.option] = line.value]

(* What a line that does not throw makes of the parameters. *)
Set(params, line) ==
  IF line.option = None THEN params
  ELSE [params EXCEPT ![line.option] =
          IF line.option \in Numbers THEN ToUShort(line.value) ELSE line.value]

(* ValidateParams does not throw. *)
Valid(params) ==
  /\ \A name \in {"VLR_ADDRESS", "VLR_USERNAME", "VLR_PASSWORD"} : params[name] # ""
  /\ params["CONNECTION_COUNT"] \in minConnCount .. maxConnCount

=============================================================================
