----------------------------- MODULE ResponseParser -----------------------------
(***************************************************************************)
(* ResponseParser.cpp: what the tables printed by the device tell about a  *)
(* subscriber.  A response is the sequence of the things the parser looks  *)
(* for: a header or a word, a number, an address, an empty column.  The    *)
(* delimiters between them are implied.                                    *)
(*                                                                         *)
(* Every parser returns its result and the request with the fields it set. *)
(* The descriptions of a failure are left out: ParseAndSetResultCode       *)
(* replaces each of them by one text of its own.                           *)
(***************************************************************************)
EXTENDS Naturals, Sequences, SequencesExt, Functions

Word(w)    == <<"word", w>>
Imsi(s)    == <<"imsi", s>>       \* the numbers of subscriber s
Msisdn(s)  == <<"msisdn", s>>
Address(a) == <<"address", a>>    \* na-ai
Blank      == <<"blank", "">>     \* an empty column

VLRColumns     == Word("IMSI MSISDN STATE RESTR LAI")
HLRColumns     == Word("MSISDN IMSI STATE AUTHD")
AddressColumns == Word("VLR ADDRESS MSRN MSC NUMBER LMSID")
ImsiColumns    == Word("MSISDN IMSI FCODE")

(* A number that ran on into what follows it in memory. *)
Garbled == "garbled"

(* TryToSkipSubstring: what follows the first t; nothing if there is none.    *)
After(text, t) ==
  IF t \in Range(text)
  THEN SubSeq(text, SelectInSeq(text, LAMBDA u : u = t) + 1, Len(text))
  ELSE <<>>

(* TryToSkipDelimiters: what is left from the next field on.                  *)
Fields(text) ==
  LET filled == {i \in DOMAIN text : text[i] # Blank} IN
  IF filled = {} THEN <<>> ELSE SubSeq(text, Min(filled), Len(text))

AllCharsAreDigits(field) == field[1] \in {"imsi", "msisdn"}

Success(request) == [res |-> "success", request |-> request]
Failure(request) == [res |-> "failure", request |-> request]

-----------------------------------------------------------------------------
(* Whose IMSI the line begins with is not looked at.  The MSISDN column may   *)
(* be missing.                                                                *)
ParseStateQueryVLRResponse(text, request) ==
  LET first  == Fields(After(After(text, Word("SUBSCRIBER DETAILS")), VLRColumns))
      second == Fields(Tail(first))
      third  == Fields(Tail(second))
      state  == IF AllCharsAreDigits(Head(second)) THEN third ELSE second
      Is(w)  == Head(state) = Word(w)
  IN
  IF first = <<>> \/ second = <<>> \/ state = <<>> THEN Failure(request)
  ELSE IF Is("NOTREG") THEN [res |-> "infoNotComplete", request |-> request]
  ELSE IF Is("IDLE")
       THEN Success([request EXCEPT !.subscriberState = "connected",
                                    !.subscriberOnline = "offline"])
  ELSE IF Is("BUSY")
       THEN Success([request EXCEPT !.subscriberState = "connected",
                                    !.subscriberOnline = "online"])
  ELSE IF Is("DET") \/ Is("IDET")
       THEN Success([request EXCEPT !.subscriberState = "notConnected",
                                    !.subscriberOnline = "offline"])
  ELSE Failure(request)

(* `tail' is what follows the field in vlr[30]: strncpy ends neither the      *)
(* string nor clears the rest.  It may end the string by chance, or go on     *)
(* with digits, with a dash and digits, or with something else.               *)
ParseVlrAddr(field, tail, request) ==
  LET roaming(a) == Success([request EXCEPT !.subscriberState = "roaming",
                                            !.vlrAddress = a])
  IN
  IF tail = "end" /\ field \in {Word(w) : w \in {"UNKNOWN", "RESTRICTED", "BARRED"}}
  THEN Success([request EXCEPT !.subscriberState = "notConnected"])
  ELSE IF field[1] = "address"
       THEN roaming(IF tail = "digits" THEN Garbled ELSE field[2])
  ELSE IF tail = "dash" THEN roaming(Garbled) ELSE Failure(request)

(* What follows the header of the location data. *)
Location(row) == Fields(After(After(row, Word("LOCATION DATA")), AddressColumns))

(* Faults for mutation: the line is not searched for the subscriber; a purged *)
(* subscriber is not noticed.                                                 *)
ParseAnyHLRResponse(text, tail, request) ==
  LET row == After(After(text, Word("HLR SUBSCRIBER DATA")), HLRColumns)
      location == Location(row)
  IN
  IF Word("NOT CONNECTED") \in Range(row)
  THEN Success([request EXCEPT !.subscriberState = "notConnected"])
  ELSE IF location = <<>> THEN Failure(request)
  ELSE ParseVlrAddr(Head(location), tail, request)

ParsePurgedHLRResponse(text, tail, request) ==
  LET row == After(After(After(text, Word("HLR SUBSCRIBER DATA")), HLRColumns),
                   Imsi(request.subscriberID))
      location == Location(row)
  IN
  IF Word("NOT CONNECTED") \in Range(row)
  THEN Success([request EXCEPT !.subscriberState = "notConnected"])
  ELSE IF location = <<>> THEN Failure(request)
  ELSE ParseVlrAddr(Head(location), tail, request)

(* The state is searched for in all that follows the subscriber's IMSI.       *)
ParseStateQueryHLRResponse(text, tail, request) ==
  LET row == After(After(After(text, Word("HLR SUBSCRIBER DATA")), HLRColumns),
                   Imsi(request.subscriberID))
      location == Location(row)
  IN
  IF Word("NOT CONNECTED") \in Range(row)
  THEN Success([request EXCEPT !.subscriberState = "notConnected"])
  ELSE IF Word("CONNECTED") \notin Range(row) \/ location = <<>> THEN Failure(request)
  ELSE IF Word("MS PURGED IN VLR") \in Range(location)
       THEN Success([request EXCEPT !.subscriberState = "notConnected"])
  ELSE ParseVlrAddr(Head(location), tail, request)

(* Fault for mutation: an empty IMSI column leaves the field as it was. *)
ParseImsiKeepsUnset(text, request) ==
  LET row == After(After(text, Word("MT MSISDN TO IMSI TRANSLATION DATA")), ImsiColumns) IN
  IF Len(row) < 2 THEN Failure(request)
  ELSE IF row[2] = Blank THEN Success(request)
  ELSE Success([request EXCEPT !.imsiInVlr = row[2][2]])

(* The IMSI is read at a fixed column, after the MSISDN; 0 if it is empty.    *)
ParseImsiQueryVLRResponse(text, request) ==
  LET row == After(After(text, Word("MT MSISDN TO IMSI TRANSLATION DATA")), ImsiColumns) IN
  IF Len(row) < 2 THEN Failure(request)
  ELSE Success([request EXCEPT !.imsiInVlr = IF row[2] = Blank THEN "0" ELSE row[2][2]])

Parse(device, text, tail, request) ==
  IF request.requestType = "stateQuery"
  THEN IF device = "VLR" THEN ParseStateQueryVLRResponse(text, request)
                         ELSE ParseStateQueryHLRResponse(text, tail, request)
  ELSE IF request.requestType = "imsiQuery" THEN ParseImsiQueryVLRResponse(text, request)
  ELSE Failure(request)

ParseAndSetResultCode(device, text, tail, request) ==
  LET parsed == Parse(device, text, tail, request) IN
  [parsed EXCEPT !.request.resultCode =
     IF parsed.res = "success" THEN "OPERATION_SUCCESS" ELSE "BAD_DEVICE_RESPONSE"]

=============================================================================
