SPECIFICATION FairSpec
CONSTANTS
  Options = {"o1"}
  MaxItems = 4
INVARIANT TypeOK
INVARIANT TextAndRefusals
PROPERTY ParseEnds
\* The buffer has an end.
CHECK_DEADLOCK FALSE
