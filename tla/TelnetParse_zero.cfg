SPECIFICATION FairSpec
CONSTANTS
  Options = {"o1", "0"}
  MaxItems = 3
INVARIANT TextAndRefusals
\* The buffer has an end.
CHECK_DEADLOCK FALSE
