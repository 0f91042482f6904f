SPECIFICATION FairSpec
CONSTANTS
  v1 = v1
  v2 = v2
  Processes = {v1, v2}
  Lines <- AllLines
  Ephemeral = {32768}
  Nobody = Nobody
INVARIANT TypeOK
INVARIANT SessionsAsConfigured
INVARIANT ServesWhereConfigured
INVARIANT PidFileTellsTruth
PROPERTY StopFreesPort
\* Every process ends.
CHECK_DEADLOCK FALSE
