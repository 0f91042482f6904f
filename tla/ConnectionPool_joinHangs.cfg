SPECIFICATION FairSpec
CONSTANTS
  Workers = {w1, w2}
  Requests = {r1, r2}
  RequestTypes = {"stateQuery"}
  NoRequest = NoRequest
  NoWorker = NoWorker
\* After exit() or the destructor the process is gone.
CHECK_DEADLOCK FALSE
PROPERTY ShutdownCompletes
