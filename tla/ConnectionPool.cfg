SPECIFICATION FairSpec
CONSTANTS
  Workers = {w1, w2}
  Requests = {r1, r2}
  RequestTypes = {"stateQuery", "resetRequest"}
  NoRequest = NoRequest
  NoWorker = NoWorker
INVARIANT TypeOK
INVARIANT LiveRequestsInOnePlace
INVARIANT OnlyMissedWakesStrand
INVARIANT ShutdownDropsOnlyMissed
INVARIANT ExitFindsPoolIdle
INVARIANT ResponseHasResult
PROPERTY DispatchSpec
PROPERTY AwakeWorkerDrains
PROPERTY CleanShutdownCompletes
\* After exit() or the destructor the process is gone.
CHECK_DEADLOCK FALSE
