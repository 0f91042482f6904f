SPECIFICATION Spec
CONSTANTS
  s1 = s1
  s2 = s2
  Subscribers <- TwoSubscribers
  RequestTypes = {"stateQuery", "activateRequest", "imsiQuery"}
  Places = {"BUSY", "PURGED", "UNKNOWN", "abroad"}
  Home = "home"
  Abroad = {"abroad"}
  Tails = {"end", "digits", "dash", "other"}
  MaxRequests = 3
  MaxEvents = 1
SYMMETRY RequestSymmetry
INVARIANT TypeOK
INVARIANT ReportWasTrue
INVARIANT SuccessMeansDone
INVARIANT HLRReportIsOfSubscriber
\* Clients stop after MaxRequests.
CHECK_DEADLOCK FALSE
