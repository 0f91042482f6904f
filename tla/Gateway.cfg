SPECIFICATION FairSpec
CONSTANTS
  c1 = c1
  c2 = c2
  p1 = p1
  p2 = p2
  p3 = p3
  Connections <- TwoConnections
  Packets <- ThreePackets
  Commands = {p1}
  Workers = {w1}
  MaxFd = 2
  MaxReconnects = 1
  Nobody = Nobody
\* After RunReturns, or SIGPIPE, the program has ended.
CHECK_DEADLOCK FALSE

INVARIANT TypeOK
INVARIANT SocketsAreClients
INVARIANT ResponsesReachAsker
INVARIANT LostOnlyByCut
PROPERTY EveryClientIsRead
