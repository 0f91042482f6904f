SPECIFICATION FairSpec
CONSTANTS
  Threads = {t1, t2}
  MaxMessages = 3
  MaxDay = 3
  NoMessage = NoMessage
INVARIANT TypeOK
INVARIANT RightFile
INVARIANT ThreadOrder
INVARIANT StopDrains
PROPERTY StopEnds
\* The write thread returns.
CHECK_DEADLOCK FALSE
