SPECIFICATION FairSpec
CONSTANTS
  Conn = {c1, c2, c3}
  MaxThreads = 1
  InitCount <- ZeroStart
PROPERTY OverflowWaits
CHECK_DEADLOCK FALSE
