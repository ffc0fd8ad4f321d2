SPECIFICATION ServerSpec
CONSTANTS
  HdrLen = 2
  Radix = 4
  Lens = {0, 1, 3}
  MaxFrames = 4
  MaxRead = 8
  Stray = {0, 1, 2, 5}
INVARIANT StreamTypeOK
PROPERTIES
  ImplementsChannel
  OneFramePerRead
CHECK_DEADLOCK FALSE
