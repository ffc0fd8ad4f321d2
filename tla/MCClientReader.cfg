SPECIFICATION ClientSpec
CONSTANTS
  HdrLen = 2
  Radix = 4
  Lens = {1, 5}
  MaxFrames = 3
  MaxRead = 8
  Stray = {0, 1, 6}
INVARIANTS
  ClientTypeOK
  IntactUntilShort
CHECK_DEADLOCK FALSE
