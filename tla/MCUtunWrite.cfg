SPECIFICATION FairSpec
CONSTANTS
  Sizes = {0, 1, 5}
  MaxFails = 3
INVARIANTS
  TypeOK
  PacketWhole
  FailuresAddBytes
PROPERTY Returns
CHECK_DEADLOCK FALSE
