SPECIFICATION FairSpec
CONSTANTS
  Conn = {c1, c2, c3, c4}
  MaxThreads = 1
  InitCount <- AnyStart
INVARIANTS
  TypeOK
  CountIsLive
  MemoryBounded
PROPERTIES
  RefusedOnlyWhenFull
  ImplementsAdmission
  PlaceGivenBack
CHECK_DEADLOCK FALSE
