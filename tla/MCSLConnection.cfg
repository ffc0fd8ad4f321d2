SPECIFICATION FairSpec
INVARIANTS
  TypeOK
  FramesIntact
  InterfaceBeforeData
  QuietIsSafe
  UtunReleased
PROPERTY TeardownCompletes
CHECK_DEADLOCK FALSE
