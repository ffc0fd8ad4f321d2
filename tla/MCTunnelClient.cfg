SPECIFICATION FairSpec
CONSTANTS
  PortModulus = 8
  Ports <- SomePorts
  MaxPackets = 3
  MaxAnswers = 2
INVARIANTS
  TypeOK
  OneAnswers
  StreamInOrder
  SafeOnceStarted
  RightPort
PROPERTY HandlerNotLost
CHECK_DEADLOCK FALSE
