SPECIFICATION Spec
CONSTANTS
  PortModulus = 8
  Ports <- SomePorts
  MaxPackets = 3
  MaxAnswers = 2
INVARIANT PlainAddressStarts
CHECK_DEADLOCK FALSE
