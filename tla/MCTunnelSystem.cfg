SPECIFICATION FairSpec
CONSTANTS
  ping = ping
  pong = pong
  Packet <- Packets
  MaxPackets = 3
INVARIANTS
  TypeOK
  NothingLost
  UntilStray
PROPERTIES
  ImplementsTunnel
PROPERTY ServerNotices
CHECK_DEADLOCK FALSE
