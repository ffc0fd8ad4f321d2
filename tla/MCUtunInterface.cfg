SPECIFICATION Spec
CONSTANTS
  c1 = c1
  c2 = c2
  c3 = c3
  Conn = {c1, c2, c3}
  Fds = {0, 1, 2, 3}
SYMMETRY Symmetry
INVARIANTS
  TypeOK
  SocketsOwn
  OnlyFailuresLeak
  ServingIsConfigured
CHECK_DEADLOCK FALSE
