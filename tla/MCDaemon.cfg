SPECIFICATION DaemonSpec
CONSTANTS
  Process = {p1, p2, p3}
  Client = {k1}
  Nobody = Nobody
INVARIANTS
  DaemonTypeOK
  ReachableUnlessOverlapped
  CleanExit
PROPERTIES
  ClientsReleased
  InterruptEnds
CHECK_DEADLOCK FALSE
