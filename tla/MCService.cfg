SPECIFICATION Spec
CONSTANTS
  Tau = Tau
  Malformed = Malformed
  None = None
  Conn = {c1, c2}
  MaxSessions = 2
  MaxHistory = 3
  Requests <- MCRequests
INVARIANTS
  TypeOK
  OrderListsSessions
  HistoryIsReachable
PROPERTIES
  HistoryKept
  TakesEffectAtOnce
  Answered
