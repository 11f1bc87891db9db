SPECIFICATION Spec
CONSTANTS
  t1 = t1
  t2 = t2
  p = p
  HUGE = HUGE
  NULL = NULL
  Thread <- MCThread
  Porcelain <- MCPorcelain
  Content <- MCContent
  MaxMessages = 2
  MaxCracks = 2
  MaxRequests = 3
  MaxSecond = 1
  MaxFaults = 1
  Limit = 1
SYMMETRY Symmetry
INVARIANTS
  PushedIsReadable
  LatestIsWholeAndCurrent
CHECK_DEADLOCK FALSE
