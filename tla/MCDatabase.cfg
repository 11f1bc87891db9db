SPECIFICATION FairSpec
CONSTANTS
  t1 = t1
  t2 = t2
  c1 = c1
  NULL = NULL
  Thread <- MCThread
  Conn <- MCConn
  Kind <- MCKind
  MaxCalls = 2
  MaxRows = 2
  MaxErrors = 2
  MaxLost = 1
INVARIANTS
  PoolIsSound
  AllOrNothing
  ResultIsTrue
  GridIsSavedUnlessLeft
PROPERTY
  CallsReturnUnlessLeaked
CHECK_DEADLOCK FALSE
