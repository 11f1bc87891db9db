SPECIFICATION FairSpec
CONSTANTS
  s1 = s1
  s2 = s2
  t1 = t1
  t2 = t2
  NULL = NULL
  LOST = LOST
  Session <- MCSession
  Io <- MCIo
  MaxMessages = 3
INVARIANTS
  Conserved
  OneWriteAtATime
PROPERTY
  PushedUnlessStuck
CHECK_DEADLOCK FALSE
