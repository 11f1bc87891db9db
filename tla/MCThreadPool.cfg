SPECIFICATION FairSpec
CONSTANTS
  w1 = w1
  w2 = w2
  c1 = c1
  c2 = c2
  NULL = NULL
  Workers <- MCWorkers
  Clients <- MCClients
  MaxTasks = 4
INVARIANTS
  ShutdownDrains
PROPERTIES
  ImplementsChannel
  WaitAllIsRight
  RunsAndReturnsUnlessMissed
CHECK_DEADLOCK FALSE
