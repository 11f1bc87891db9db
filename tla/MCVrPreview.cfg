SPECIFICATION FairSpec
CONSTANTS
  w1 = w1
  w2 = w2
  c1 = c1
  c2 = c2
  Client <- MCClient
  NULL = NULL
  Worker <- MCWorker
  Input <- MCInput
  MaxBuilds = 2
  MaxCracks = 2
  MaxCancels = 1
INVARIANTS
  TasksOutliveFailedOnly
  OneBuildPerCancelOrRace
PROPERTIES
  EndsUnlessAllWait
CHECK_DEADLOCK FALSE
