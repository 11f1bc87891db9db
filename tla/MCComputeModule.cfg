SPECIFICATION LiveSpec
CONSTANTS
  Client <- MCClient
  Owner = "owner"
  Workers = 2
  MaxCount = 3
  NULL = NULL
  MinBatch = 2
  MaxRuns = 2
  Counts = {3}
  BatchCounts = {2}
  MaxCancels = 1
  MaxLives = 2
INVARIANTS NoCrashInLife ShutdownIsFinal PartialIsTold
PROPERTY AnsweredUnlessCrashedOrHung
CHECK_DEADLOCK FALSE
