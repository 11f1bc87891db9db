SPECIFICATION FairAlertSpec
CONSTANTS
  NoAlert = NoAlert
  Measurement <- MCMeasurement
  MaxAlerts = 5
INVARIANTS
  Conserved
  StoredIsQueuedUnlessUnanswered
  NoSleepOnWork
PROPERTIES
  HandlesAndStopsUnlessMissed
CHECK_DEADLOCK FALSE
