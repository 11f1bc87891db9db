SPECIFICATION FairSpec
CONSTANTS
  NULL = NULL
  Preset <- BannerWiring
  Frame <- MCFrame
  MaxLaser = 2
  MaxCracks = 2
  MaxVibration = 1
  MaxThrows = 1
INVARIANTS
  BranchesAgree
  ResultsExact
PROPERTIES
  OutputsSealed
  HandlesAllAndStopsUnlessStuck
CHECK_DEADLOCK FALSE
