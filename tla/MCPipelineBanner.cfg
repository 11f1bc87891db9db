SPECIFICATION FairSpec
CONSTANTS
  NULL = NULL
  Preset <- CodeWiring
  Frame <- MCFrame
  MaxLaser = 1
  MaxCracks = 2
  MaxVibration = 0
  MaxThrows = 0
PROPERTY
  BannerPath
CHECK_DEADLOCK FALSE
