SPECIFICATION FairSpec
CONSTANTS
  a = a
  b = b
  SONG = SONG
  ALL = ALL
  MOCK = MOCK
  NONE = NONE
  Porcelain <- MCPorcelain
  Dynasty <- MCDynasty
  MaxReconnectAttempts = 2
  MaxEvents = 3
  MaxFailures = 1
INVARIANTS
  OneConnectionUnlessOverlap
  SettledUnlessOvertaken
  ListFollowsPushesUnlessMissed
PROPERTY
  ReconnectsUnlessGivenUp
CHECK_DEADLOCK FALSE
