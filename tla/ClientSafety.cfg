SPECIFICATION FairSpec
CONSTANTS
  ExclusivePort = TRUE
  MaxClicks = 5
  MaxToggles = 2
INVARIANTS
  TypeOK
  TrayAgrees
  OnePollTimer
  StreamHasDatabase
  BadgesRead
PROPERTY AdinToolFollows
CHECK_DEADLOCK FALSE
