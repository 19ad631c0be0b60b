SPECIFICATION FairSpec
CONSTANTS
  ExclusivePort = TRUE
  MaxClicks = 2
  MaxToggles = 1
PROPERTY AdinToolStarts
CHECK_DEADLOCK FALSE
