SPECIFICATION Spec
CONSTANTS
  ExclusivePort = TRUE
  MaxClicks = 1
  MaxToggles = 1
INVARIANT IconShowsState
CHECK_DEADLOCK FALSE
