SPECIFICATION Spec
CONSTANTS
  MaxNum = 4
  MaxStops = 0
  MaxInFlight = 1
  MaxReceivedStates = 2
  Height = 2
  NoParent = 98
  Shutdown = 99
  KillInRewrite = FALSE
INVARIANT SkippedAreKept
CHECK_DEADLOCK FALSE
