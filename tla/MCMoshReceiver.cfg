SPECIFICATION Spec
CONSTANTS
  MaxNum = 2
  MaxStops = 1
  MaxInFlight = 2
  MaxReceivedStates = 2
  Height = 4
  NoParent = 98
  Shutdown = 99
  KillInRewrite = TRUE
INVARIANTS TypeOK TerminalFollows ServerFrontHeld AckedSurvives LinesInOrder
PROPERTY CatchesUp
CHECK_DEADLOCK FALSE
