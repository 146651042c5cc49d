SPECIFICATION Spec
CONSTANTS
  MaxTyped = 3
  MaxStates = 1
  MaxStops = 1
  MaxInFlight = 2
  MaxSentStates = 3
  CullBack = 2
  SeqBlock = 2
  ShutdownRetries = 2
  Shutdown = 99
  KillInRewrite = FALSE
INVARIANTS TypeOK ServerInputIsTyped FrontHeld RestartHeld ShutdownDeliversAll
PROPERTY Implements
CHECK_DEADLOCK FALSE
