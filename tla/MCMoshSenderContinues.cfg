SPECIFICATION Spec
CONSTANTS
  MaxTyped = 2
  MaxStates = 2
  MaxStops = 1
  MaxInFlight = 2
  MaxSentStates = 3
  CullBack = 2
  SeqBlock = 2
  ShutdownRetries = 2
  Shutdown = 99
  KillInRewrite = TRUE
PROPERTY InputContinues
CHECK_DEADLOCK FALSE
