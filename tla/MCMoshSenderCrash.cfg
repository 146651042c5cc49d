SPECIFICATION Spec
CONSTANTS
  MaxTyped = 2
  MaxStates = 1
  MaxStops = 1
  MaxInFlight = 2
  MaxSentStates = 3
  CullBack = 2
  SeqBlock = 2
  ShutdownRetries = 1
  Shutdown = 99
  KillInRewrite = TRUE
PROPERTIES NumbersFresh Delivered
CHECK_DEADLOCK FALSE
