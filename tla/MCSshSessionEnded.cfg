SPECIFICATION Spec
CONSTANTS
  Mosh = FALSE
  AutoReconnect = TRUE
  MaxDone = 2
  MaxSessions = 0
PROPERTIES StaysEnded
CHECK_DEADLOCK FALSE
