SPECIFICATION Spec
CONSTANTS
  Mosh = TRUE
  AutoReconnect = TRUE
  MaxDone = 2
  MaxSessions = 1
INVARIANTS WindsDown
CHECK_DEADLOCK FALSE
