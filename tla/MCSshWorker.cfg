SPECIFICATION FairSpec
CONSTANTS
  PasswordAttempts = 2
  MaxInteractiveRounds = 2
  Fds = {1, 2, 3, 4}
  MaxUnconsumed = 1
  MaxForwardBuffer = 1
  Window = 1
  Room = 1
  Scopes <- MCScopes
INVARIANTS TypeOK AnswersItsPrompt OnlyItsSockets SaysWhyItEnds WholeWhenEnded NothingWaits
PROPERTY StopEnds
CHECK_DEADLOCK FALSE
