SPECIFICATION Spec
CONSTANTS
  ChunkSize = 2
  MaxInFlight = 2
  ServerLimit = 1
  Dirs = {d1, d2}
  Scopes <- MCScopes
INVARIANTS FilesAreWhole NothingHalfIsLeft EndsOnce FreshWhenQuiet NoneIsForgotten
CHECK_DEADLOCK FALSE
