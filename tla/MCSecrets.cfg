SPECIFICATION Spec
CONSTANTS
  HostIds = {h1, h2, h3}
  KeyIds = {k1, k2}
  None = None
  MaxKeys = 1
  Scopes <- MCScopes
INVARIANTS PromisedIsThere NothingIsLeftBehind KeysFit
PROPERTY BackupEnds
CHECK_DEADLOCK FALSE
