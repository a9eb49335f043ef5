SPECIFICATION Spec
CONSTANTS
  MaxRelease = 2
  Request = {r1, r2}
  Files <- MCFiles
  Ttl = 1
  NULL = NULL
  MaxClock = 2
  MaxRequests = 2
  Sources <- MCSources
  MaxInstalls = 2
  MaxFaults = 1
INVARIANTS
  AnswersAreRecent
  StagedAsLabelled
PROPERTIES
  RestartLoadsOneRelease
SYMMETRY Symmetry
CHECK_DEADLOCK FALSE
