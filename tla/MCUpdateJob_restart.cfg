SPECIFICATION FairSpec
CHECK_DEADLOCK FALSE
CONSTANTS
  c = c
  a = a
  b = b
  NULL = NULL
  Node = {c, a, b}
  Controller = c
  Parent <- ChainParent
  Depth <- ChainDepth
  Online = {b}
  Jobs = {1}
  Slots = {1}
  MaxStarts = 1
  MaxRollbacks = 0
  MaxDeletes = 0
  MaxControllerRestarts = 1
  MaxAgentRestarts = 0
  MaxFailures = 0
  MaxDeadlines = 4
  LossyReports = FALSE
  BusyFiles = FALSE
  ConcurrentStarts = FALSE
INVARIANTS CompletedIsInstalled
PROPERTIES JobEnds
