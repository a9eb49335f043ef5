SPECIFICATION Spec
CHECK_DEADLOCK FALSE
CONSTANTS
  c = c
  a = a
  b = b
  NULL = NULL
  Node = {c, a, b}
  Controller = c
  Parent <- ChainParent
  Depth <- ChainDepth
  Online = {a, b}
  Jobs = {1}
  Slots = {1}
  MaxStarts = 1
  MaxRollbacks = 0
  MaxDeletes = 0
  MaxControllerRestarts = 0
  MaxAgentRestarts = 0
  MaxFailures = 0
  MaxDeadlines = 1
  LossyReports = FALSE
  BusyFiles = FALSE
  ConcurrentStarts = FALSE
INVARIANTS TypeOK SerialInstall NobodyForgotten MapMatchesRow
PROPERTIES SuccessSticks
