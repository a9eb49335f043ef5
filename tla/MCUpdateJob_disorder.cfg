SPECIFICATION Spec
CHECK_DEADLOCK FALSE
CONSTANTS
  c = c
  a = a
  b = b
  NULL = NULL
  Node = {c, a, b}
  Controller = c
  Parent <- ChainParent
  Depth <- ChainDepth
  Online = {b}
  Jobs = {1}
  Slots = {1}
  MaxStarts = 1
  MaxRollbacks = 1
  MaxDeletes = 1
  MaxControllerRestarts = 0
  MaxAgentRestarts = 0
  MaxFailures = 0
  MaxDeadlines = 1
  LossyReports = TRUE
  BusyFiles = FALSE
  ConcurrentStarts = FALSE
INVARIANTS LeafFirst
PROPERTIES GrantHeld
