SPECIFICATION FairSpec
CHECK_DEADLOCK FALSE
CONSTANTS
  c = c
  a = a
  b = b
  ca = ca
  ab = ab
  cb = cb
  NULL = NULL
  Node = {c, a, b}
  Controller = c
  Parent <- ChainParent
  Founders = {c, a, b}
  Link = {ca, ab, cb}
  Ends <- TriangleEnds
  JoinLink <- ChainJoin
  Slots = {1}
  MaxEnrolls = 0
  MaxDeletes = 1
  MaxEdits = 1
  MaxControllerRestarts = 1
  MaxFaults = 1
  Online = {b}
  MaxAgentRestarts = 1
  MaxNetdRestarts = 1
INVARIANTS TypeOK ReportedIsApplied
PROPERTIES Converges
