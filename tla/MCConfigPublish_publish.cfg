SPECIFICATION PublishSpec
CHECK_DEADLOCK FALSE
CONSTANTS
  c = c
  a = a
  b = b
  ca = ca
  ab = ab
  cb = cb
  NULL = NULL
  Node = {c, a, b}
  Controller = c
  Parent <- ChainParent
  Founders = {c, a}
  Link = {ca, ab, cb}
  Ends <- TriangleEnds
  JoinLink <- ChainJoin
  Slots = {1, 2}
  MaxEnrolls = 1
  MaxDeletes = 1
  MaxEdits = 2
  MaxControllerRestarts = 1
  MaxFaults = 1
INVARIANTS PublishTypeOK EndsAgree ServedCurrent DeletedNotServed
PROPERTIES GenerationGrows
