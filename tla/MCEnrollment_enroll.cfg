SPECIFICATION EnrollSpec
CHECK_DEADLOCK FALSE
SYMMETRY Names
CONSTANTS
  c = c
  m1 = m1
  m2 = m2
  m3 = m3
  t1 = t1
  t2 = t2
  NULL = NULL
  Controller = c
  Node = {c, m1, m2, m3}
  Token = {t1, t2}
  For <- TokenFor
  s1 = s1
  s2 = s2
  Slots = {s1, s2}
  MaxAddr = 3
  MaxPort = 2
  MaxRequests = 3
  MaxEvents = 1
INVARIANTS EnrollTypeOK MembersDistinct ControlTree DistinctPorts LanSingle Connected
PROPERTIES SpentStaysSpent ImplementsMembership
