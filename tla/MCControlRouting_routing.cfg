SPECIFICATION RoutingSpec
CHECK_DEADLOCK FALSE
CONSTANTS
  c = c
  m1 = m1
  m2 = m2
  m3 = m3
  NULL = NULL
  Controller = c
  Node = {c, m1, m2, m3}
  Founder <- Chain
  FirstLink <- ChainLink
  FirstAddr <- ChainAddr
  Addr = {1, 2, 3, 4}
  MaxEnrolls = 1
  MaxEdits = 2
INVARIANTS SettledDelivers NeverAstray
