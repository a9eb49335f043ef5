SPECIFICATION Spec
CONSTANTS
  Request = {r1, r2}
  Session = {s1, s2}
  Address = {a}
  Password = {p, q}
  First = p
  Max = 2
  Window = 2
  Lifetime = 2
  NULL = NULL
  MaxClock = 6
  MaxChanges = 1
  MaxRevokes = 2
  MaxRestarts = 1
INVARIANTS
  LimiterIsExact
  SessionsAreCurrent
SYMMETRY Symmetry
CHECK_DEADLOCK FALSE
