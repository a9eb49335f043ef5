SPECIFICATION Spec
CONSTANTS
  Node = {c, m, n}
  Controller = c
  Policy = {p}
  NULL = NULL
  Stranger = Stranger
  MaxHops = 3
  MaxEdits = 2
INVARIANTS
  StoredAsRequested
  NoOrphans
SYMMETRY Symmetry
CHECK_DEADLOCK FALSE
