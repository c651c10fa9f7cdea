SPECIFICATION Spec
CONSTANTS
  Svcs = {s}
  Containers = {c1, c2}
  Nids = {n}
  Paths = {d1, d2}
  Configs = {k1, k2}
  None = None
  Old = Old
  MaxWrites = 3
SYMMETRY Symmetry
INVARIANTS TypeOK FollowsLast ReportsGiven
CHECK_DEADLOCK FALSE
