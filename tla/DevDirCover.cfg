SPECIFICATION Spec
CONSTANTS
  Svcs = {s}
  Containers = {c}
  Nids = {n}
  Paths = {d1, d2}
  Configs = {k1, k2}
  None = None
  Old = Old
  MaxWrites = 3
SYMMETRY Symmetry
INVARIANT CoversContainers
CHECK_DEADLOCK FALSE
