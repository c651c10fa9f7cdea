SPECIFICATION Spec
CONSTANTS
  u1 = u1
  u2 = u2
  Users = {u1, u2}
  Owner = Owner
  Default = Default
  Requests = {r1, r2}
  Scopes = {"ns", "cluster"}
  Targets <- Some
  MaxSpaces = 2
  MaxEvents = 3
SYMMETRY Same
VIEW MCView
INVARIANTS TypeOK NotBoth DeletedIsUnshared NoOrphanNamespace
PROPERTIES SwitchKeepsAccess
CHECK_DEADLOCK FALSE
