SPECIFICATION Spec
CONSTANTS
    u1 = u1
    u2 = u2
    Users = {u1, u2}
    Clients = {u1, u2}
    Owner <- MCOwner
    Shared = Shared
    NoUser = NoUser
    MaxCommands = 3
    MaxFaults = 1
    MaxKills = 1
SYMMETRY UserSymmetry
VIEW MCView
INVARIANTS TypeOK SavedIsNotDev OneRecreates UnmarkedIsPlain HPAIsRecovered
PROPERTIES OriginalSurvives FailedStartLeavesNoMark
