SPECIFICATION Spec
CONSTANTS
    u1 = u1
    u2 = u2
    Svcs = {s1}
    Users = {u1, u2}
    Clients = {u1, u2}
    Owner <- MCOwner
    Shared = Shared
    NoUser = NoUser
    MaxAttempts = 2
    InitialLogs <- FromAny
    MaxCommands = 2
    MaxSaves = 1
    MaxFaults = 1
SYMMETRY UserSymmetry
VIEW MCView
INVARIANTS TypeOK MarksCoherent UninstalledHasNoMarks MarkedBeforePatch
PROPERTIES CleanWriteIsAtomic ImplementsDevMarks
