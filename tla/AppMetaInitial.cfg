SPECIFICATION Spec
CONSTANTS
    u1 = u1
    u2 = u2
    Svcs = {s1}
    Users = {u1, u2}
    Clients = {u1, u2}
    Owner <- MCOwner
    Shared = Shared
    NoUser = NoUser
    MaxAttempts = 2
    InitialLogs <- FromNothing
    MaxCommands = 2
    MaxSaves = 0
    MaxFaults = 0
SYMMETRY UserSymmetry
VIEW MCView
PROPERTIES InitialOverUninstalled
