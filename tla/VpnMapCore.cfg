SPECIFICATION Spec
CONSTANTS
    Devices = {a, b, c}
    NoPod = NoPod
    Usable = {2, 3}
    Router = 1
    Modulus = 5
    Hash <- MCHash
    TextLast <- MCTextLast
    Retries = 4
    MaxBusy = 2
    Budgets <- MCBudgets
SYMMETRY Same
VIEW MCView
CHECK_DEADLOCK FALSE
INVARIANTS TypeOK UniqueAddress NoDoubleLease InUseIsKept UnusedIsCleaned
