SPECIFICATION FairSpec
CONSTANTS
    Ports = {j, k}
    None = None
    Runs = {r1, r2}
    Commands = {c1, c2}
    Recovery = Recovery
    Budgets <- MCBudgets
VIEW MCView
CHECK_DEADLOCK FALSE
INVARIANTS TypeOK CanBeStopped RecordIsKept Recoverable
PROPERTIES ServedIsShown StopForgets
