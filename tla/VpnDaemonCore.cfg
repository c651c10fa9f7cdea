SPECIFICATION FairSpec
CONSTANTS
    Namespaces = {a, b}
    None = None
    Worker = Worker
    Commands = {c}
    Slots = {t1, t2}
    ChanSize = 1
    MaxUid = 2
    Budgets <- MCBudgets
VIEW MCView
CHECK_DEADLOCK FALSE
INVARIANTS TypeOK 
PROPERTIES KeepsConnected LeavesUnlisted
