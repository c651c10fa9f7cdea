SPECIFICATION FairSpec
CONSTANTS
    Namespaces = {a}
    None = None
    Worker = Worker
    Commands = {c}
    Slots = {t1, t2}
    ChanSize = 1
    MaxUid = 2
    Budgets <- OneDelete
VIEW MCView
CHECK_DEADLOCK FALSE
PROPERTIES DeletedIsLeft
