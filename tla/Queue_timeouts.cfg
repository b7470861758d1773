CONSTANTS
    Task = {t1, t2}
    None = none
    Item = {a}
    Length = 1
    MaxTick = 3
    TaskOps = {"back", "receive"}
    Waits = {0, 2}
    IsrOps = {"overwrite"}
    MaxLock = 1
    Resets = TRUE
SPECIFICATION FairSpec
INVARIANTS NoEarlyTimeout
PROPERTIES CallsReturn ImplementsQueue
