CONSTANTS
    Task = {t1, t2, t3}
    None = none
    Item = {a, b}
    Length = 2
    MaxTick = 1
    TaskOps = {"front", "receive", "peek"}
    Waits = {1}
    IsrOps = {"back", "receive", "peek"}
    MaxLock = 2
    Resets = FALSE
SYMMETRY Interchangeable
SPECIFICATION Spec
INVARIANTS ReceiversAreWoken SendersAreWoken LockedByHolder
PROPERTIES ImplementsQueue
