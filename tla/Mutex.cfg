CONSTANTS
    idle = idle
    low = low
    mid = mid
    high = high
    Task = {idle, low, mid, high}
    Idle = idle
    None = none
    Mutex = {1, 2}
    Recursive = {2}
    FirstPriority <- Priorities
    Patience = {"none", "some"}
    Settable = {low, mid, high}
    MaxDepth = 2
    MaxSets = 1
SPECIFICATION Spec
INVARIANTS FreeIsTaken BoostReturned HolderIsBoosted HighestRuns MiddleWaits
PROPERTIES ImplementsLocks
