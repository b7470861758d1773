CONSTANTS
    Idle = idle
    Task = {idle, t1, t2}
    MaxPriority = 2
    MaxEvent = 1
    MaxTick = 2
    MaxPended = 1
    MaxNesting = 1
SYMMETRY Interchangeable
SPECIFICATION Spec
INVARIANTS ReadyListsAgree HighestPriorityRuns NothingLeftPending
PROPERTIES DelayIsExact
