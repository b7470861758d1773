CONSTANTS
    Idle = idle
    Task = {idle, t1}
    MaxPriority = 1
    MaxEvent = 1
    MaxTick = 3
    MaxPended = 2
    MaxNesting = 2
SPECIFICATION PeriodicSpec
PROPERTIES DelaysEnd OnSchedule
