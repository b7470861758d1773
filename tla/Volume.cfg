CONSTANTS
    Name = {f, g}
    NoName = none
    First = f
    FirstSize = 5
    NClust = 4
    CSize = 2
    SS = 2
    PerFat = 3
    PerDir = 1
    NRootDir = 2
    Modes = {{"READ", "WRITE", "OPEN_ALWAYS"}, {"WRITE", "CREATE_ALWAYS"}, {"READ"}}
    Sizes = {1, 5}
    Offsets = {2, 7}
    Fault = {"error", "late", "power"}
    MaxAccess = 8
    MaxCalls = 5
    MaxFaults = 1
SPECIFICATION Spec
VIEW StateView
INVARIANTS ChainsDisjoint SpaceAccounted SyncedFilesSurvive
PROPERTY ImplementsStore
CHECK_DEADLOCK FALSE
