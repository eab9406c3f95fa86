SPECIFICATION MCSpec
CONSTANTS
    Callers = {p1}
    LastCluster = 4
    CellsPerCluster = 3
    FirstLimit = 16
    RootNames = {"long", "b", "c"}
    InnerNames = {}
    Slots <- OneLong
    Directories = {}
    Offsets = {1, 4}
    Sizes = {3}
    Values = {1}
    CrashOps = {"create", "mkdir", "write"}
    TornDirectories = FALSE
    MaxCrashes = 0
    LongestBase = 3
    LongestExt = 1
    UnitsPerSlot = 2
    LastTail = 3
    NameRoom = 3
INVARIANT NothingHidden
