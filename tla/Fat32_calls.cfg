SPECIFICATION MCSpec
CONSTANTS
    Callers = {p1}
    LastCluster = 6
    CellsPerCluster = 3
    FirstLimit = 16
    RootNames = {"long", "dir"}
    InnerNames = {"b"}
    Slots <- OneLong
    Directories = {"dir"}
    Offsets = {4}
    Sizes = {3}
    Values = {1}
    CrashOps = {"create", "mkdir", "write"}
    TornDirectories = FALSE
    MaxCrashes = 1
    LongestBase = 3
    LongestExt = 1
    UnitsPerSlot = 2
    LastTail = 3
    NameRoom = 3
INVARIANTS
    ChainsSound
    
    ReadsAgree
    LongNamesKept
    ShortNamesUnique
 
