CONSTANTS
    FrameCount = 15
    WordBits = 4
    BootFrames = 3
    KernelPages = 2
    PageCount = 20
    TableSize = 4
    Processes = {p1, p2}
    StartSizes <- TwoStarts
    LoadPages <- AboveMemory
    MaxRequest = 2
    Kinds = {"memory", "boot", "launch"}
    MaxFailures = 1
SPECIFICATION MCSpec
CHECK_DEADLOCK FALSE
INVARIANTS
    OneRole
    Isolation
    
    
    NothingUsedTooEarly
    StartsAsGiven
    ProcTellsTheStart
PROPERTIES
    
    RebootResets
