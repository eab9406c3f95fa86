CONSTANTS
    FrameCount = 9
    WordBits = 4
    BootFrames = 3
    KernelPages = 2
    PageCount = 20
    TableSize = 4
    Processes = {p1, p2}
    StartSizes <- OneStart
    LoadPages <- AboveMemory
    MaxRequest = 2
    Kinds = {"memory"}
    MaxFailures = 2
SPECIFICATION MCSpec
CHECK_DEADLOCK FALSE
INVARIANT KernelStaysReserved
