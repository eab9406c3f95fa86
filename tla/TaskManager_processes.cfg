CONSTANTS
    MaxProcesses = 4
    BootCount = 2
    Medium = 5
    Low = 2
    MaxPages = 2
    MaxWindows = 1
    MaxAtomicLevel = 2
    ElfLoadMayFail = TRUE
    OffScreenWindows = TRUE
SPECIFICATION FairSpec
INVARIANTS
    TypeOK
    CurrentIsRunning
    AtomicSectionsExclude
PROPERTIES
    NoResurrection
    KilledFromOutside
    ExitedIsReaped
    NoStarvation
    WaitReturns
