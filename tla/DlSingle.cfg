SPECIFICATION Spec
CONSTANTS
    TtiMod = 9
    HarqDelay = 1
    SlotMod = 3
    Timeout = 3
    NofProc = 2
    TBs <- OneBlock
    MaxRetx = 2
    NofWorkers = 1
    MaxBuf = 1
    MayReconf = FALSE
    Mimo = FALSE
INVARIANT TypeOK
INVARIANT InFlightKept
PROPERTY NoEarlyReuse
PROPERTY BlockedPidFreed
