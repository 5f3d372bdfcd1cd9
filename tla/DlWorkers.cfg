SPECIFICATION Spec
CONSTANTS
    TtiMod = 6
    HarqDelay = 1
    SlotMod = 3
    Timeout = 3
    NofProc = 1
    TBs <- OneBlock
    MaxRetx = 2
    NofWorkers = 2
    MaxBuf = 1
    MayReconf = TRUE
    Mimo = FALSE
INVARIANT RetxBound
PROPERTY StopAndWait
PROPERTY GrantTtiNear
