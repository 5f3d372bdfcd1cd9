SPECIFICATION Spec
CONSTANTS
    TtiMod = 6
    HarqDelay = 1
    SlotMod = 3
    Timeout = 3
    NofProc = 1
    TBs <- TwoBlocks
    MaxRetx = 2
    NofWorkers = 1
    MaxBuf = 2
    MayReconf = FALSE
    Mimo = TRUE
INVARIANT NackedHasRetxLeft
PROPERTY StopAndWait
