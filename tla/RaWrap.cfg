SPECIFICATION Spec
CONSTANTS
    TtiMod = 20
    HarqDelay = 4
    Msg3Delay = 2
    SlotMod = 10
    Lead = 3
    Window = 10
    PrachTtis = {1, 11}
    MaxPreambles = 1
    NofBuffers = 2
    MaxRars = 2
    MaxPending = 2
    NofRntis = 3
    BusyTtis = {5}
    MaxLag = 2
PROPERTY DiscardedAfterWindow
