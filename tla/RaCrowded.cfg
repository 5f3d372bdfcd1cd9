SPECIFICATION Spec
CONSTANTS
    TtiMod = 20
    HarqDelay = 4
    Msg3Delay = 2
    SlotMod = 10
    Lead = 3
    Window = 2
    PrachTtis = {5, 6, 16}
    MaxPreambles = 1
    NofBuffers = 2
    MaxRars = 2
    MaxPending = 2
    NofRntis = 2
    BusyTtis = {9, 10}
    MaxLag = 2
INVARIANT AnsweredInWindow Msg3Matched EntryKept
PROPERTY AnswersPending KeptInWindow RequestEnds
