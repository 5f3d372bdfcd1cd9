SPECIFICATION Spec
CONSTANTS
    NofWorkers = 3
    EarlyRadio = FALSE
    Spaced = TRUE
INVARIANT TransmitInOrder
INVARIANT OnePermit
PROPERTY SubframeEnds
PROPERTY StopReturns
CHECK_DEADLOCK FALSE
