SPECIFICATION Spec
CONSTANTS
    TtiMod = 4
    HarqDelay = 1
    Msg3Delay = 2
    MaxRetx = 3
    MaxMsg3 = 2
    NofWorkers = 1
    MaxBsr = 2
    MaxTbs = 1
    MayReconf = TRUE
INVARIANT PhichAnswers
INVARIANT RetxOnlyIfNacked
INVARIANT OldDataInFlight
PROPERTY SrAnswered
PROPERTY StopAndWait
