SPECIFICATION Spec
CONSTANTS
    NofWorkers = 1
    NofFrames = 4
    NofRbg = 8
    SiRbg = 2
    NofDci = 2
    SiWindow = 20
    SibPeriod <- MCSibPeriod
    Cycle = 2
    Nb = 4
    UeIds = {0, 2}
    MaxPageRec = 2
    McchPeriod = 4
    McchSf = 1
    MchSfs = {1, 6}
    NofSessions = 2
    SfAllocEnd = 3
    BytesPerSf = 2
    Backlogs = {1, 4}
PROPERTY PagesSent SiSent SessionsServed
