CONSTANTS
    Sizes <- SignedSizes
    MaxSize = 2
    CtVal = 5
    MinSz = 4
    Repricing = TRUE
    LifeLimit = TRUE
    Stoppable = TRUE
    StartRace = TRUE
    LateStore = FALSE
    MaxSlices = 4
    MaxFills = 2
    MaxOutages = 0
    MaxRecoveries = 1
    MaxReprices = 1
    MaxFaults = 0
    MaxRepeats = 0
SPECIFICATION Spec
CHECK_DEADLOCK FALSE
INVARIANTS
    TypeOK
    FewFirsts
    NoFillLostQuietly
