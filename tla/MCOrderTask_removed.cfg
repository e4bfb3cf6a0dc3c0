CONSTANTS
    Sizes = {2}
    MaxSize = 2
    CtVal = 3
    MinSz = 4
    Repricing = FALSE
    LifeLimit = FALSE
    Stoppable = TRUE
    StartRace = FALSE
    LateStore = FALSE
    MaxSlices = 4
    MaxFills = 2
    MaxOutages = 1
    MaxRecoveries = 1
    MaxReprices = 0
    MaxFaults = 1
    MaxRepeats = 0
SPECIFICATION Spec
CHECK_DEADLOCK FALSE
PROPERTIES
    RemovedWereNotSent
