CONSTANTS
    Sizes = {2}
    MaxSize = 2
    CtVal = 3
    MinSz = 4
    Repricing = FALSE
    LifeLimit = FALSE
    Stoppable = FALSE
    StartRace = FALSE
    LateStore = FALSE
    MaxSlices = 3
    MaxFills = 1
    MaxOutages = 1
    MaxRecoveries = 1
    MaxReprices = 0
    MaxFaults = 0
    MaxRepeats = 0
SPECIFICATION BookSpec
CHECK_DEADLOCK FALSE
PROPERTIES
    
    EndIsNoticed
