CONSTANTS
    Sizes = {2}
    MaxSize = 2
    CtVal = 5
    MinSz = 4
    Repricing = TRUE
    LifeLimit = FALSE
    Stoppable = FALSE
    StartRace = FALSE
    LateStore = FALSE
    MaxSlices = 4
    MaxFills = 2
    MaxOutages = 0
    MaxRecoveries = 1
    MaxReprices = 2
    MaxFaults = 1
    MaxRepeats = 1
SPECIFICATION Spec
CHECK_DEADLOCK FALSE
INVARIANTS
    PanicNeedsTwoFirsts
    
    LastCoversAmount
PROPERTIES
    LastMeansDone
    ImplementsLedger
