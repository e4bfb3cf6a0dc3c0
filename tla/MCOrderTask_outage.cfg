CONSTANTS
    Sizes = {2}
    MaxSize = 2
    CtVal = 3
    MinSz = 4
    Repricing = FALSE
    LifeLimit = FALSE
    Stoppable = FALSE
    StartRace = FALSE
    LateStore = TRUE
    MaxSlices = 3
    MaxFills = 1
    MaxOutages = 1
    MaxRecoveries = 2
    MaxReprices = 0
    MaxFaults = 1
    MaxRepeats = 1
SPECIFICATION Spec
CHECK_DEADLOCK FALSE
INVARIANTS
    HeadIsSwap
    FillsPartitioned
    FewFirsts
