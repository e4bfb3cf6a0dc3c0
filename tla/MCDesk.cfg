CONSTANTS
    c1 = c1
    c2 = c2
    swap = swap
    other = other
    spot = spot
    spot2 = spot2
    NoTask = NoTask
    Commands = {c1, c2}
    Legs = {swap, spot, spot2, other}
    Underlyings = {swap, spot, spot2}
    ByHand = {swap, other}
    LegsOf <- Pairs
    MaxOrders = 2
    MaxFaults = 1
    MaxRestarts = 1
SPECIFICATION Spec
SYMMETRY Symmetric
CHECK_DEADLOCK FALSE
INVARIANTS
    TypeOK
    TasksHaveContext
    FreshStart
PROPERTIES
    OnlySharersCancel
    RecoveryClears
