SPECIFICATION Spec
CONSTANTS
    Tick = 4
    Err = 1
    Offsets = {0, 1, 3, 5}
    OffsetDen = 5
    Limit = TRUE
    DevNum = 1
    DevDen = 6
    MaxTicks = 14
INVARIANT TypeOK
PROPERTIES NeverTakes NoChurn
CHECK_DEADLOCK FALSE
