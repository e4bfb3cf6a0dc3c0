CONSTANTS
    MaxTime = 3
    MaxBooks = 3
    MaxSends = 1
    MaxFaults = 2
    Gap = 1
SPECIFICATION FairSpec
CHECK_DEADLOCK FALSE
INVARIANTS
    TypeOK
    SilenceIsNoticed
PROPERTIES
    RecoveryIsNeeded
    BooksGetThrough
    SendReturns
