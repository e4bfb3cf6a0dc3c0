SPECIFICATION FairSpec
CONSTANTS
    e1 = e1
    Events = {e1}
    LegOf <- SpotLeg
    Senders = {s1}
    MaxClients = 3
    MaxFaults = 2
INVARIANTS TypeOK NoClientNeedsHalfway RepeatsNeedKept
PROPERTIES Reconnects ReceivedIsPassed
CHECK_DEADLOCK FALSE
