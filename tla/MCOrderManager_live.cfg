SPECIFICATION FairSpec
CONSTANTS
    r1 = r1  r2 = r2  p1 = p1  p2 = p2
    Requests = {r1, r2}
    NoTask = NoTask
    Pairs = {p1}
    Names = {"spot"}
    Legs <- OneName
    Stoppers = {}
    MaxInFlight = 2
PROPERTIES OutageRefuses EndIsReported
CHECK_DEADLOCK FALSE
