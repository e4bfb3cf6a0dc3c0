SPECIFICATION Spec
CONSTANTS
    r1 = r1  r2 = r2  p1 = p1  p2 = p2
    Requests = {r1, r2}
    NoTask = NoTask
    Pairs = {p1, p2}
    Names = {"spot", "swap", "swap2"}
    Legs <- SharedLeg
    Stoppers = {s1}
    MaxInFlight = 1
SYMMETRY Symmetric
INVARIANTS TypeOK OneTaskPerPair DroppedCameLate NilCancelNeedsStopper
CHECK_DEADLOCK FALSE
