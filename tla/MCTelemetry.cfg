SPECIFICATION Spec
CONSTANTS
    Gs = {g1, g2}
    metrics = TRUE
    chaos = TRUE
    Namespaces = {"web", "pods"}
    Names = {"web", "namespaces"}
    Requests <- MCRequests
    LatencySamples = 2
    RecentRequests = 2
    RateWindow = 0
    MaxRequests = 3
    MaxTime = 1
    MaxFrames = 1
INVARIANTS CountersAgree LatencyIsRecent FrameIsNearlyConsistent PathsAreUnderstood
CHECK_DEADLOCK FALSE
SYMMETRY MCSymmetry
