SPECIFICATION Spec
CONSTANTS
    Gs = {g1, g2}
    metrics = TRUE
    chaos = FALSE
    Namespaces = {"web", "pods"}
    Names = {"web", "namespaces"}
    Requests <- MCRequests
    LatencySamples = 2
    RecentRequests = 2
    RateWindow = 0
    MaxRequests = 3
    MaxTime = 1
    MaxFrames = 1
INVARIANTS WatchesAreNotSampled
CHECK_DEADLOCK FALSE
