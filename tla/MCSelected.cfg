SPECIFICATION Spec
CONSTANTS
    a = "a"
    b = "b"
    Ids <- MCIds
    Initial <- MCInitial
    LabelsOf <- MCLabelsOf
    NamespaceOf <- MCNamespaceOf
    Queries <- MCQueries
    RingSize = 2
    MaxNotices = 4
    MaxOthers = 1
    MaxDrops = 1
INVARIANTS FilterIsWanted SelectionsAgree CacheIsExplained
PROPERTIES GoneIsExplained CatchesUp
CHECK_DEADLOCK FALSE
