SPECIFICATION StreamFairSpec
CONSTANTS
    RingSize = 2
    ChanCap = 2
    Subs = {s1}
    NoSub = NoSub
    SealRV = 1
    MaxRV = 5
    Writers = {w1}
    MaxTx = 2
    Clients = {c1}
    AllowBookmarks = TRUE
    AllowInitial = TRUE
INVARIANTS
    LossIsExplained
    InOrder
PROPERTIES
    OverflowEndsStream
    EverythingArrives
    ClosedIsTornDown
