SPECIFICATION Spec
CONSTANTS
    RingSize = 3
    ChanCap = 2
    Subs = {s1}
    NoSub = NoSub
    SealRV = 1
    MaxRV = 8
INVARIANTS
    TypeOK
    RingIsLogTail
    NoSilentGap
    TearDownIsSafe
PROPERTY
    ImplementsFeed
