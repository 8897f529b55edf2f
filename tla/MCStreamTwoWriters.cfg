SPECIFICATION StreamSpec
CONSTANTS
    RingSize = 3
    ChanCap = 3
    Subs = {s1, s2}
    NoSub = NoSub
    SealRV = 1
    MaxRV = 4
    Writers = {w1, w2}
    MaxTx = 1
    Clients = {c1}
    AllowBookmarks = FALSE
    AllowInitial = FALSE
SYMMETRY Symm
INVARIANTS
    NothingLost
