SPECIFICATION ListSpec
CONSTANTS
    n1 = n1
    n2 = n2
    n3 = n3
    Namespaces = {1, 2}
    Names = {n1, n2, n3}
    Vals = {0}
    Tomb = Tomb
    CompactAt = 1
    Clients = {c1}
    Limits = {0, 1}
    ListChunk = 2
    Selected = {n1, n2}
    MaxWrites = 5
INVARIANT
    ListIsComplete
