SPECIFICATION FairSpec
CONSTANTS
    r1 = r1
    r2 = r2
    r3 = r3
    k1 = k1
    Requests = {r1, r2, r3}
    Keys = {k1}
    KeyOf <- OneAddress
    MaxRate = 2
    MaxSends = 2
INVARIANT IInv
PROPERTIES
    ImplementsWindow
    LimitEnds
CHECK_DEADLOCK FALSE
