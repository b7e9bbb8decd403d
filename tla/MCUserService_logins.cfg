SPECIFICATION Spec
CONSTANTS
    c1 = c1
    c2 = c2
    c3 = c3
    c4 = c4
    p1 = p1
    p2 = p2
    NoUser = NoUser
    NoSession = NoSession
    NoOne = NoOne
    NoReq = NoReq
    Calls = {c1, c2, c3}
    Profiles <- Colliding
    UserName <- ConcatName
    Pswds = {"pw", "other"}
    RequestRoles = {"guest", "user"}
    MaxOpenConns = 1
    MaxFaults = 3
SYMMETRY CallSymmetry
INVARIANTS
    IInv
    LoginIsGenuine
PROPERTY ImplementsLedger
CHECK_DEADLOCK FALSE
