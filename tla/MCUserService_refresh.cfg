SPECIFICATION Spec
CONSTANTS
    c1 = c1
    c2 = c2
    c3 = c3
    c4 = c4
    p1 = p1
    p2 = p2
    NoUser = NoUser
    NoSession = NoSession
    NoOne = NoOne
    NoReq = NoReq
    Calls = {c1, c2}
    Profiles = {p1}
    UserName <- OwnName
    Pswds = {"pw"}
    RequestRoles = {"guest"}
    MaxOpenConns = 1
    MaxFaults = 2
INVARIANT ExpiredTokenRefreshed
CHECK_DEADLOCK FALSE
