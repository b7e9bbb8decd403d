SPECIFICATION FairSpec
CONSTANTS
    c1 = c1
    c2 = c2
    c3 = c3
    c4 = c4
    p1 = p1
    p2 = p2
    NoUser = NoUser
    NoSession = NoSession
    NoOne = NoOne
    NoReq = NoReq
    Calls = {c1, c2, c3, c4}
    Profiles = {p1, p2}
    UserName <- OwnName
    Pswds = {"pw"}
    RequestRoles = {"guest"}
    MaxOpenConns = 1
    MaxFaults = 4
PROPERTY EveryCallAnswered
CHECK_DEADLOCK FALSE
