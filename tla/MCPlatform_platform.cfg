SPECIFICATION PlatformFairSpec
CONSTANTS
    c1 = c1
    c2 = c2
    c3 = c3
    c4 = c4
    c5 = c5
    h1 = h1
    h2 = h2
    h3 = h3
    p1 = p1
    NoUser = NoUser
    NoSession = NoSession
    NoOne = NoOne
    NoReq = NoReq
    NoForm = NoForm
    NoCall = NoCall
    Calls = {c1, c3, c4, c5}
    Profiles = {p1}
    UserName <- OwnName
    Pswds = {"pw"}
    RequestRoles = {"guest"}
    MaxOpenConns = 1
    Https = {h1, h3}
    Caller <- Attempts
    MaxRetries = 2
    MaxFaults = 2
CONSTRAINT FewFaults
INVARIANTS
    PInv
    RegistrationIsOnce
    DeletionReported
PROPERTIES
    ImplementsService
    RemovalAuthenticated
    EveryRequestAnswered
    AnsweredUnlessLeaked
CHECK_DEADLOCK FALSE
