SPECIFICATION Spec
CONSTANTS
    r1 = r1
    r2 = r2
    root = root
    gina = gina
    Nobody = Nobody
    Nothing = Nothing
    NoId = NoId
    NoHttp = NoHttp
    NoRpc = NoRpc
    Requests = {r1}
    Users = {root, gina}
    RoleOf <- Family
    Sent <- Varied
    Limit = 1
    MaxRetries = 2
INVARIANTS
    AuthorisedOrderIsServed
