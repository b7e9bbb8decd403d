SPECIFICATION Spec
CONSTANTS
    c1 = c1
    c2 = c2
    c3 = c3
    c4 = c4
    root = root
    gina = gina
    MaxFaults = 2
    NoOrder = NoOrder
    NoReq = NoReq
    RoleOf <- Family
    Calls = {c1, c2}
    Users = {root, gina}
    MaxOpenConns = 1
INVARIANT AdminMayDelete
CHECK_DEADLOCK FALSE
