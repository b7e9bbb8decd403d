SPECIFICATION FairSpec
CONSTANTS
    g1 = g1
    g2 = g2
    g3 = g3
    Callers = {g1, g2, g3}
    MaxRetries = 2
    MaxRequests = 2
    FailureLimit = 1
    Replies = {"ok", "rejected", "cancelled"}
INVARIANTS
    IInv
PROPERTIES
    ImplementsCircuit
    EveryProbeDecides
    CallsWearOut
    Recovers
