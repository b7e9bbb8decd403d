SPECIFICATION FairSpec
CONSTANT Programs <- Repository
INVARIANTS
    IInv
    OrderlyStop
    ReportsAreTrue
    NobodyIsStuck
PROPERTY ExitsOnceSignalled
CHECK_DEADLOCK FALSE
