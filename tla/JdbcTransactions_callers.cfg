SPECIFICATION FairSpec
CONSTANTS
    None = None
    p1 = p1
    p2 = p2
    c1 = c1
    c2 = c2
    Callers = {p1, p2}
    Singles = {p2}
    Conns = {c1, c2}
    UseTransaction = TRUE
    MaxStatements = 2
    MaxFaults = 1
CHECK_DEADLOCK FALSE
INVARIANT AllOrNothing
INVARIANT SingleStatement
INVARIANT PooledIsClean
INVARIANT ConnectionsAccounted
PROPERTY EveryCallEnds
