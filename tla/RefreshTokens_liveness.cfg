SPECIFICATION FairSpec
CONSTANTS
    Clients = {c1}
    Slots = {i1}
    Selectors = {s1, s2, s3}
    None = None
    SessionMaxAge = 0
    RefreshMaxAge = 1
    RemoveAfter = 1
    ImmediateSchedule = FALSE
    MaxFaults = 1
    MaxTime = 2
INVARIANT UsedTokenIsScheduled
INVARIANT NoAbandonedToken
PROPERTY UsedTokenEventuallyRemoved
PROPERTY EveryRequestAnswered
\* The clients may all wait for a selector when the bounded pool is used up.
CHECK_DEADLOCK FALSE
