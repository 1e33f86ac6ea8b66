SPECIFICATION Spec
CONSTANTS
    Clients = {c1}
    Slots = {i1, i2}
    Selectors = {s1, s2, s3}
    None = None
    SessionMaxAge = 1
    RefreshMaxAge = 2
    RemoveAfter = 1
    ImmediateSchedule = FALSE
    MaxFaults = 0
    MaxTime = 3
SYMMETRY Symmetry
INVARIANT RemovedStaysRemoved
INVARIANT UsedTokenServedInGrace
INVARIANT IdleClientHoldsLiveToken
\* The clients may all wait for a selector when the bounded pool is used up.
CHECK_DEADLOCK FALSE
