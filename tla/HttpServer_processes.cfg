SPECIFICATION FairSpec
CONSTANTS
    None = None
    Empty = Empty
    Mixed = Mixed
    MaxProcesses = 2
    Https = TRUE
    MaxFaults = 1
INVARIANT PidFileTrue
INVARIANT OpenWhileServing
PROPERTY EveryStopEnds
