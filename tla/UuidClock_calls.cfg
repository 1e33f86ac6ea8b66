SPECIFICATION FairSpec
CONSTANTS
    t1 = t1
    t2 = t2
    Threads = {t1, t2}
    Ticks = 2
    LowSize = 4
    MidSize = 2
    HighSize = 2
    FirstClock = 1
    MaxClock = 3
    MaxBack = 1
    MaxCalls = 4
CHECK_DEADLOCK FALSE
INVARIANT UuidsDistinct
INVARIANT OrderOfCalls
INVARIANT NotBeforeStartOf
INVARIANT ReportsItsTime
PROPERTY Implements
PROPERTY CallsReturn
