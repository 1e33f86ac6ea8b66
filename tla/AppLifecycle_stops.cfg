SPECIFICATION FairSpec
CONSTANTS
    p1 = p1
    p2 = p2
    h1 = h1
    h2 = h2
    sys = sys
    Threads = {p1, p2}
    Hooks = {h1, h2, sys}
    SystemHook = sys
    Throwing = {h1}
    Hanging = {h2}
    NoHook = NoHook
    MayTimeOut = TRUE
CHECK_DEADLOCK FALSE
INVARIANT HookInOnePlace
INVARIANT LaterHooksFirst
INVARIANT SystemOutlivesUsers
INVARIANT LoneStopCompletesAfterAll
PROPERTY EveryHookEnds
PROPERTY ShutdownEnds
