SPECIFICATION Spec
CONSTANTS
    None = None
    k1 = k1
    k2 = k2
    p1 = p1
    p2 = p2
    Keys = {k1, k2}
    Threads = {p1, p2}
    Hash <- MCHash
    Calls <- MCCalls
    InitialSize = 1
    MaxSegmentSize = 2
    MaxCalls = 2
    MaxCollected = 1
SYMMETRY Symmetry
INVARIANT TableIsMap
INVARIANT ResultsAreCurrent
INVARIANT MissExplained
INVARIANT IteratesOnce
