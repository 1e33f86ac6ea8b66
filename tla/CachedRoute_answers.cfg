SPECIFICATION Spec
CONSTANTS
    h1 = h1
    h2 = h2
    w1 = w1
    Handlers = {h1, h2}
    Callers = {h1, h2, w1}
    Requests <- MCRequests
    TextRequests <- MCTextRequests
    Expiry = 1
    MillisPerSecond = 2
    NoEntry = NoEntry
    i1 = i1
    Keys = {i1}
    Item = i1
    MaxUpdates = 2
INVARIANT FreshOrOverlapped
INVARIANT NotConfused
PROPERTY AnswersBecomeCurrent
