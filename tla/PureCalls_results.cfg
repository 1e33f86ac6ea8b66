SPECIFICATION MCSpec
CONSTANTS
    s = s
    a = a
    b = b
    e = e
    Nodes = {s, a, b, e}
    Nothing = Nothing
    IntMax = 15
    DefaultPage = 1
    DefaultSize = 2
    MaxSize = 3
CHECK_DEADLOCK FALSE
INVARIANT PathIsShortest
INVARIANT NearestFound
INVARIANT ResultsRight
INVARIANT PagesListAll
INVARIANT NamesBound
PROPERTY CallsEnd
