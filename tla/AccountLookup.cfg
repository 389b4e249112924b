SPECIFICATION Spec
CONSTANTS
    g1 = g1
    g2 = g2
    i1 = i1
    i2 = i2
    p1 = p1
    Goroutines = {g1, g2}
    Ids = {i1, i2}
    Pids = {p1}
    NoPid = NoPid
    NoEntry = NoEntry
    HitTTL = 4
    MissTTL = 3
    Timeout = 1
    MaxKeep = 1
INVARIANTS AnswersRecent
PROPERTIES BreakerHolds Recovers
