SPECIFICATION Spec
CONSTANTS
    c1 = c1
    c2 = c2
    Conns = {c1, c2}
    Asks <- MCAsks
    Ticketed = {c1}
    Free = Free
    MaxTasks = 2
CHECK_DEADLOCK FALSE
INVARIANTS NumbersExact RepliesAlign SearchKnownFirst KeysBeforeUse
PROPERTIES Returns
