SPECIFICATION Spec
CONSTANTS
    p1 = p1
    p2 = p2
    p3 = p3
    p4 = p4
    c1 = c1
    c2 = c2
    c3 = c3
    Conns = {c1, c2, c3}
    Pids = {p1, p2, p3, p4}
    ConnPid <- Apart
    Loads <- Both
    NoRoom = NoRoom
CHECK_DEADLOCK FALSE
SYMMETRY Symm
INVARIANTS LeaderOnce PlacedConnected SeatsRespected GuestsAcknowledged MergeLinked
