SPECIFICATION FairSpec
CONSTANTS
    c1 = c1
    c2 = c2
    c3 = c3
    p1 = p1
    p2 = p2
    Conns = {c1, c2, c3}
    Pids = {p1, p2}
    NoPid = NoPid
    NoConn = NoConn
    TicketPid <- MCTicketPid
    Contexts = {x}
    Ids = {s1, s2}
    Infos = {info}
    NoInfo = NoInfo
    Grace = 1
    Nil = Nil
INVARIANTS OwnerAlive HostAccountable AnswersPublished
PROPERTIES FriendsForget StrangersTouchNothing KeepsPromise
