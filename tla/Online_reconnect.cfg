SPECIFICATION OnlineSpec
CONSTANTS
    c1 = c1
    c2 = c2
    c3 = c3
    p1 = p1
    p2 = p2
    Conns = {c1, c2, c3}
    Accounts = {p1, p2}
    TicketPid <- MCTicketPid
    Nobody = Nobody
CHECK_DEADLOCK FALSE
PROPERTIES ConnectedKeepsPresence
