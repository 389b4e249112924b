SPECIFICATION Spec
CONSTANTS
    c1 = c1
    c2 = c2
    p1 = p1
    p2 = p2
    anon = anon
    Clients = {c1, c2}
    Owner <- OneAccount
    Anonymous = anon
    Workloads <- MCWorkloads
    Catalog <- Shop
    Rules <- TwoRules
    Wallet <- MCWallet
    NoFile = NoFile
    MaxTime = 4
    DayTicks = 2
    PitOffset = 1
    CycleTicks = 3
    Slack = 1
    Window = 2
    BonusCap = 3
SYMMETRY Symm
CHECK_DEADLOCK FALSE
INVARIANTS RaceOnce BonusBounded AckedRecorded RefreshLimit RewardsOnce ReplaysIgnored Balanced PaidOnce
