SPECIFICATION FairSpec
CONSTANTS
    h1 = h1
    h2 = h2
    j = j
    Pids = {h1, h2, j}
    Listed = {j}
    Endpoints = {e1, e2}
    NoAddr = NoAddr
    Low = 1
    High = 2
    Quiet = 1
    MaxPairs = 2
    Nil = Nil
INVARIANTS TablesAgree OfferHonoured RefusedOnlyWhenFull
PROPERTIES PortsReturn
