\* Two requests at a time, with a failure: fair behaviours.
SPECIFICATION FairSpec
CONSTANTS
    a = a
    b = b
    w = w
    p = p
    q = q
    MaxId = 2
    Addrs = {a, b, w}
    Dynamic = {w}
    IPv6 = {}
    Asns = {1, 2}
    Passwords = {p, q}
    NoPw = NoPw
    NoRow = NoRow
    Routes = {r}
    IPv6Routes = {}
    Rows <- MovingRows
    Settings <- OneSetting
    Requests = {h1, h2}
    Main = main
    Nobody = nobody
    Ops = {"update", "reload"}
    Overlap = TRUE
    MaxRequests = 2
    MaxFaults = 1
INVARIANTS
    CacheDelivered
PROPERTIES
    EveryCallEnds
CHECK_DEADLOCK FALSE
