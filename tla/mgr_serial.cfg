\* One request after another: passwords, settings, updates and failures.
SPECIFICATION Spec
CONSTANTS
    a = a
    b = b
    w = w
    p = p
    q = q
    MaxId = 2
    Addrs = {a, b, w}
    Dynamic = {w}
    IPv6 = {}
    Asns = {1, 2}
    Passwords = {p, q}
    NoPw = NoPw
    NoRow = NoRow
    Routes = {r}
    IPv6Routes = {r}
    Rows <- PasswordRows
    Settings <- TwoSettings
    Requests = {h1}
    Main = main
    Nobody = nobody
    Ops = {"create", "update", "delete", "routes", "sync", "reload", "setting"}
    Overlap = FALSE
    MaxRequests = 3
    MaxFaults = 2
INVARIANTS
    
    PasswordEnforced
    PendingShown
    
PROPERTIES
    FailedUpdateChangesNothing
    OthersKeepTheirSession
CHECK_DEADLOCK FALSE
