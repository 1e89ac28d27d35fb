\* A dialing peer that routers also connect to.
SPECIFICATION Spec
CONSTANTS
    Prefix4 = {p4}
    Prefix6 = {}
    Attr = {x, y}
    NoRoute = NoRoute
    Conn = {c1, c2}
    NoConn = NoConn
    Dialer = dialer
    Acceptors = {a1}
    Mgr = mgr
    Passive = FALSE
    HoldChoices = {TRUE}
    Faults = {}
    MaxPrefixesPerUpdate = 1
SYMMETRY Symmetry
INVARIANTS
    ConnIsServed
CHECK_DEADLOCK FALSE
