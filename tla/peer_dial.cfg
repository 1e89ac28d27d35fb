\* A peer that dials, with a hold timer and any failure of a send.
SPECIFICATION FairSpec
CONSTANTS
    Prefix4 = {}
    Prefix6 = {p6, p7}
    Attr = {x}
    NoRoute = NoRoute
    Conn = {c1, c2}
    NoConn = NoConn
    Dialer = dialer
    Acceptors = {}
    Mgr = mgr
    Passive = FALSE
    HoldChoices = {TRUE}
    Faults = {"clean", "torn"}
    MaxPrefixesPerUpdate = 1

    
PROPERTIES
    NoFlap
    RetryDelivers
    StopEndsAll
CHECK_DEADLOCK FALSE
