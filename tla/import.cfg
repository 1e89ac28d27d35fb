\* Every import of up to three users and two modes, edits, a restart.
SPECIFICATION ImportSpec
CONSTANTS
    n1 = n1
    n2 = n2
    n3 = n3
    m = m
    k = k
    f = f
    g = g
    c = c
    d = d
    a = a
    b = b
    w = w
    p = p
    q = q
    x = x
    NoUser = NoUser
    NoMode = NoMode
    NoKey = NoKey
    NoPreview = NoPreview
    NameList <- MCNames
    IdOf <- MCIds
    ModeNames = {m, k}
    FeedNames = {f, g}
    PairList <- MCPairs
    TestNet = w
    Addresses = {a, b, w}
    Networks = {x}
    Passwords = {p, q}
    FirstAsn = 10
    Snapshots <- MCSnapshots
    Replaced <- MCReplaced
    InitialUsers <- MCUsers
    InitialModes <- MCModes
    EditedRows <- MCEdits
    MaxImports = 1
    MaxEdits = 1
    MaxRestarts = 1
INVARIANTS
    
    CleanImportIsServed
PROPERTIES
    ConfirmedIsApplied
CHECK_DEADLOCK FALSE
