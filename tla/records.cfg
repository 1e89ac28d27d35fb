\* Changes of settings and filters, or the change log of a user, or the
\* opening of the database by programs of three versions.
SPECIFICATION RecordsSpec
CONSTANTS
    Parts = {"settings", "log", "store"}
    level = level
    fixed = fixed
    allow = allow
    deny = deny
    v = v
    Default = Default
    Unset = Unset
    Invalid = Invalid
    FromEnv = FromEnv
    Nobody = Nobody
    Settable = {level, fixed, allow, deny}
    FilterKeys = {allow, deny}
    Overridden = {fixed}
    Settings = {Default, v}
    Bodies <- MCBodies
    Putters = {p1, p2}
    Importers = {i1}
    MaxRequests = 2
    MaxImports = 1
    MaxFailures = 1
    MaxRestarts = 1
    LogModes = {1, 4}
    LogBuiltIn = {1}
    LogFallback = 1
    c = c
    x = x
    y = y
    LogCategories = {c}
    Pickable = {c, x}
    CategoryOfService <- MCCategoryOf
    NoAccount = NoAccount
    NoFeed = NoFeed
    NoNote = NoNote
    Big = Big
    MaxNames = 1
    MaxRows = 2
    Window = 1
    MaxTime = 2
    MaxCommits = 5
    Rows = {r1, r2}
    LastVersion = 3
    RebuildAt = 2
    Scripts = {"blind", "script", "loop", "afresh"}
    NoTable = NoTable
    NoFile = NoFile
    Torn = Torn
    MaxCrashes = 2
    MaxErrors = 1
    MaxBackups = 2
SYMMETRY MCSymmetry
INVARIANTS
    RecordsAgree
    
    
    
    
    NothingIsLost
    UpgradeIsBackedUp
PROPERTY
    UpgradeKeepsRows
CHECK_DEADLOCK FALSE
