\* An allowed prefix replaces a narrower one that starts where it does.
SPECIFICATION FilterSpec
CONSTANTS
    s = s
    t = t
    u1 = u1
    u2 = u2
    NoAdvice = NoAdvice
    Families = {4, 6}
    Width = 3
    Users = {u1, u2}
    Services = {s, t}
    MaxPrefixes = 5
    Threshold = 2
    Contents <- MCContents
    Exclusions <- MCExclusions
    Filters <- MCFilters
    NetworkLists <- MCNetworks
    InitialContent <- MCInitialContent
    InitialFilters <- MCInitialFilters
    MaxEdits = 2
SYMMETRY MCUsers
INVARIANT AllowOnlyRestricts
CHECK_DEADLOCK FALSE
