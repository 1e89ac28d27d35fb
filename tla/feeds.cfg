\* Two feeds, the loop and two requests, with edits.
SPECIFICATION Spec
CONSTANTS
    Ids = {1}
    Urls = {u, v}
    Hosts = {h}
    Entries = {e}
    Loop = loop
    Requests = {r1, r2}
    NoFeed = NoFeed
    NoMutex = NoMutex
    NoOne = NoOne
    MaxFeeds = 2
    MaxEdits = 2
    MaxStarts = 3
INVARIANTS
    EntriesAreCurrent
    
    WatchIsOwn
    NothingIsLeft
SYMMETRY Alike
