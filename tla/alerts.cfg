\* Everything that can happen to the alerts about a user.
SPECIFICATION FairSpec
CONSTANTS
    Users = {u1}
    UserStates = {"on", "gone"}
    Counts = {5, 10}
    Thresholds = {50, 60}
    Minimum = 6
    Deliverers = {d1, d2}
    NoNews = NoNews
    NoRow = NoRow
    MaxClock = 3
    MaxFaults = 1
INVARIANTS
    QueueIsServed
PROPERTIES
    FollowsFeed
    ToldOnce
    PendingIsTold
