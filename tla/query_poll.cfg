CONSTANTS
    k1 = k1
    k2 = k2
    k3 = k3
    c1 = c1
    c2 = c2
    b = b
    Keys = {k1, k2, k3}
    Client <- MCClient
    Base <- MCBase
    Watchlists <- MCWatchlists
    MaxRequests = 1
    Window = 1
    MaxUnique = 1
    SubWindow = 2
    Grace = 1
    PageSize = 1
    MaxPages = 3
    Faults = TRUE
    MaxClock = 5
SPECIFICATION Spec
INVARIANT NoGapWhenComplete
INVARIANT CountedOnce
PROPERTY NoFalseAlarm
PROPERTY FloodIsFound
