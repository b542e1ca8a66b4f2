CONSTANTS
    c1 = c1
    c2 = c2
    c3 = c3
    q1 = q1
    q2 = q2
    Clients = {c1, c2, c3}
    Requests = {q1, q2}
    MaxFailures = 2
    GlobalMax = 5
    MaxTracked = 2
    Window = 2
    CacheTTL = 2
    MaxClock = 3
    StatusAfterLogin = FALSE
SPECIFICATION FairSpec
PROPERTY ServerStops
INVARIANT FullMeansLocked
INVARIANT NoCallOnClosedStore
PROPERTY LockedIsRefused
PROPERTY SpacedCalls
CHECK_DEADLOCK FALSE
