CONSTANTS
    c1 = c1
    c2 = c2
    c3 = c3
    r1 = r1
    r2 = r2
    Clients = {c1,c2,c3}
    Exempt = {c3}
    Foreign = {c1}
    Runs = {r1, r2}
    WorkerMax = 2
    PendingMax = 2
    Interval = 2
    MaxClock = 5
SPECIFICATION FairSpec
INVARIANT SingleRun
INVARIANT BoundedLookups
PROPERTY SpacedLookups
PROPERTY ScheduledIsChecked
