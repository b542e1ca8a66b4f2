CONSTANTS
    daemon = daemon
    cli = cli
    u1 = u1
    u2 = u2
    Procs = {daemon}
    Urls = {u1, u2}
    Hosts = {u2}
    Confs <- MCConfs
    MaxVersion = 2
    MaxChanges = 1
    MaxBreaks = 1
SPECIFICATION FairSpec
INVARIANT FreshUnlessTorn
PROPERTY KeptWhileListed
PROPERTY CacheCatchesUp
