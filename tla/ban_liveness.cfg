CONSTANTS
    ip1 = ip1
    ip2 = ip2
    IPs = {ip1, ip2}
    StaticWhitelist = {}
    GeoWorkers = {}
    CliProcs = {}
    ExternalWhitelist = TRUE
    Whitelists <- GrowingList
    ExternalBlocklist = FALSE
    Blocklists <- NoList
    AutoUnban = TRUE
    BlocklistDuration = 0
    Durations = {1}
    MaxTimeout = 1
    SweepMinCount = 1
    Retention = 0
    DryRunModes = {FALSE}
    Faults = {}
    MaxClock = 1
    MaxCrashes = 1
SPECIFICATION FairSpec
PROPERTY ExpiredAreLifted
PROPERTY WhitelistedAreLifted
