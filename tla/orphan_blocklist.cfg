CONSTANTS
    ip1 = ip1
    ip2 = ip2
    IPs = {ip1}
    StaticWhitelist = {}
    GeoWorkers = {}
    CliProcs = {}
    ExternalWhitelist = TRUE
    Whitelists <- AnyList
    ExternalBlocklist = TRUE
    Blocklists <- AnyList
    AutoUnban = TRUE
    BlocklistDuration = 0
    Durations = {1}
    MaxTimeout = 1
    SweepMinCount = 1
    Retention = 0
    DryRunModes = {FALSE}
    Faults = {}
    MaxClock = 1
    MaxCrashes = 0
SPECIFICATION Spec
INVARIANT NoOrphanEntry
