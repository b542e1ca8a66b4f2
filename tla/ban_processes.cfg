CONSTANTS
    ip1 = ip1
    ip2 = ip2
    IPs = {ip1}
    StaticWhitelist = {}
    GeoWorkers = {}
    CliProcs = {"cli1"}
    ExternalWhitelist = FALSE
    Whitelists <- AnyList
    ExternalBlocklist = FALSE
    Blocklists <- AnyList
    AutoUnban = TRUE
    BlocklistDuration = 0
    Durations = {1}
    MaxTimeout = 1
    SweepMinCount = 1
    Retention = 0
    DryRunModes = {FALSE, TRUE}
    Faults = {"add", "del", "db"}
    MaxClock = 1
    MaxCrashes = 1
SPECIFICATION Spec
PROPERTY BanNeverRewritten
