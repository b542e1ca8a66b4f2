CONSTANTS
    ip1 = ip1
    ip2 = ip2
    IPs = {ip1, ip2}
    StaticWhitelist = {}
    GeoWorkers = {"geo1"}
    CliProcs = {}
    ExternalWhitelist = TRUE
    Whitelists <- AnyList
    ExternalBlocklist = FALSE
    Blocklists <- NoList
    AutoUnban = TRUE
    BlocklistDuration = 0
    Durations = {2}
    MaxTimeout = 1
    SweepMinCount = 1
    Retention = 1
    DryRunModes = {FALSE}
    Faults = {}
    MaxClock = 2
    MaxCrashes = 1
SYMMETRY Symmetry
SPECIFICATION Spec
INVARIANT EnforcedWhileBanned
INVARIANT HistoryMatchesRows
INVARIANT NoOrphanEntry
PROPERTY ImplementsLedger
