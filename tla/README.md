# adguard-shield: models and proofs

TLA+ modules, TLC configurations and TLAPS proofs for the Go program under `src/`
(adguard-shield, a daemon that reads the query log of AdGuard Home and drops
abusive clients with ipset and iptables). `PROJECT.json` links every definition to
the lines it models and lists runs, faulty variants, findings, hazards and theorems.

    tlc -workers 2 -config ban_daemon.cfg MCBanLifecycle.tla     model-check one run
    tlapm BanLifecycleProofs.tla                               check the proofs

## 1. Inventory of the system

| Component | Code | State it keeps | Operations |
|---|---|---|---|
| Ban lifecycle | `internal/daemon/bans.go`, `daemon.go` | `banMu`, rows of `active_bans`, ipset entries, history | `Ban`, `Unban`, `AutoUnbanGeoIP`, `reconcileFirewall`, worker `ban-expiry` |
| External lists | `daemon/lists.go`, `whitelist.go` | snapshot `Daemon.wl`, table `whitelist_cache`, cache files | `SyncWhitelist`, `SyncBlocklist`, `fetchCachedLines`, `whitelist-reload` |
| Poll and detection | `daemon/querylog.go`, `detection.go` | `seen`, `events`, `lastNewest` | `pollOnce`, `fetchQueryLogSince`, `analyze`, `analyzeSubdomains` |
| Notifications | `daemon/notify_queue.go`, `notify.go` | channel, `running`, `stopped`, marker file of the service message | `enqueueNotification`, `startNotifier`, `stopNotifier`, `notifyServiceOnce` |
| GeoIP checks | `daemon/geoip.go` | `geoPending`, `geoRunning`, `geoSeen` | `scheduleGeoIP`, `runGeoIPChecks`, `checkGeoIP` |
| GeoIP resolver | `internal/geoip` | reader, generation, time of modification, cache in memory and in `geoip_cache` | `Open`, `Refresh`, `Lookup`, `Close`, download |
| Store | `internal/db` | SQLite tables, schema version | bans, history, whitelist, offenses, migrations, retention, report queries |
| Firewall | `internal/firewall` | ipsets, chain, hooks of the kernel | `Setup`, `Add`, `AddBatch`, `Del`, `Flush`, `Remove` |
| Command line | `cmd/adguard-shieldd` | pid file | `ban`, `unban`, `flush`, `whitelist-sync`, `blocklist-sync`, `firewall-*`, `live`, `install` |
| Web status | `internal/web`, `daemon/webstatus.go`, `live.go` | shared snapshot, calls in flight, failed logins per client and of all | `Serve`, `snapshot`, `finish`, `check`/`fail` |
| Reports | `internal/report`, queries of `internal/db` | cron file; reads history, AbuseIPDB reports and log | `InstallCron`, `Generate`, `Send`, retention |
| AbuseIPDB, saved rules | `daemon/abuseipdb.go`, `firewall_rules.go` | rows and log lines of reports; files with rules | `reportAbuseIPDB`, `SaveFirewallRules`, `restoreFirewallRules` |
| Log file | `internal/syslog` | open file, size | `Write`, `maybeRotate` |
| Configuration, installer | `internal/config`, `internal/installer` | none while running | parsing, one-off setup |

How they interact:

- The poll loop is one goroutine: it polls, analyses, calls `Ban` and schedules
  GeoIP checks, which run in up to four goroutines and call `Ban` as well.
- Periodic jobs (`external-whitelist` or `whitelist-reload`, `external-blocklist`,
  `ban-expiry`, `offense-cleanup`, `db-retention`, `geoip-refresh`) are goroutines.
  Some run once at once. `Run` does not wait for them when the context ends.
- Inside one process `banMu` orders `Ban` and `Unban`; `SyncBlocklist` does not take
  it, and `SyncWhitelist` only through the `Unban` calls of its sweep.
- A command line is another process. It shares SQLite, the ipsets and the cache
  files with the daemon, and no lock.
- A ban is a row, an entry of an ipset with a timeout of its own, and a line of the
  history. SQLite survives a crash and a reboot, the ipsets survive only a crash.
- `Ban` and `Unban` hand messages to the notification queue, whose single worker talks
  to slow services.
- Lookups of the GeoIP goroutines share the resolver's lock with the refresh; its cache
  table is shared with command lines that have a resolver of their own.
- The web server asks the daemon for its status; `Run` stops the server before the store
  closes. A report is a process of its own (cron or command line) that reads the tables
  and the log while the daemon writes and prunes them.
- `firewall-create`, `-remove`, `-save`, `-restore` and the start and stop of the daemon
  change the same sets, chains and hooks; Docker and the administrator do too.

What is hard, and what makes each part correct:

| Part | Hard behaviour | Correct when |
|---|---|---|
| Ban lifecycle | goroutines, processes, crash between two statements, failing ipset | no entry without a row; bans in force are enforced; a ban is lifted when and only when it is over; rows are never overwritten |
| Lists | check then act against the whitelist, one of several lists fails, kill between three file writes, two processes, 304 | a whitelisted address does not stay banned; no entry is lost by a failure; a list called fresh is current |
| Poll | the log grows while it is paged backwards; failing pages; pruning by time; several reasons for one client | every query counts once; a flood of queries or subdomains is found; nobody is accused falsely |
| Notifications | closing a channel under senders, full queue, hanging worker, timeout | no panic, no loss, callers never wait, the stop ends |
| GeoIP checks | handover between polls and an ending run | one run, bounded parallelism, no lost wakeup, interval kept |
| Resolver | swap and close under readers, late writes of two caches, files replaced between stat and open | no cache brings an answer of an older database back; no closed database is read; a new one is used |
| Firewall rules | commands that fail or a kill half way, a changed configuration, rules of others | a clean `Setup` leaves exactly its hooks whatever was there, without a gap; `Remove` leaves nothing; rules of others stay |
| Web status | limiter with a table of limited size, shared snapshot, stop while calls run or hang | who is locked stays locked; newcomers wait only while they must; the store closes after the calls; the stop ends |
| Reports | windows against schedules, many queries without a transaction, two sources for one number | no day is left out, none repeated but as ISO weeks demand; the numbers of a report agree; a report to AbuseIPDB counts once |
| Offense levels, log rotation, migrations | boundaries of time, overflow, half-done sequences | planned, section 8 |

## 2. Modules

Each component has a module with its state, one action per statement or handler
that others can see, and its properties at the end. `MC*` modules only add model values, symmetry
sets and list contents. Definitions under the comment "Faulty variant" are plausible
mistakes in the definition that follows them; no specification uses them, they
show that each property can fail.

**BanLedger** is the promise in five actions: a ban is recorded, enforced, released,
forgotten, and the kernel may lose its entries at any time, always in the order that
keeps `blocked` within `banned`.

**BanLifecycle** is what the code does. `rows` is `active_bans`, `ipset` maps an
address to the end of its entry, `hist` is the last BAN or UNBAN with its time, as far as
the retention has left it, `dry` whether a process runs dry, `wlTable` and
`wlSnap` are the whitelist in SQLite and in memory, `banMu` has one holder per
process. `pc` and `loc` give every thread its next statement and its locals.

| Code | Actions |
|---|---|
| `Ban` / `banLocked` | `BanLock`, `BanCheck`, `BanExists`, `BanInsert`, `BanFWAdd`, `BanHistory` |
| `unban`, loops over it | `UnbanLock`, `UnbanFWDel`, `UnbanStored`, `UnbanDelete`, `UnbanHistory`, `LoopEnd` |
| `ban-expiry`, `flush`, `unban` | `ExpirySnapshot`, `CliUnban` |
| `SyncWhitelist` | `WlReplace`, `WlLoad`, `WlScan` with the sweep brake, then the unban loop |
| `SyncBlocklist` | `BlActive`, `BlCandidates`, `BlInsert`, `BlAddBatch`, `BlHistory`, `BlAutoUnban` |
| `Run` | `Start`, `BootCaches`, `BootGeoIP`, `BootExpired`, `BootActive`, `BootReadd`, `ReconcileFails` in the latter |
| `db-retention` | `PruneHistory` |
| start of a command | `CliConfig`: the `DRY_RUN` it finds |
| environment | `Crash`, `Reboot`, `FirewallFlush`, `Tick` (the kernel drops entries that time out) |

A statement that may fail is an alternative of its action under the constant
`Faults` (`"add"`, `"del"`: ipset; `"db"`: SQLite), with the error path of the code.
Addresses are canonical targets; the offense level is a free choice among the
durations it may yield. A ban has its end from the time of `BanExists`, where the code computes
it, and its `ban_time` from that of the insert.

**NotifyQueue**: `enqueueNotification` is the decision under the read lock
(`EnqueueLock`) and its effect (`EnqueueSend`, `EnqueueRefuse`, `EnqueueInline`);
`StopNotifier` needs the write lock, so no reader; a send on a closed channel is the
outcome `"panic"`. The worker takes, delivers and ends. The main goroutine waits
for the drain or the timeout. The names of its specification carry the prefix `Notify`:
`QueueProofs` extends this module and `GeoQueue`, which share no state.

**QueryPoll**: AdGuard's log is a sequence with at most one query per tick. A poll
takes its arguments, fetches page after page while the log grows, merges and prunes
under `d.mu`, and counts. A key is a pair of client and domain; `Client` and `Base` give
its client and the registrable domain, `watched` the keys and bases the watchlist
matches. `Analyze` bans each client for one of the reasons found, as the order of Go's
maps decides: first among the domains over the rate limit, else among the bases with too
many subdomains. `Restart` forgets everything in memory.

**GeoQueue**: `Schedule` and `Launch` are the two halves of `scheduleGeoIP`, `RunTakes`,
`Feed`, `BatchEnds`, `RunEnds` the run, `CheckSkips`, `CheckMarks`, `CheckEnds` a worker.

**ListCache**: one sync goes over the configured lists. Each is a conditional request and
three files named by its index, which hold a version of a list, nothing, or a fragment
(`os.WriteFile` truncates first). `RenameFails` and `Crash` may leave the new entity tag
without its list; `torn` are the indexes where one did. Open files follow a rename, and two
writers of one file may mix. `Return` adds the entries (a host name may not resolve) or
counts a failure; `SyncEnds` replaces the whitelist, or bans and lifts, as the failures
allow, in one step: `BanLifecycle` has the statements behind it. `Reconfigure` gives indexes
to other lists and keeps the files.

**GeoResolver**: `disk` is the version of the database file, `reader` the open one, `stamp`
the version whose time of modification the stat saw. One job at a time (`Open` or
`Refresh`, serialised by `refreshMu`) goes through `JobInstall` (download, check, rename),
`JobStat`, `JobOpenDB`, `JobLoad`, `JobSwap`, `JobCloseOld`, `JobInsert`. A lookup is
`LookupStart`, `LookupRead` or `LookupLegacy`, `StoreCache`, `Upsert`; between `LookupStart`
and `LookupRead` it holds the read lock, so `MayWrite` keeps a swap out and a waiting swap
keeps new readers out, as `sync.RWMutex` does. `CloseGeo` and `CloseReader` are the end of
the daemon, `OtherInstalls`, `OtherUpserts`, `RowsGo` the other processes and the retention.

**FirewallHooks**: a call is the list of its commands in `op.todo`; each command is an
action that works on the kernel's `sets`, `chains`, `drops` and `rules`. `CheckParent` and
`ListHooks` put the commands the code derives from what they read in front of the rest.
`Fails` is the failure of the command at hand with the code's reaction (ignore, or abort
`Setup`), `Kill` the end of the process, `DockerChanges` and `AdminAdds` are others. In a
dry run `Setup` and `Remove` issue no command, so no call here is one.

**WebStatus**: a request arrives and passes the limiter (`ArriveOpen`, `ArriveKnown`,
`ArriveUnknown`), compares the password (`Match`, `Fail`), takes the snapshot or calls the
provider (`Snapshot`, `CallEnds`). `server` is `Serve` and what follows it, up to
`CloseStore`.

**Reports**: `CronFires` or `Generate` begins a report, then every query of
`ReportStats`, `AbuseIPDBReportStats`, the log scan and the overview is an action, with
`HistoryBegin` and `HistoryInsert` (the time is taken before the insert), `AbuseReported`
and `AbuseRecorded`, `Rotate` and `PruneHistory` in between. A query returns the rows of its
window (`Shown`). `QueryFails` ends a report whose statistics fail; a row of the overview
whose query fails shows zeros and the report goes on (`OverviewQuery`), and so does one that
cannot open the log (`LogUnread`). `isoWeek` is `date +%V`, the week of the ISO year.

## 3. Runs

Passing runs (bounds are the constants of the `.cfg`):

| Run | Question | Bounds |
|---|---|---|
| `ban_daemon` | Is every ban in force enforced, is there ever an entry without a row, does the history agree with the table, does the lifecycle implement the ledger? | one daemon: two addresses, poll loop, one GeoIP goroutine, expiry, whitelist sync, retention after one second; one crash or reboot; two seconds; a duration above the limit of ipset, the remaining time at the limit |
| `ban_liveness` | Are expired and whitelisted bans lifted in the end? | two addresses, a whitelist with one of them or both; the brake keeps two bans and lets one be lifted; one crash, fair scheduling |
| `ban_processes` | Do two processes and the syncs without a lock ever overwrite a row? | a command line that bans, unbans, flushes and syncs next to the daemon; each may be a dry run; every fault; one crash |
| `notify_queue` | Panic, loss, order, complete drain; do callers and stop get through; is everything delivered? | four callers, capacity two: full, overfull and empty queues at the stop |
| `query_poll` | Does every query count once, is nobody banned falsely, is the window complete and every client with a flood found? | five ticks; three keys of two clients, two of them subdomains of one base; pages of one and a limit of three; windows 1 and 2 and grace 1: a window spans several pages, the page limit is reached, pages fail, and the log outlives windows and grace |
| `geo_queue` | One run, bounded queue and lookups, the interval, no lost wakeup | three clients, one exempt, two goroutines, queue of two, two workers; five ticks and an interval of two, so that entries are pruned |
| `list_cache` | Are fresh lines current, do the caches catch up, does an entry of a configured list get lost through failures? | two lists of two versions, one of a host name; failing answers, broken bodies and writes; one kill at any step or failing rename; a configuration without the first list, or with it; lists stop to change once one has its second version |
| `geo_resolver` | Does a cache bring an older answer back, does a row claim a newer database than it is from, is a closed database read, is a new one used? | one address, two lookups, two versions of the database, automatic download or a path, one end of the daemon; entries may be too old at any time |
| `firewall_hooks` | Does a clean `Setup` leave exactly its hooks and a clean `Remove` nothing, is there a gap at a change, do rules of others stay? | two ports, three calls of `Setup`, `Remove`, save, restore under any configuration of the module, one failing command or kill anywhere, Docker and an administrator |
| `web_status` | Is a locked client refused, does a full table lock out nobody longer than it must, are calls spaced, does the store close after them, does the stop end? | three clients, a table of two, two failures each and five of all, two requests at once, windows of two ticks out of three |
| `reports` | Is a day left out or reported twice, do the numbers of a report agree, does an AbuseIPDB report count once? | each interval over at least two reports of cron, the biweekly one past a year with an odd number of weeks; days and weeks of two, months of two and three days, years of three weeks; two events, one for the biweekly report; a report takes at most one tick |

Two addresses suffice for the lifecycle: statements act on one address, and loops over
several interact only through `banMu` and the sweep brake. One crash is enough for the
reconcile, which begins from the table alone. A clock of two seconds lets every duration end
before, during and after each statement. A ban of two seconds is past the limit of ipset,
here one; what is left of it at a reconcile is at the limit or past it. `ban_liveness` ends
bans at one second, `ban_daemon` those past the limit. The theorems of section 5 have no
bounds.

Failures of ipset and SQLite are left out of `ban_daemon`: under a failing `ipset add` or
statement a ban is not enforced, under a failing statement the history lacks a line (`Log`),
by design: the failure is logged and the ban goes on. `ban_liveness` has none either, as an
expired ban stays while its statements fail. `ban_processes` has every fault, and section 5
says which faults each theorem allows.

`CHECK_DEADLOCK FALSE` stands where a behaviour ends: the process exits (`notify_queue`), the
store is closed (`web_status`), the bound on calls (`firewall_hooks`) or on time
(`reports`) is used up. Symmetry is used only in runs without liveness properties.
In `geo_resolver` one address is enough, as the code treats addresses alike; the address
others fill the cache with is the alternative `AfterPrune` has at any time. In `web_status`
the constant `StatusAfterLogin` is `FALSE`: the limiter is explored with a login and the
snapshot without, since a request that has passed the limiter no longer looks at it. In
`reports` weeks and months are short, so that a biweekly and a monthly schedule fit.

Every module has a type invariant `TypeOK` (`NotifyTypeOK` in `NotifyQueue`). It is proved
for each module with proofs (section 5); none is listed in a run, as the other properties
evaluate every variable of the state they speak of.

## 4. Where code and documents disagree

The run `orphan_blocklist` checks one property that a comment states and the code breaks:
no ipset entry stays without a row (`bans.go:106-109`). An unban between the inserts and
the batch of `SyncBlocklist` leaves one.

The modules show these under other constants; each property is defined in its module:

| Property | Constants | What happens |
|---|---|---|
| `NoOrphanEntry` | `orphan_blocklist.cfg` with `CliProcs = {"cli1"}`, `ExternalBlocklist = FALSE`, lists `NoList` | ban by the daemon and unban by a command line do not share `banMu` |
| `NoOrphanEntry` | `ban_daemon.cfg` with `DryRunModes = {TRUE, FALSE}` | a daemon restarted in dry-run mode deletes rows but no entries |
| `NoOrphanEntry` | `ban_daemon.cfg` with `Faults = {"del"}` | a failing `ipset del` is ignored by `unban`, which then deletes the row |
| `BlocklistHonoursTable` | `orphan_blocklist.cfg` with `CliProcs = {"cli1"}`, `ExternalWhitelist = FALSE` | `SyncBlocklist` asks the snapshot in memory only, not SQLite (`lists.go:158`; `docs/architektur.md:435`, `:439`) |
| `ExpiryLiftsOnlyExpired` | `orphan_blocklist.cfg` with `CliProcs = {"cli1"}`, both lists off and `NoList`, `Durations = {1, 2}`, `MaxTimeout = 2`, `MaxClock = 2` | a command line replaces the ban while the worker holds a snapshot (`daemon.go:187`; `docs/architektur.md:415`, `:536`) |
| `ExpiryLiftsOnlyExpired` | `ban_daemon.cfg` | two whitelist syncs, a lift and a new ban while the expiry worker holds its snapshot |
| `WhitelistedNeverBanned` | `ban_daemon.cfg` | a sync runs between whitelist check and insert (`docs/architektur.md:434`); the next sync lifts the ban |
| `NoGapBehindNewest` | `query_poll.cfg` | a failing older page, or the page limit, leaves a gap behind `lastNewest` that no later poll reads (`querylog.go:102`; `docs/architektur.md:102`) |
| `WatchedIsPermanent` | `query_poll.cfg` | a client found for two domains is banned for the first in the order of a map, perhaps not the watched one, and stays with a temporary ban (`detection.go:137`; `docs/architektur.md:178`) |
| `KeptIfListed` | `list_cache.cfg` | a host name that does not resolve for once is no failure: Auto-Unban lifts its bans, or its exemption goes (`lists.go:410`; `docs/konfiguration.md:553`) |
| `KeptIfListed` | the same with `Hosts = {}` | the configuration drops the first list; the download of the second fails and the first one's cache, now at its index, stands in: the second one's bans are lifted and those of the first stay (`lists.go:298`) |
| `FreshIsCurrent` | `list_cache.cfg` | killed between ETag and rename, or the rename fails: the old list is confirmed by 304 (`lists.go:363-368`, `:295-296`) until the list changes again |
| `FreshIsCurrent` | `list_cache.cfg` with `MaxChanges = 2`, `MaxBreaks = 0` | the ETag file is not rewritten when a download fails after the list was stored under another index (`lists.go:361-363`); the second change gives the index back to the list of that ETag, and its 304 vouches for the other list's cache (`:295-296`) |
| `FreshIsCurrent` | the same with `Procs = {daemon, cli}`, `MaxBreaks = 0`, `MaxChanges = 0` | two processes cross their writes of list and ETag |
| `NeverTruncated`, `KeptWhileListed` | the same two processes | one process renames what the other has just truncated (`lists.go:352-353`); a download that fails then is replaced by an empty cache without counting as a failure, and Auto-Unban lifts the list's bans |

What the conditions of the properties of `Reports` leave out is what the code does not keep:

- `NumbersAgree` excepts a retention during the report and a row of the day before that is
  inserted late, and a row of the overview whose query failed: it shows zeros beside the
  numbers of the other queries (`report.go:564-567`). Then the attack types need not add up
  to the number of bans (`db.go:651-652`, "damit die Summe der Angriffsarten immer der
  Gesamtzahl der Sperren entspricht"), as no transaction holds the queries together.
- `AbuseCountedOnce` assumes that every report is recorded in the second of its log line; a
  failed or slow record counts too little or twice, and a rotation, or a log that cannot be
  opened (`report.go:700-702`), loses lines.
- `WindowsTile` speaks of reports cron sent without a miss: a missed or failed report is not
  repeated. After an ISO year of 53 weeks, weeks 53 and 1 follow each other, both odd
  (`report.go:153`), and the biweekly report repeats the seven days before: the property
  says that it repeats these and no others.
- `HistoryMatchesRows` excepts bans older than the retention: `PruneHistory` deletes the BAN
  line of a ban still in force (`db.go:556`).
- `WhitelistedAreLifted` excepts what the sweep brake keeps, as `docs/architektur.md:440`
  and `docs/konfiguration.md:496` say.
- `Send` computes the window once more for the subject (`report.go:122`), which after
  midnight names another one. A retention not longer than the window cuts its first day.

## 5. Proofs

The theorems have no bounds: they hold for every value of the constants that the named
assumptions of the modules admit (`ParameterAssumption`, `DataAssumption`,
`BoundAssumption`, `SizeAssumption`). TLC evaluates these in every run.

| Theorem | Statement | Assumes |
|---|---|---|
| `TypeCorrect` of each `*Proofs` module, `QueueProofs!NotifyTypeCorrect` | `Spec => []TypeOK`: also that channel, GeoIP queue and the table of the login limiter keep their limits | constants of the module |
| `BanLifecycleProofs!NeverRewritten` | `BanNeverRewritten` | the same: any processes, lists, faults |
| `BanLifecycleProofs!LockProtects` | whoever is inside `Ban` or `Unban` holds `banMu`; two threads of a process never are | the same |
| `BanLifecycleProofs!NoOrphans` | `[]NoOrphanEntry` | `OneDaemon`, `Deletes` |
| `BanLifecycleProofs!Implements` | `ImplementsLedger` | `OneDaemon`, `Deletes` |
| `BanLifecycleProofs!BansAreEnforced` | `[]EnforcedWhileBanned` | `OneDaemon`, no fault but `"del"` (`AddsAndStores`) |
| `BanLifecycleProofs!HistoryFollows` | `[]HistoryMatchesRows` | `OneWriter` |
| `QueueProofs!NeverSendsOnClosed`, `DeliversInOrder`, `DrainsCompletely`, `DaemonNeverInline` | the three invariants of `notify_queue`, and that a started notifier leaves no caller to send inline | capacity at least one |
| `QueueProofs!OneRunAtATime`, `LookupsAreBounded` | `[]SingleRun`, `[]BoundedLookups` | finitely many clients |
| `QueueProofs!LookupsAreSpaced` | `SpacedLookups` | the same |
| `QueryPollProofs!QueriesCountOnce`, `NothingIsMissed` | `[]CountedOnce`, `[]NoGapWhenComplete` | constants of the module |
| `QueryPollProofs!BansAreDeserved`, `FloodsAreBanned` | `NoFalseAlarm`, `FloodIsFound` | the same |
| `GeoResolverProofs!CacheStaysCurrent`, `RowsAreTaggedRight`, `ReadersStayOpen` | `[]AnswersCurrent`, `[]RowsMatchTag`, `[]NoReadAfterClose` | constants of the module |
| `ListCacheProofs!AddressesStay` | `KeptWhileListed` | one process (`Alone`); kills allowed |
| `ListCacheProofs!CacheIsTheList` | `[]FreshUnlessTorn` | `Alone`; kills and failing renames allowed |
| `FirewallHooksProofs!SetupLeavesItsHooks`, `RemoveLeavesNoTrace`, `ChangeLeavesNoGap`, `SetupSparesForeign` | `[]SetupEstablishes`, `[]RemoveLeavesNothing`, `[]NoGapOnChange`, `ForeignKept` | any ports, configurations, rules of others and number of calls |
| `WebStatusProofs!LockedClientsAreRefused`, `OnlyLockedFillTheTable` | `LockedIsRefused`, `[]FullMeansLocked` | any clients, requests and limits |
| `WebStatusProofs!CallsAreSpaced`, `NoCallAfterClose` | `SpacedCalls`, `[]NoCallOnClosedStore` | the same |
| `ReportsProofs!NumbersOfAReportAgree`, `ReportsCountOnce` | `[]NumbersAgree`, `[]AbuseCountedOnce` | any lengths of days, weeks and retention, any events; two months and an ISO year of the calendar begin before the first tick |
| `ReportsProofs!ReportsTile` | `WindowsTile` | the same |

What the assumptions say, and why they stand:

- `OneDaemon`: no command line at work, blocklist off, no dry run. `Deletes`: `ipset del`
  does what it is told. The counterexamples of section 4 show that `NoOrphans` needs all
  four.
- `AddsAndStores` adds to `OneDaemon` that no `ipset add` and no statement fails. TLC breaks
  `EnforcedWhileBanned` with `ban_daemon.cfg` under a dry run, `Faults = {"add"}`, `{"db"}`
  or `CliProcs = {"cli1"}`, and under `orphan_blocklist.cfg`: each assumption is needed. A
  failing `ipset del` is not excluded: it leaves an entry too much, never one too few.
- `OneWriter`: no command line, no blocklist sync, no failing statement. TLC breaks
  `HistoryMatchesRows` without any one of them. Dry runs and failing calls of ipset are
  allowed.
- The two months and the year in `ParameterAssumption` of `Reports`: the monthly window looks
  for the last month and the one before, the week for the year it belongs to, which a real
  calendar always has.
- `Alone`: one process syncs. Two of them break `FreshIsCurrent`, `NeverTruncated` and
  `KeptWhileListed` (section 4).

**No orphan entries.** `NoOrphanEntry` is not inductive: it says nothing of a thread
between two statements. `OrphanInv` adds that banMu is held inside `Ban` and `Unban`
(`MutexHeld`) and `OrderKept`: at `fwadd` the row is there, from `stored` to `delete`
the entry is gone, the batch of the reconcile has rows only, and no worker runs before
the boot ends. A row is deleted only by the thread that holds banMu and has just
deleted the entry; an entry is added only by a thread that holds banMu, or by the boot
when no one else runs, and the row is there. The refinement follows step by step: who writes rows
(`RowWriters`) and who writes entries (`EntryWriters`) are lemmas.

**Enforcement.** `EnforceInv` says that the entry about to be added lasts as long as its
row, that the batch of the reconcile has the time left of every row, seen from a moment not
after now, and that while workers run every ban in force is covered by its entry or is the
address of a thread between row and entry (`Unenforced`). Time passes in between: a row
whose end was computed at one second and an entry added at a later one still fit, since the
entry's time counts from when it is added. Timeouts past the limit of ipset end in an entry
without end (`EntryEnd`), which covers any row.

**History.** `HistoryInv` has the line and the row of an address agree unless a thread that
holds banMu is between the two; `Log` is the line of both, and a failing statement drops it.
The retention deletes a line only when it is older than that; a BAN line is not older than the
`ban_time` of its row, which is why the row then counts as `Outlived` from there on.

**Rows are not rewritten.** Rows are written by `BanInsert` and `BlInsert`, both
`INSERT OR IGNORE`, and otherwise only deleted; no lock is needed.

**Notifier.** `LockedDecision` ties a decision under the read lock to the flags, because
`StopNotifier` waits for the readers; `FlagsFollowMain` ties the flags to the phase of
the main goroutine; `WorkerDone` says that the worker ends with an empty closed
queue. `FifoNoLoss` completes the induction.

**GeoIP checks.** `OneRun` splits the count of runs by the flag: none while it is down, else
one, launched or about to be. `Workers` adds that only the goroutine that feeds has clients in
its workers, never more than `WorkerMax`; with `OneRun` that bounds the lookups.
`Remembered` says that the time of the last lookup is still in `geoSeen` while it is younger
than the interval, which is what pruning must respect.

**Poll.** `CountInv` adds to `CountedOnce` that a counted event has been seen.
`Merge` prunes both maps at the same age, and an entry exactly at the cutoff leaves
`events` (`<=`) but stays in `seen` (`>=`): only in this order is no counted event ever
forgotten in `seen`, and whatever pages return, a seen entry adds nothing. `PollInv` adds
where what was counted comes from (`Sources`: every event is in the log), how far a poll in
progress has come (`Paging`: from its cursor on, it has fetched every entry not newer than its
start or than another entry it has fetched) and what ended polls left (`Memory`: no gap
behind `lastNewest` while all were complete). Paging ends at that entry, at the cutoff or at
the end of the log, and in each case nothing older within the window is uncounted. The
proof needs `Grace` to be at least one: without the grace of `analysisCutoff` an entry on
the edge of the rate window would be pruned before it is counted. What `Analyze` counts
is then, key by key, what the log itself holds: `Count` is the size of a set, which can be
compared with the log's by inclusion, where a sum over entries would need an induction.

**Resolver.** `AnswersCurrent` needs to know of every place an answer can be in: the job that
loads rows before a swap (`JobInv`), lookups under way (`LookFits`: an answer to be stored fits
the stamp if the generation is still its own, one to be written fits the tag it carries), the
cache (`MemoryInv`) and the table (`RowInv`), which other processes write too. `FromAtLeast`
is what they share. `ReaderInv` with the read lock (`MayWrite`) keeps a reader in use
out of `closed`.

**Firewall.** A call is a sequence of commands, so its invariant speaks of what is
still to come. `Ordered` says that the stages never go back, also when a listing puts
derived commands in front. `SetupProgress`: each set, chain and wanted hook is there or its
command is left; each unwanted own hook is gone or its deletion, or the listing that will find
it, is left; before the deletions begin the old hooks are all there. At the end of the
sequence nothing is left, and what remains is the property. `RemoveProgress` is the same the
other way round. A failure or a kill only ends the claim for this call (`Going`); the
invariant of the kernel (`KernelInv`: no rule without its chain) stays, which is why the next
call converges from anything.

**Web status.** `LockedInv` ties the end of a lock to the entry it comes from, so that
pruning, which drops entries that are over or below the limit, cannot drop it. `FullInv` gives
the moment until which newcomers are refused as a lower bound of the ends in the table; that
a set of ends has a least one is taken from the well-foundedness of the naturals (`WFMin`), no
induction of our own. `CallInv`: one call at a time, the snapshot is that of the last
one, and none begins once the server stops.

**Lists.** `FilesInv` says what one process has in hand at each step of `fetchCachedLines`
and that the files hold whole lists; `OwnInv` that until the configuration changes an index
belongs to its list, and every list a sync has passed is in what it wants or marked as
failed. `FreshInv` adds `Paired`: the entity tag of an index is that of its cache, or an
older version its server will not confirm (`Stale`), or the rename is next, or the index is
`torn`. A kill or a failing rename at that point breaks exactly this, and a second change of
the configuration does elsewhere, whence the conditions of `FreshUnlessTorn`.

**Reports.** `Records` says why a report to AbuseIPDB cannot count twice: a new row has a
later second than every row the retention has deleted, the retention deletes the oldest rows
only, and every line of an old version is older than any line with a row. So what the first
row divides, log before and table from there on, stays divided whatever is stored between the
queries, and `Counts` keeps what each query has found until the report is complete; `Times`
puts new lines and rows after the end of the window. `Seen` names a midnight: a window that
ends before it has shown all its rows, and no row can join them, since one that is written
later with an older time disturbs the report; the window of today is asked for once, first, so
nothing compares with an earlier look at it. `Sent` says that no time of the schedule has
passed since the last report; `WindowsTile` is then arithmetic: two neighbouring days
that are due lie a day or a week apart, by uniqueness of quotient and remainder, or are
the starts of neighbouring months. For two weeks, the odd week after an odd one is two later
(`NextOddWeek`), or one later where a new ISO year begins after an odd number of weeks, and
there the window starts a week early (`Repeated`).

## 6. Fairness

- `BanLifecycle`: threads go on (Go's scheduler); `UnbanLock` is strongly fair, because a
  `sync.Mutex` in starvation mode hands the lock to its waiter; systemd restarts the service
  (`Boot`); the workers `ban-expiry` and `external-whitelist` run periodically.
- `NotifyQueue`: `NotifyFairSpec` assumes nothing of the worker, only callers and the timer
  of the stop; `QueuedIsDelivered` adds that a job ends, as its request has a timeout
  (`WorkerLives`).
- `GeoQueue`: goroutines go on and a lookup ends.
- `ListCache`: syncs are periodic; for each list the server answers, the body arrives and
  the disk has room again and again (strong fairness). Nothing is assumed on publishing.

- `GeoResolver`: the daily refresh comes, the steps of a job end and a reader gives its lock
  back (a read of mapped memory); nothing is assumed on lookups arriving, and a waiting
  writer keeps new readers out as `sync.RWMutex` promises.
- `WebStatus`: the server's goroutine goes on and its timers fire (`Stop`); a call of the
  provider may hang for good.

No property relies on time passing: a ban may stay in force for good if the clock stands.

## 7. Only model-checked, not modelled

Only model-checked:

- The liveness properties: the prover has neither fairness nor `ENABLED`.
- `BanLedger`, which has nothing to prove but that it is implemented.

Not modelled: overlapping networks and two notations of one target (the model has
canonical addresses); the offense level behind a duration; the
syntax of list lines; texts and requests of the
notification services; two queries with one timestamp, of which the code by design skips
the older at a page border; statements of SQLite are atomic
(WAL with a busy timeout), and the code's error path is the `"db"` fault.

- `GeoResolver`: after `Close` a lookup of the system's tool still in flight tags its row
  with the last stamp, which is why the properties except version 0.
- `FirewallHooks`: two processes that change the rules at once; a changed chain name, which
  leaves the old chain behind. A failing `-I` is ignored by the code, and the cleanup
  may then remove the old hooks without the new ones: the properties speak of calls in which
  nothing failed, and of what a later one repairs.
- `WebStatus`: pages, rendering and the live view, which only read. Several requests in
  flight may try a password before the first failure locks the client, as the code checks
  before and counts after the comparison.
- `Reports`: rendering, templates and the mail command.
- Offense levels, migrations, a rotation that fails half way, the pid file (section 8).
- Configuration (parsing without state) and installer (a sequence run once by root).

## 8. Plan

Done, in order of importance: `BanLedger` and `BanLifecycle`, the core, composed with whitelist
and blocklist syncs; `NotifyQueue`; `QueryPoll` with subdomain flood and watchlist; `GeoQueue`;
`ListCache`; `FirewallHooks`; `GeoResolver`; `WebStatus` (server and login limiter);
`Reports`. Every invariant and every action property of the passing runs is a theorem.

Left:

1. `Offenses`: levels, the progressive duration with its 64-bit wrap-around, the boundary
   between increment and cleanup (two clients, levels past the wrap-around of a word of few
   bits, the clock around the reset).
2. `RotatingFile` with failing steps, `Migrations` of two processes, the marker file of
   service messages, overlap of networks as a pure algorithm.
