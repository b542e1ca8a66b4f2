---------------------------- MODULE BanLifecycle ----------------------------
(***************************************************************************)
(* The life of a ban in adguard-shield: SQLite table active_bans, the       *)
(* kernel's ipset, the whitelist (table and in-memory snapshot), the        *)
(* goroutines of the daemon that ban and unban, CLI processes that do the   *)
(* same with a mutex of their own, crashes, reboots and the reconcile at    *)
(* start.  One action is one SQL statement, one ipset call or one mutex     *)
(* operation; everything between two of them can be interleaved.            *)
(***************************************************************************)
EXTENDS Integers, FiniteSets

CONSTANTS
    IPs,                \* ban targets, in canonical form
    StaticWhitelist,    \* WHITELIST of the configuration
    GeoWorkers,         \* goroutines of runGeoIPChecks that call Ban
    CliProcs,           \* concurrent command-line invocations
    ExternalWhitelist,  \* EXTERNAL_WHITELIST_ENABLED
    Whitelists,         \* contents a whitelist download may have
    ExternalBlocklist,  \* EXTERNAL_BLOCKLIST_ENABLED
    Blocklists,         \* contents a blocklist download may have
    AutoUnban,          \* EXTERNAL_BLOCKLIST_AUTO_UNBAN
    BlocklistDuration,  \* EXTERNAL_BLOCKLIST_BAN_DURATION, 0 is permanent
    Durations,          \* ban durations the offense levels may yield, 0 is permanent
    MaxTimeout,         \* largest timeout ipset accepts
    SweepMinCount,      \* whitelistSweepMinCount
    Retention,          \* BAN_HISTORY_RETENTION_DAYS in seconds, 0: the history is kept
    DryRunModes,        \* values of DRY_RUN a process may be started with
    Faults,             \* operations that may fail: "add", "del", "db"
    MaxClock,           \* bound: seconds the model runs for
    MaxCrashes          \* bound: crashes and reboots

Fixed == {"main", "expiry", "wlsync", "blsync"}
Workers == Fixed \cup GeoWorkers
Threads == Workers \cup CliProcs
Procs == {"daemon"} \cup CliProcs
Free == "free"
NoIP == "none"

ASSUME ThreadsAssumption ==
    /\ GeoWorkers \cap CliProcs = {}
    /\ (GeoWorkers \cup CliProcs) \cap Fixed = {}
    /\ "daemon" \notin CliProcs
    /\ Free \notin Threads

ASSUME DataAssumption ==
    /\ NoIP \notin IPs
    /\ StaticWhitelist \subseteq IPs
    /\ Whitelists \subseteq SUBSET IPs
    /\ Blocklists \subseteq SUBSET IPs
    /\ Durations \subseteq Nat
    /\ BlocklistDuration \in Nat
    /\ MaxTimeout \in Nat \ {0}
    /\ SweepMinCount \in Nat
    /\ Retention \in Nat
    /\ DryRunModes \subseteq BOOLEAN
    /\ DryRunModes # {}
    /\ ExternalWhitelist \in BOOLEAN
    /\ ExternalBlocklist \in BOOLEAN
    /\ AutoUnban \in BOOLEAN
    /\ MaxClock \in Nat
    /\ MaxCrashes \in Nat

VARIABLES
    rows,       \* active_bans: address -> row
    ipset,      \* kernel: address -> time its entry ends, Forever or Absent
    hist,       \* last BAN or UNBAN of an address in ban_history, with its time
    wlTable,    \* whitelist_cache
    wlSnap,     \* process -> Daemon.wl
    banMu,      \* process -> holder of Daemon.banMu
    pc,         \* thread -> next statement
    loc,        \* thread -> local variables
    boot,       \* progress of Daemon.Run
    dry,        \* process -> Config.DryRun
    clock,
    crashes

vars == <<rows, ipset, hist, wlTable, wlSnap, banMu, pc, loc, boot, dry, clock, crashes>>
whitelist == <<wlTable, wlSnap>>
env == <<boot, dry, clock, crashes>>

-----------------------------------------------------------------------------
(* Rows, entries and local variables.                                      *)

Sources == {"monitor", "geoip", "manual", "external-blocklist"}
Row == [until : Nat, at : Nat, source : Sources]     \* until 0: no end; at: ban_time
NoRow == [until |-> -1, at |-> 0, source |-> "none"]
NewRow(until, source) == [until |-> until, at |-> clock, source |-> source]
Banned == {ip \in IPs : rows[ip] # NoRow}

Line == [action : {"BAN", "UNBAN"}, at : Nat]
NoLine == [action |-> "none", at |-> 0]

Forever == 0
Absent == -1
Blocked == {ip \in IPs : ipset[ip] # Absent}

\* Faulty variant: a timeout beyond the limit cut down to the limit.
EntryEndCut(d) ==
    IF d = 0 THEN Forever ELSE clock + (IF d > MaxTimeout THEN MaxTimeout ELSE d)

\* The ipset entry "add ... timeout d" leaves behind, with the clamped timeout.
EntryEnd(d) == IF d = 0 \/ d > MaxTimeout THEN Forever ELSE clock + d

Expired(now) == {ip \in IPs : rows[ip].until > 0 /\ rows[ip].until <= now}
BySource(s) == {ip \in IPs : rows[ip].source = s}

NotBatched == -1
EmptyBatch == [ip \in IPs |-> NotBatched]
Batched(b) == {ip \in IPs : b[ip] # NotBatched}

Locals == [ip : IPs \cup {NoIP}, todo : SUBSET IPs, want : SUBSET IPs,
           batch : [IPs -> Nat \cup {NotBatched}], stamp : Nat, until : Nat]
NoLocals == [ip |-> NoIP, todo |-> {}, want |-> {}, batch |-> EmptyBatch, stamp |-> 0, until |-> 0]

Proc(t) == IF t \in CliProcs THEN t ELSE "daemon"
Dry(t) == dry[Proc(t)]
Ready(t) == pc[t] = "idle" /\ (t \in CliProcs \/ boot = "up")

Goto(t, label, l) ==
    /\ pc' = [pc EXCEPT ![t] = label]
    /\ loc' = [loc EXCEPT ![t] = l]

Acquire(t) ==
    /\ banMu[Proc(t)] = Free
    /\ banMu' = [banMu EXCEPT ![Proc(t)] = t]

Unlock(t) == banMu' = [banMu EXCEPT ![Proc(t)] = Free]

Done(t) == Goto(t, "idle", NoLocals) /\ Unlock(t)

-----------------------------------------------------------------------------
(* Ban: called by the poll loop, the GeoIP workers and "ban" of the CLI.   *)

Banners == {"main"} \cup GeoWorkers \cup CliProcs

SourceOf(t) ==
    CASE t = "main" -> "monitor" [] t \in GeoWorkers -> "geoip" [] OTHER -> "manual"

\* Only bans of the poll loop are temporary; 0 stands for a permanent one.
BanTimes(t) == IF t = "main" THEN Durations \cup {0} ELSE {0}

\* The whitelist in memory; a CLI process loads it on first use.
InMemory(t) == IF t \in CliProcs THEN StaticWhitelist \cup wlTable ELSE wlSnap["daemon"]

\* What isWhitelistedForBan may find: memory and table, or without the database
\* what needs no query.
Views(t) ==
    {InMemory(t) \cup wlTable} \cup
    (IF "db" \notin Faults THEN {}
     ELSE {IF t \in CliProcs THEN StaticWhitelist ELSE InMemory(t)})

BanLock(t, ip) ==
    /\ t \in Banners
    /\ Ready(t)
    /\ Acquire(t)
    /\ Goto(t, "check", [NoLocals EXCEPT !.ip = ip])
    /\ UNCHANGED <<rows, ipset, hist, whitelist, env>>

BanCheck(t) ==
    /\ pc[t] = "check"
    /\ \/ /\ \E list \in Views(t) : loc[t].ip \in list
          /\ Done(t)
       \/ /\ \E list \in Views(t) : loc[t].ip \notin list
          /\ Goto(t, "exists", loc[t])
          /\ UNCHANGED banMu
    /\ UNCHANGED <<rows, ipset, hist, whitelist, env>>

\* A new ban gets its duration (stamp) and end here, from the time of this moment.
BanExists(t) ==
    /\ pc[t] = "exists"
    /\ \/ /\ loc[t].ip \in Banned \/ Dry(t) \/ "db" \in Faults
          /\ Done(t)
       \/ /\ loc[t].ip \notin Banned /\ ~Dry(t)
          /\ \E d \in BanTimes(t) :
                Goto(t, "insert", [loc[t] EXCEPT !.stamp = d,
                                                 !.until = IF d = 0 THEN 0 ELSE clock + d])
          /\ UNCHANGED banMu
    /\ UNCHANGED <<rows, ipset, hist, whitelist, env>>

Insert(t) == rows' = [rows EXCEPT ![loc[t].ip] = NewRow(loc[t].until, SourceOf(t))]

\* Faulty variant: INSERT OR REPLACE.
BanInsertReplaces(t) ==
    /\ pc[t] = "insert"
    /\ Insert(t)
    /\ Goto(t, "fwadd", loc[t])
    /\ UNCHANGED <<ipset, hist, whitelist, banMu, env>>

\* Faulty variant: banMu guards the table only and is released after it.
BanInsertUnlocks(t) ==
    /\ pc[t] = "insert"
    /\ loc[t].ip \notin Banned
    /\ Insert(t)
    /\ Goto(t, "fwadd", loc[t])
    /\ Unlock(t)
    /\ UNCHANGED <<ipset, hist, whitelist, env>>

\* InsertBanIfAbsent: another process may have inserted since BanExists.
BanInsert(t) ==
    /\ pc[t] = "insert"
    /\ \/ /\ loc[t].ip \notin Banned
          /\ Insert(t)
          /\ Goto(t, "fwadd", loc[t])
          /\ UNCHANGED banMu
       \/ /\ loc[t].ip \in Banned \/ "db" \in Faults
          /\ Done(t)
          /\ UNCHANGED rows
    /\ UNCHANGED <<ipset, hist, whitelist, env>>

\* Faulty variant: the history is written after the lock is released.
BanFWAddUnlocks(t) ==
    /\ pc[t] = "fwadd"
    /\ ipset' = [ipset EXCEPT ![loc[t].ip] = EntryEnd(loc[t].stamp)]
    /\ Goto(t, "banhist", loc[t])
    /\ Unlock(t)
    /\ UNCHANGED <<rows, hist, whitelist, env>>

\* FW.Add with -exist replaces an entry; its failure is logged and ignored.
BanFWAdd(t) ==
    /\ pc[t] = "fwadd"
    /\ \/ ipset' = [ipset EXCEPT ![loc[t].ip] = EntryEnd(loc[t].stamp)]
       \/ "add" \in Faults /\ UNCHANGED ipset
    /\ Goto(t, "banhist", loc[t])
    /\ UNCHANGED <<rows, hist, whitelist, banMu, env>>

\* A line of the history that cannot be written is missed by nobody.
Log(action, ip) ==
    \/ hist' = [hist EXCEPT ![ip] = [action |-> action, at |-> clock]]
    \/ "db" \in Faults /\ UNCHANGED hist

BanHistory(t) ==
    /\ pc[t] = "banhist"
    /\ Log("BAN", loc[t].ip)
    /\ Done(t)
    /\ UNCHANGED <<rows, ipset, whitelist, env>>

-----------------------------------------------------------------------------
(* Unban: every list of addresses to lift (loc.todo, a snapshot) is worked  *)
(* off one address at a time, each under banMu.                             *)

UnbanLock(t) ==
    /\ pc[t] = "loop"
    /\ Acquire(t)
    /\ \E ip \in loc[t].todo :
          Goto(t, "fwdel", [loc[t] EXCEPT !.ip = ip, !.todo = @ \ {ip}])
    /\ UNCHANGED <<rows, ipset, hist, whitelist, env>>

\* Faulty variant: the test for dry-run is the wrong way round.
UnbanFWDelDryOnly(t) ==
    /\ pc[t] = "fwdel"
    /\ IF Dry(t) THEN ipset' = [ipset EXCEPT ![loc[t].ip] = Absent] ELSE UNCHANGED ipset
    /\ Goto(t, "stored", loc[t])
    /\ UNCHANGED <<rows, hist, whitelist, banMu, env>>

\* Faulty variant: an entry the kernel has dropped already makes Unban give up.
UnbanFWDelStrict(t) ==
    /\ pc[t] = "fwdel"
    /\ ipset' = [ipset EXCEPT ![loc[t].ip] = Absent]
    /\ IF ipset[loc[t].ip] = Absent THEN Goto(t, "loop", loc[t]) /\ Unlock(t)
       ELSE Goto(t, "stored", loc[t]) /\ UNCHANGED banMu
    /\ UNCHANGED <<rows, hist, whitelist, env>>

\* FW.Del comes first and its failure is ignored; a dry run deletes nothing.
UnbanFWDel(t) ==
    /\ pc[t] = "fwdel"
    /\ \/ ~Dry(t) /\ ipset' = [ipset EXCEPT ![loc[t].ip] = Absent]
       \/ (Dry(t) \/ "del" \in Faults) /\ UNCHANGED ipset
    /\ Goto(t, "stored", loc[t])
    /\ UNCHANGED <<rows, hist, whitelist, banMu, env>>

\* storedBanIP: is there a row to delete?
UnbanStored(t) ==
    /\ pc[t] = "stored"
    /\ \/ /\ loc[t].ip \in Banned
          /\ Goto(t, "delete", loc[t])
          /\ UNCHANGED banMu
       \/ /\ loc[t].ip \notin Banned \/ "db" \in Faults
          /\ Goto(t, "loop", loc[t])
          /\ Unlock(t)
    /\ UNCHANGED <<rows, ipset, hist, whitelist, env>>

UnbanDelete(t) ==
    /\ pc[t] = "delete"
    /\ \/ /\ rows' = [rows EXCEPT ![loc[t].ip] = NoRow]
          /\ Goto(t, "unbanhist", loc[t])
          /\ UNCHANGED banMu
       \/ /\ "db" \in Faults
          /\ Goto(t, "loop", loc[t])
          /\ Unlock(t)
          /\ UNCHANGED rows
    /\ UNCHANGED <<ipset, hist, whitelist, env>>

UnbanHistory(t) ==
    /\ pc[t] = "unbanhist"
    /\ Log("UNBAN", loc[t].ip)
    /\ Goto(t, "loop", loc[t])
    /\ Unlock(t)
    /\ UNCHANGED <<rows, ipset, whitelist, env>>

LoopEnd(t) ==
    /\ pc[t] = "loop"
    /\ loc[t].todo = {}
    /\ Goto(t, "idle", [NoLocals EXCEPT !.stamp = loc[t].stamp])
    /\ UNCHANGED <<rows, ipset, hist, whitelist, banMu, env>>

Unbanning(t, S) == Goto(t, "loop", [NoLocals EXCEPT !.todo = S])

\* Worker ban-expiry: the expired rows are read once, then lifted.
ExpirySnapshot(t) ==
    /\ t = "expiry"
    /\ Ready(t)
    /\ Unbanning(t, Expired(clock))
    /\ UNCHANGED <<rows, ipset, hist, whitelist, banMu, env>>

\* CLI: "unban IP", "flush", "geoip-flush" and "blocklist-flush".
CliUnban(t) ==
    /\ t \in CliProcs
    /\ Ready(t)
    /\ \E S \in {{ip} : ip \in IPs} \cup {Banned} \cup {BySource(s) : s \in Sources} :
          Unbanning(t, S)
    /\ UNCHANGED <<rows, ipset, hist, whitelist, banMu, env>>

-----------------------------------------------------------------------------
(* SyncWhitelist, in the daemon's worker and in "whitelist-sync".          *)

WlSyncs == (IF ExternalWhitelist THEN {"wlsync"} ELSE {}) \cup CliProcs

\* The download replaces the table in one transaction.
WlReplace(t, list) ==
    /\ t \in WlSyncs
    /\ Ready(t)
    /\ wlTable' = list
    /\ Goto(t, "wlload", NoLocals)
    /\ UNCHANGED <<rows, ipset, hist, wlSnap, banMu, env>>

\* A sync whose loadCaches or ActiveBans fails is over.
WlLoad(t) ==
    /\ pc[t] = "wlload"
    /\ \/ /\ wlSnap' = [wlSnap EXCEPT ![Proc(t)] = StaticWhitelist \cup wlTable]
          /\ Goto(t, "wlscan", loc[t])
       \/ /\ "db" \in Faults
          /\ Goto(t, "idle", NoLocals)
          /\ UNCHANGED wlSnap
    /\ UNCHANGED <<rows, ipset, hist, wlTable, banMu, env>>

\* whitelistSweepTooLarge: the brake on lifting most bans at once.
SweepTooLarge(lift, active) == lift > SweepMinCount /\ lift * 100 > active * 50

\* Faulty variant: the brake already holds at the least number it must exceed.
SweptEarly(lift) ==
    IF Cardinality(lift) >= SweepMinCount /\ Cardinality(lift) * 100 > Cardinality(Banned) * 50
    THEN {} ELSE lift

Swept(lift) ==
    IF SweepTooLarge(Cardinality(lift), Cardinality(Banned)) THEN {} ELSE lift

WlScan(t) ==
    /\ pc[t] = "wlscan"
    /\ \/ Unbanning(t, Swept(Banned \cap wlSnap[Proc(t)]))
       \/ "db" \in Faults /\ Goto(t, "idle", NoLocals)
    /\ UNCHANGED <<rows, ipset, hist, whitelist, banMu, env>>

\* Worker whitelist-reload runs when the external whitelist is off.
WlReload(t) ==
    /\ t = "wlsync"
    /\ ~ExternalWhitelist
    /\ Ready(t)
    /\ wlSnap' = [wlSnap EXCEPT !["daemon"] = StaticWhitelist \cup wlTable]
    /\ UNCHANGED <<rows, ipset, hist, wlTable, banMu, pc, loc, env>>

\* CLI: "whitelist-flush".
WlFlush(t) ==
    /\ t \in CliProcs
    /\ Ready(t)
    /\ wlTable' = {}
    /\ UNCHANGED <<rows, ipset, hist, wlSnap, banMu, pc, loc, env>>

-----------------------------------------------------------------------------
(* SyncBlocklist, in the daemon's worker and in "blocklist-sync".  It does  *)
(* not take banMu: rows first, then one AddBatch, then the history.         *)

BlSyncs == (IF ExternalBlocklist THEN {"blsync"} ELSE {}) \cup CliProcs

\* AddBatch sets the given entries; a fault leaves some of them out.
AddBatch(b) ==
    \E S \in (IF "add" \in Faults THEN SUBSET Batched(b) ELSE {Batched(b)}) :
        ipset' = [ip \in IPs |-> IF ip \in S THEN EntryEnd(b[ip]) ELSE ipset[ip]]

BlActive(t, desired) ==
    /\ t \in BlSyncs
    /\ Ready(t)
    /\ Goto(t, "blcand", [NoLocals EXCEPT !.want = desired, !.todo = desired \ Banned])
    /\ UNCHANGED <<rows, ipset, hist, whitelist, banMu, env>>

\* Only the whitelist in memory is asked, not the table.
BlCandidates(t) ==
    /\ pc[t] = "blcand"
    /\ Goto(t, "blinsert",
            [loc[t] EXCEPT !.todo = IF Dry(t) THEN {} ELSE @ \ InMemory(t),
                           !.stamp = IF BlocklistDuration = 0 THEN 0
                                     ELSE clock + BlocklistDuration])
    /\ UNCHANGED <<rows, ipset, hist, whitelist, banMu, env>>

\* Faulty variant: INSERT OR REPLACE.
BlInsertReplaces(t) ==
    /\ pc[t] = "blinsert"
    /\ \E ip \in loc[t].todo :
          /\ rows' = [rows EXCEPT ![ip] =
                        NewRow(loc[t].stamp, "external-blocklist")]
          /\ Goto(t, "blinsert", [loc[t] EXCEPT !.todo = @ \ {ip},
                                                !.batch[ip] = BlocklistDuration])
    /\ UNCHANGED <<ipset, hist, whitelist, banMu, env>>

BlInsert(t) ==
    /\ pc[t] = "blinsert"
    /\ \E ip \in loc[t].todo :
          \/ /\ ip \notin Banned
             /\ rows' = [rows EXCEPT ![ip] =
                           NewRow(loc[t].stamp, "external-blocklist")]
             /\ Goto(t, "blinsert", [loc[t] EXCEPT !.todo = @ \ {ip},
                                                   !.batch[ip] = BlocklistDuration])
          \/ /\ ip \in Banned \/ "db" \in Faults
             /\ Goto(t, "blinsert", [loc[t] EXCEPT !.todo = @ \ {ip}])
             /\ UNCHANGED rows
    /\ UNCHANGED <<ipset, hist, whitelist, banMu, env>>

BlAddBatch(t) ==
    /\ pc[t] = "blinsert"
    /\ loc[t].todo = {}
    /\ AddBatch(loc[t].batch)
    /\ Goto(t, "blhist", loc[t])
    /\ UNCHANGED <<rows, hist, whitelist, banMu, env>>

BlHistory(t) ==
    /\ pc[t] = "blhist"
    /\ \E ip \in Batched(loc[t].batch) :
          /\ Log("BAN", ip)
          /\ Goto(t, "blhist", [loc[t] EXCEPT !.batch[ip] = NotBatched])
    /\ UNCHANGED <<rows, ipset, whitelist, banMu, env>>

\* Bans of this source that are on no list any more are lifted, unless a
\* source could not be read (or the option is off).
BlAutoUnban(t) ==
    /\ pc[t] = "blhist"
    /\ Batched(loc[t].batch) = {}
    /\ \/ AutoUnban /\ Unbanning(t, BySource("external-blocklist") \ loc[t].want)
       \/ Unbanning(t, {})
    /\ UNCHANGED <<rows, ipset, hist, whitelist, banMu, env>>

-----------------------------------------------------------------------------
(* Daemon.Run up to the workers: boot counts its stages.  AutoUnbanGeoIP    *)
(* and reconcileFirewall run in the main goroutine.                         *)

Stages == {"down", "caches", "geoip", "expired", "active", "readd", "up"}
BootStep(from, to) == boot = from /\ pc["main"] = "idle" /\ boot' = to

\* Process p is gone: killed, crashed, or exited after SIGTERM without
\* waiting for its goroutines.
Halt(p) ==
    /\ pc' = [t \in Threads |-> IF Proc(t) = p THEN "idle" ELSE pc[t]]
    /\ loc' = [t \in Threads |-> IF Proc(t) = p THEN NoLocals ELSE loc[t]]
    /\ banMu' = [banMu EXCEPT ![p] = Free]
    /\ wlSnap' = [wlSnap EXCEPT ![p] = {}]
    /\ boot' = IF p = "daemon" THEN "down" ELSE boot

Start ==
    /\ BootStep("down", "caches")
    /\ \E mode \in DryRunModes : dry' = [dry EXCEPT !["daemon"] = mode]
    /\ UNCHANGED <<rows, ipset, hist, whitelist, banMu, pc, loc, clock, crashes>>

\* The whitelist is loaded, or Run returns with the error and the process ends.
BootCaches ==
    /\ \/ /\ BootStep("caches", "geoip")
          /\ wlSnap' = [wlSnap EXCEPT !["daemon"] = StaticWhitelist \cup wlTable]
          /\ UNCHANGED <<banMu, pc, loc>>
       \/ "db" \in Faults /\ boot = "caches" /\ Halt("daemon")
    /\ UNCHANGED <<rows, ipset, hist, wlTable, dry, clock, crashes>>

\* GeoIP bans the new configuration no longer asks for are lifted.
BootGeoIP ==
    /\ BootStep("geoip", "expired")
    /\ \E S \in SUBSET BySource("geoip") : Unbanning("main", S)
    /\ UNCHANGED <<rows, ipset, hist, whitelist, banMu, dry, clock, crashes>>

\* A query of reconcileFirewall fails: it is over and the workers begin.
ReconcileFails(from) ==
    /\ "db" \in Faults
    /\ BootStep(from, "up")
    /\ Goto("main", "idle", NoLocals)

\* reconcileFirewall: expired rows are lifted; stamp keeps its "now".
BootExpired ==
    /\ \/ /\ BootStep("expired", "active")
          /\ Goto("main", "loop", [NoLocals EXCEPT !.todo = Expired(clock), !.stamp = clock])
       \/ ReconcileFails("expired")
    /\ UNCHANGED <<rows, ipset, hist, whitelist, banMu, dry, clock, crashes>>

Remaining(row, now) == IF row.until > now THEN row.until - now ELSE 0

BootActive ==
    /\ \/ /\ BootStep("active", "readd")
          /\ loc' = [loc EXCEPT !["main"].batch =
                       [ip \in IPs |-> IF ip \in Banned
                                       THEN Remaining(rows[ip], loc["main"].stamp)
                                       ELSE NotBatched]]
          /\ UNCHANGED pc
       \/ ReconcileFails("active")
    /\ UNCHANGED <<rows, ipset, hist, whitelist, banMu, dry, clock, crashes>>

BootReadd ==
    /\ BootStep("readd", "up")
    /\ IF dry["daemon"] THEN UNCHANGED ipset ELSE AddBatch(loc["main"].batch)
    /\ loc' = [loc EXCEPT !["main"] = NoLocals]
    /\ UNCHANGED <<rows, hist, whitelist, banMu, pc, dry, clock, crashes>>

-----------------------------------------------------------------------------
(* Worker db-retention, commands that only the firewall sees, and the       *)
(* environment.                                                            *)

\* One transaction deletes the lines older than the retention, also those of bans
\* in force.  With a clock read earlier it would delete what an earlier run does.
PruneHistory ==
    /\ Retention > 0
    /\ boot = "up"
    /\ hist' = [ip \in IPs |-> IF hist[ip].at < clock - Retention THEN NoLine ELSE hist[ip]]
    /\ UNCHANGED <<rows, ipset, whitelist, banMu, pc, loc, env>>

\* A command reads the configuration, with the DRY_RUN it finds there.
CliConfig(t) ==
    /\ t \in CliProcs
    /\ Ready(t)
    /\ \E mode \in DryRunModes : dry' = [dry EXCEPT ![t] = mode]
    /\ UNCHANGED <<rows, ipset, hist, whitelist, banMu, pc, loc, boot, clock, crashes>>

Crash(p) ==
    /\ crashes < MaxCrashes
    /\ p = "daemon" => boot # "down"
    /\ Halt(p)
    /\ crashes' = crashes + 1
    /\ UNCHANGED <<rows, ipset, hist, wlTable, dry, clock>>

\* The kernel's ipsets do not survive a reboot, SQLite does.
Reboot ==
    /\ crashes < MaxCrashes
    /\ pc' = [t \in Threads |-> "idle"]
    /\ loc' = [t \in Threads |-> NoLocals]
    /\ banMu' = [p \in Procs |-> Free]
    /\ wlSnap' = [p \in Procs |-> {}]
    /\ boot' = "down"
    /\ ipset' = [ip \in IPs |-> Absent]
    /\ crashes' = crashes + 1
    /\ UNCHANGED <<rows, hist, wlTable, dry, clock>>

\* CLI: "firewall-flush" empties the ipsets, the rows stay.
FirewallFlush ==
    /\ \E t \in CliProcs : Ready(t) /\ ~dry[t]
    /\ ipset' = [ip \in IPs |-> Absent]
    /\ UNCHANGED <<rows, hist, whitelist, banMu, pc, loc, env>>

\* A second passes; the kernel drops entries whose timeout is over.
Tick ==
    /\ clock < MaxClock
    /\ clock' = clock + 1
    /\ ipset' = [ip \in IPs |-> IF ipset[ip] > 0 /\ ipset[ip] <= clock + 1
                                THEN Absent ELSE ipset[ip]]
    /\ UNCHANGED <<rows, hist, whitelist, banMu, pc, loc, boot, dry, crashes>>

-----------------------------------------------------------------------------
Init ==
    /\ rows = [ip \in IPs |-> NoRow]
    /\ ipset = [ip \in IPs |-> Absent]
    /\ hist = [ip \in IPs |-> NoLine]
    /\ wlTable = {}
    /\ wlSnap = [p \in Procs |-> {}]
    /\ banMu = [p \in Procs |-> Free]
    /\ pc = [t \in Threads |-> "idle"]
    /\ loc = [t \in Threads |-> NoLocals]
    /\ boot = "down"
    /\ dry \in [Procs -> DryRunModes]
    /\ clock = 0
    /\ crashes = 0

BanStep(t) ==
    \/ BanCheck(t) \/ BanExists(t) \/ BanInsert(t) \/ BanFWAdd(t) \/ BanHistory(t)

UnbanStep(t) ==
    \/ UnbanLock(t) \/ UnbanFWDel(t) \/ UnbanStored(t) \/ UnbanDelete(t)
    \/ UnbanHistory(t) \/ LoopEnd(t)

WhitelistStep(t) == WlLoad(t) \/ WlScan(t)

BlocklistStep(t) ==
    BlCandidates(t) \/ BlInsert(t) \/ BlAddBatch(t) \/ BlHistory(t) \/ BlAutoUnban(t)

\* A goroutine goes on with what it has begun.
Continue(t) == BanStep(t) \/ UnbanStep(t) \/ WhitelistStep(t) \/ BlocklistStep(t)

\* A goroutine or a command begins.
Begin(t) ==
    \/ \E ip \in IPs : BanLock(t, ip)
    \/ ExpirySnapshot(t)
    \/ CliUnban(t)
    \/ \E list \in Whitelists : WlReplace(t, list)
    \/ WlReload(t)
    \/ WlFlush(t)
    \/ \E desired \in Blocklists : BlActive(t, desired)
    \/ CliConfig(t)

Boot == Start \/ BootCaches \/ BootGeoIP \/ BootExpired \/ BootActive \/ BootReadd

Next ==
    \/ \E t \in Threads : Begin(t) \/ Continue(t)
    \/ Boot
    \/ \E p \in Procs : Crash(p)
    \/ Reboot
    \/ FirewallFlush
    \/ PruneHistory
    \/ Tick

Spec == Init /\ [][Next]_vars

\* Every goroutine goes on; sync.Mutex hands the lock to a waiter after 1 ms,
\* so nobody waits for banMu forever; systemd restarts the service; the
\* worker ban-expiry runs every 60 seconds.
Fairness ==
    /\ \A t \in Threads : WF_vars(Continue(t)) /\ SF_vars(UnbanLock(t))
    /\ WF_vars(Boot)
    /\ WF_vars(ExpirySnapshot("expiry"))
    /\ WF_vars(\E list \in Whitelists : WlReplace("wlsync", list))

FairSpec == Spec /\ Fairness

-----------------------------------------------------------------------------
(* Properties.                                                             *)

BanLabels == {"check", "exists", "insert", "fwadd", "banhist"}
UnbanLabels == {"fwdel", "stored", "delete", "unbanhist"}
Labels == {"idle", "loop", "wlload", "wlscan", "blcand", "blinsert", "blhist"}
            \cup BanLabels \cup UnbanLabels

\* Inside Ban or Unban, with banMu held and an address at hand.
Critical(t) == pc[t] \in BanLabels \cup UnbanLabels

\* Every variable has its type, and a thread inside Ban or Unban has an address.
SharedOK ==
    /\ rows \in [IPs -> Row \cup {NoRow}]
    /\ ipset \in [IPs -> Nat \cup {Absent}]
    /\ hist \in [IPs -> Line \cup {NoLine}]
    /\ wlTable \in SUBSET IPs
    /\ wlSnap \in [Procs -> SUBSET IPs]
    /\ banMu \in [Procs -> Threads \cup {Free}]
    /\ boot \in Stages
    /\ dry \in [Procs -> BOOLEAN]
    /\ clock \in Nat
    /\ crashes \in Nat

LocalsOK ==
    /\ pc \in [Threads -> Labels]
    /\ loc \in [Threads -> Locals]
    /\ \A t \in Threads : Critical(t) => loc[t].ip \in IPs

TypeOK == SharedOK /\ LocalsOK

\* The kernel drops no address without a row in active_bans, at no point of
\* Ban, Unban or the reconcile and whatever crashes in between: Ban writes the
\* row before the entry, Unban deletes the entry before the row
\* (bans.go, comment of unban).
NoOrphanEntry == Blocked \subseteq Banned

\* Ban and Unban run under banMu of their process.
MutexHeld == \A t \in Threads : Critical(t) => banMu[Proc(t)] = t

\* ipset deletes what it is told to.
Deletes == "del" \notin Faults

\* What the order of the statements rests on, as long as one daemon is the only
\* process that bans: its boot ends before its workers begin; the entry to add
\* has its row; the entry of the row to delete is gone, if ipset deletes; what the reconcile adds
\* again has a row; nobody touches a row without banMu.
OrderKept ==
    /\ ~dry["daemon"]
    /\ \A t \in Threads :
          /\ boot # "up" /\ t # "main" => pc[t] = "idle"
          /\ pc[t] \notin {"blcand", "blinsert", "blhist"}
          /\ pc[t] = "fwadd" => loc[t].ip \in Banned
          /\ Deletes /\ pc[t] \in {"stored", "delete"} => ipset[loc[t].ip] = Absent
    /\ boot = "readd" => pc["main"] = "idle" /\ Batched(loc["main"].batch) \subseteq Banned

OrphanInv == MutexHeld /\ OrderKept /\ (Deletes => NoOrphanEntry)

\* A ban in force is enforced for as long as its row says, no matter which
\* goroutines, restarts and reconciles touched it, except while Ban or Unban
\* is at work on that very address.
Touched(ip) == \E t \in Threads : Critical(t) /\ loc[t].ip = ip
InForce(ip) == ip \in Banned /\ (rows[ip].until = 0 \/ rows[ip].until > clock)
Covers(ip) ==
    \/ ipset[ip] = Forever
    \/ rows[ip].until > 0 /\ ipset[ip] >= rows[ip].until
EnforcedWhileBanned ==
    boot = "up" => \A ip \in IPs : InForce(ip) => Covers(ip) \/ Touched(ip)

\* History and table agree (bans.go: firewall, table and history change under
\* banMu): the last line of an address without a row is no BAN, and that of an
\* address with one is, unless the ban is older than the retention and the line is
\* deleted.  A crash may lose the line of the statement it interrupts.
LastIsBan(ip) == hist[ip].action = "BAN"
Outlived(ip) == Retention > 0 /\ rows[ip].at < clock - Retention /\ hist[ip] = NoLine
HistoryMatchesRows ==
    crashes = 0 =>
        \A ip \in IPs : \/ Touched(ip)
                        \/ IF ip \in Banned THEN LastIsBan(ip) \/ Outlived(ip) ELSE ~LastIsBan(ip)

\* A ban, once written, keeps its end and its source until it is lifted,
\* whoever else detects the address meanwhile, in this or another process.
KeepsRows == \A ip \in IPs : ip \in Banned /\ ip \in Banned' => rows'[ip] = rows[ip]
BanNeverRewritten == [][KeepsRows]_vars

\* Worker ban-expiry lifts only bans whose time is over ("expired" in the
\* history), although it acts on a snapshot.
ExpiryLiftsOnlyExpired ==
    [][\A ip \in Banned \ Banned' :
         pc["expiry"] = "delete" /\ pc'["expiry"] # "delete" => ip \in Expired(clock)]_vars

\* An address both banned and on the whitelist of the settled daemon.
WhitelistedNeverBanned ==
    boot = "up" /\ (\A t \in Threads : pc[t] = "idle")
        => Banned \cap (wlSnap["daemon"] \cup wlTable) = {}

\* An address entered from the command line takes effect at once: no ban is
\* chosen for it (docs/architektur.md, "Whitelist-Logik").
BlocklistHonoursTable ==
    [][pc["blsync"] = "blcand" /\ pc'["blsync"] = "blinsert"
         => loc'["blsync"].todo \cap wlTable = {}]_vars

\* A temporary ban whose time is over is lifted, across crashes and restarts.
ExpiredAreLifted ==
    \A ip \in IPs : ip \in Expired(clock) ~> ip \notin Expired(clock)

\* An address that stays on every whitelist from some time on does not stay banned,
\* unless the syncs find so many bans to lift that they lift none
\* (docs/konfiguration.md, "Sicherheitsbremse").
BrakeHolds ==
    LET lift == Banned \cap (StaticWhitelist \cup wlTable)
    IN  Cardinality(lift) > SweepMinCount /\ 2 * Cardinality(lift) > Cardinality(Banned)
WhitelistedAreLifted ==
    \A ip \in IPs : <>[](ip \in wlTable) => []<>(ip \notin Banned \/ BrakeHolds)

\* The lifecycle keeps the promise of the ledger.
Ledger == INSTANCE BanLedger WITH banned <- Banned, blocked <- Blocked
ImplementsLedger == Ledger!Spec
=============================================================================
