------------------------------- MODULE GeoQueue -------------------------------
(***************************************************************************)
(* The queue of clients whose country is to be looked up: polls add to a     *)
(* bounded set, one background run at a time takes the whole set and hands   *)
(* it to a few workers, and a client is looked up at most once per interval. *)
(***************************************************************************)
EXTENDS Integers, FiniteSets, FiniteSetsExt

CONSTANTS
    Clients,
    Exempt,         \* clients on the whitelist or in a private network
    Foreign,        \* clients whose country is to be blocked
    Runs,           \* goroutines runGeoIPChecks may be started in
    WorkerMax,      \* geoIPWorkers
    PendingMax,     \* geoIPPendingMax
    Interval,       \* geoIPCheckInterval
    MaxClock        \* bound: ticks

ASSUME ParameterAssumption ==
    /\ IsFiniteSet(Clients)
    /\ Exempt \subseteq Clients
    /\ Foreign \subseteq Clients
    /\ {WorkerMax, PendingMax, Interval} \subseteq Nat \ {0}
    /\ MaxClock \in Nat

VARIABLES
    pending,        \* Daemon.geoPending
    geoRunning,     \* Daemon.geoRunning
    poll,           \* the main loop: "idle", or "go" when it owes a goroutine
    run,            \* goroutine -> "off", "loop" or "feed"
    batch,          \* goroutine -> clients still to be fed
    checking,       \* goroutine -> clients its workers look at
    looking,        \* clients being looked up
    geoSeen,        \* Daemon.geoSeen, Never for no entry
    banned,         \* clients with a row in active_bans
    clock,
    cancelled,      \* ctx.Done of the daemon
    lastLookup      \* history: when a client's last lookup began

queueVars == <<pending, geoRunning, poll>>
runVars == <<run, batch, checking>>
checkVars == <<looking, geoSeen, banned, lastLookup>>
vars == <<queueVars, runVars, checkVars, clock, cancelled>>

Never == -1

-----------------------------------------------------------------------------
(* scheduleGeoIP: one critical section under geoMu, then "go".             *)

\* Faulty variant: the flag is not raised.
ScheduleUnflagged(ips) ==
    /\ poll = "idle"
    /\ \E kept \in SUBSET (ips \ pending) :
          /\ Cardinality(kept) = Min({Cardinality(ips \ pending), PendingMax - Cardinality(pending)})
          /\ pending' = pending \cup kept
    /\ poll' = IF ~geoRunning THEN "go" ELSE "idle"
    /\ UNCHANGED <<geoRunning, runVars, checkVars, clock, cancelled>>

\* New clients are taken in until the queue is full; the rest is dropped.
Schedule(ips) ==
    /\ poll = "idle"
    /\ ips # {}
    /\ \E kept \in SUBSET (ips \ pending) :
          /\ Cardinality(kept) = Min({Cardinality(ips \ pending), PendingMax - Cardinality(pending)})
          /\ pending' = pending \cup kept
    /\ geoRunning' = TRUE
    /\ poll' = IF ~geoRunning THEN "go" ELSE "idle"
    /\ UNCHANGED <<runVars, checkVars, clock, cancelled>>

Launch(r) ==
    /\ poll = "go"
    /\ run[r] = "off"
    /\ run' = [run EXCEPT ![r] = "loop"]
    /\ poll' = "idle"
    /\ UNCHANGED <<pending, geoRunning, batch, checking, checkVars, clock, cancelled>>

-----------------------------------------------------------------------------
(* runGeoIPChecks.                                                         *)

\* Faulty variant: the flag stays up.
RunEndsFlagged(r) ==
    /\ run[r] = "loop"
    /\ pending = {} \/ cancelled
    /\ pending' = {}
    /\ run' = [run EXCEPT ![r] = "off"]
    /\ UNCHANGED <<geoRunning, poll, batch, checking, checkVars, clock, cancelled>>

\* Nothing left, or the daemon stops: the flag falls under the same lock.
RunEnds(r) ==
    /\ run[r] = "loop"
    /\ pending = {} \/ cancelled
    /\ pending' = {}
    /\ geoRunning' = FALSE
    /\ run' = [run EXCEPT ![r] = "off"]
    /\ UNCHANGED <<poll, batch, checking, checkVars, clock, cancelled>>

RunTakes(r) ==
    /\ run[r] = "loop"
    /\ pending # {} /\ ~cancelled
    /\ batch' = [batch EXCEPT ![r] = pending]
    /\ pending' = {}
    /\ run' = [run EXCEPT ![r] = "feed"]
    /\ UNCHANGED <<geoRunning, poll, checking, checkVars, clock, cancelled>>

\* A worker takes a client from the channel.
Feed(r, ip) ==
    /\ run[r] = "feed"
    /\ ip \in batch[r]
    /\ Cardinality(checking[r]) < WorkerMax
    /\ batch' = [batch EXCEPT ![r] = @ \ {ip}]
    /\ checking' = [checking EXCEPT ![r] = @ \cup {ip}]
    /\ UNCHANGED <<queueVars, run, checkVars, clock, cancelled>>

\* The daemon stops: the rest of the batch is not fed.
FeedCut(r) ==
    /\ run[r] = "feed"
    /\ cancelled
    /\ batch[r] # {}
    /\ batch' = [batch EXCEPT ![r] = {}]
    /\ UNCHANGED <<queueVars, run, checking, checkVars, clock, cancelled>>

\* Faulty variant: the channel is closed, but the workers are not waited for.
BatchEndsEarly(r) ==
    /\ run[r] = "feed"
    /\ batch[r] = {}
    /\ run' = [run EXCEPT ![r] = "loop"]
    /\ UNCHANGED <<queueVars, batch, checking, checkVars, clock, cancelled>>

\* close(ch) and wg.Wait.
BatchEnds(r) ==
    /\ run[r] = "feed"
    /\ batch[r] = {} /\ checking[r] = {}
    /\ run' = [run EXCEPT ![r] = "loop"]
    /\ UNCHANGED <<queueVars, batch, checking, checkVars, clock, cancelled>>

-----------------------------------------------------------------------------
(* checkGeoIP of one client in one worker.                                 *)

Leave(r, ip) == checking' = [checking EXCEPT ![r] = @ \ {ip}]

Due(ip, now) == geoSeen[ip] = Never \/ now - geoSeen[ip] >= Interval

\* Faulty variant: entries are pruned after half an interval.
PrunedEarly(f, now) == [c \in Clients |-> IF f[c] # Never /\ f[c] <= now - (Interval \div 2)
                                          THEN Never ELSE f[c]]

Pruned(f, now) == [c \in Clients |-> IF f[c] # Never /\ f[c] < now - 2 * Interval
                                     THEN Never ELSE f[c]]

CheckSkips(r, ip) ==
    /\ ip \in checking[r] \ looking
    /\ ip \in Exempt \/ ~Due(ip, clock)
    /\ Leave(r, ip)
    /\ UNCHANGED <<queueVars, run, batch, checkVars, clock, cancelled>>

\* The client is marked before it is known whether the lookup succeeds.
CheckMarks(r, ip) ==
    /\ ip \in checking[r] \ looking
    /\ ip \notin Exempt /\ Due(ip, clock)
    /\ geoSeen' = Pruned([geoSeen EXCEPT ![ip] = clock], clock)
    /\ IF ip \in banned
       THEN Leave(r, ip) /\ UNCHANGED <<looking, lastLookup>>
       ELSE /\ looking' = looking \cup {ip}
            /\ lastLookup' = [lastLookup EXCEPT ![ip] = clock]
            /\ UNCHANGED checking
    /\ UNCHANGED <<queueVars, run, batch, banned, clock, cancelled>>

\* The lookup fails, or finds a country that is to be banned or not.
CheckEnds(r, ip) ==
    /\ ip \in checking[r] \cap looking
    /\ looking' = looking \ {ip}
    /\ Leave(r, ip)
    /\ \/ ip \in Foreign /\ banned' = banned \cup {ip}
       \/ UNCHANGED banned
    /\ UNCHANGED <<queueVars, run, batch, geoSeen, lastLookup, clock, cancelled>>

-----------------------------------------------------------------------------
\* Bans end elsewhere.
Lift(ip) ==
    /\ ip \in banned
    /\ banned' = banned \ {ip}
    /\ UNCHANGED <<queueVars, runVars, looking, geoSeen, lastLookup, clock, cancelled>>

Cancel ==
    /\ ~cancelled
    /\ cancelled' = TRUE
    /\ UNCHANGED <<queueVars, runVars, checkVars, clock>>

Tick ==
    /\ clock < MaxClock
    /\ clock' = clock + 1
    /\ UNCHANGED <<queueVars, runVars, checkVars, cancelled>>

Init ==
    /\ pending = {}
    /\ geoRunning = FALSE
    /\ poll = "idle"
    /\ run = [r \in Runs |-> "off"]
    /\ batch = [r \in Runs |-> {}]
    /\ checking = [r \in Runs |-> {}]
    /\ looking = {}
    /\ geoSeen = [c \in Clients |-> Never]
    /\ banned = {}
    /\ clock = 0
    /\ cancelled = FALSE
    /\ lastLookup = [c \in Clients |-> Never]

Check(r, ip) == CheckSkips(r, ip) \/ CheckMarks(r, ip) \/ CheckEnds(r, ip)

Runner(r) == RunEnds(r) \/ RunTakes(r) \/ FeedCut(r) \/ BatchEnds(r)

Step(r) ==
    \/ Launch(r)
    \/ Runner(r)
    \/ \E ip \in Clients : Feed(r, ip) \/ Check(r, ip)

Next ==
    \/ \E ips \in SUBSET Clients : Schedule(ips)
    \/ \E r \in Runs : Step(r)
    \/ \E ip \in Clients : Lift(ip)
    \/ Cancel
    \/ Tick

Spec == Init /\ [][Next]_vars

\* The scheduler runs every goroutine, and a lookup ends.
FairSpec == Spec /\ WF_vars(\E r \in Runs : Step(r))

-----------------------------------------------------------------------------
(* Properties.                                                             *)

\* Every variable has its type, and the queue is never longer than its limit.
TypeOK ==
    /\ pending \in SUBSET Clients /\ Cardinality(pending) <= PendingMax
    /\ geoRunning \in BOOLEAN
    /\ poll \in {"idle", "go"}
    /\ run \in [Runs -> {"off", "loop", "feed"}]
    /\ batch \in [Runs -> SUBSET Clients]
    /\ checking \in [Runs -> SUBSET Clients]
    /\ looking \in SUBSET Clients
    /\ geoSeen \in [Clients -> Nat \cup {Never}]
    /\ banned \in SUBSET Clients
    /\ clock \in Nat
    /\ cancelled \in BOOLEAN
    /\ lastLookup \in [Clients -> Nat \cup {Never}]

\* The flag is up exactly while one run exists or is about to: polls and the
\* end of a run never start two runs and never leave the queue without one.
SingleRun ==
    Cardinality({r \in Runs : run[r] # "off"}) + (IF poll = "go" THEN 1 ELSE 0)
        = IF geoRunning THEN 1 ELSE 0

\* At most WorkerMax clients are looked at in parallel, over all runs
\* (docs/architektur.md, "bis zu 4 parallel").
BoundedLookups == Cardinality({w \in Runs \X Clients : w[2] \in checking[w[1]]}) <= WorkerMax

\* A client is looked up at most once per interval, although entries of geoSeen
\* are pruned (docs/architektur.md, "je IP höchstens einmal pro GEOIP_CHECK_INTERVAL").
SpacedLookups ==
    [][\A ip \in Clients :
         lastLookup'[ip] # lastLookup[ip] /\ lastLookup[ip] # Never
           => lastLookup'[ip] - lastLookup[ip] >= Interval]_vars

\* A client taken into the queue is handed to a worker, unless the daemon stops.
ScheduledIsChecked ==
    \A ip \in Clients : ip \in pending ~> cancelled \/ \E r \in Runs : ip \in checking[r]
=============================================================================
