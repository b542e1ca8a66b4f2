------------------------- MODULE BanLifecycleProofs -------------------------
(* What holds of the ban lifecycle for every set of addresses, every number *)
(* of goroutines and processes, and every bound of the model.                *)
EXTENDS BanLifecycle, TLAPS

-----------------------------------------------------------------------------
(* Types.                                                                  *)

\* A goroutine that goes on at a label of its own disturbs no other.
LEMMA GotoTyped ==
    ASSUME NEW t \in Threads, NEW label \in Labels, NEW l \in Locals,
           LocalsOK, Goto(t, label, l),
           label \in BanLabels \cup UnbanLabels => l.ip \in IPs
    PROVE  LocalsOK'
  BY DEF LocalsOK, Goto, Critical

LEMMA NoLocalsTyped == NoLocals \in Locals
  BY DEF NoLocals, Locals, EmptyBatch, NotBatched

LEMMA MutexTyped ==
    ASSUME NEW t \in Threads, banMu \in [Procs -> Threads \cup {Free}],
           Acquire(t) \/ Unlock(t) \/ UNCHANGED banMu
    PROVE  banMu' \in [Procs -> Threads \cup {Free}]
  BY DEF Acquire, Unlock

LEMMA EntryTyped ==
    ASSUME NEW d \in Nat, clock \in Nat
    PROVE  EntryEnd(d) \in Nat
  BY DEF EntryEnd, Forever

LEMMA LogTyped ==
    ASSUME NEW ip \in IPs, NEW action \in {"BAN", "UNBAN"}, clock \in Nat,
           hist \in [IPs -> Line \cup {NoLine}], Log(action, ip)
    PROVE  hist' \in [IPs -> Line \cup {NoLine}]
<1>1. [action |-> action, at |-> clock] \in Line
  BY DEF Line
<1> QED  BY <1>1 DEF Log

\* A goroutine is done or goes on where it is, and has its address.
LEMMA DoneTyped ==
    ASSUME NEW t \in Threads, LocalsOK, Done(t)
    PROVE  LocalsOK'
<1>1. "idle" \in Labels /\ "idle" \notin BanLabels \cup UnbanLabels
  BY DEF Labels, BanLabels, UnbanLabels
<1> QED  BY <1>1, NoLocalsTyped, GotoTyped DEF Done

LEMMA GoOnTyped ==
    ASSUME NEW t \in Threads, NEW label \in Labels, LocalsOK, Goto(t, label, loc[t]),
           label \in BanLabels \cup UnbanLabels => Critical(t)
    PROVE  LocalsOK'
<1>1. loc[t] \in Locals /\ (Critical(t) => loc[t].ip \in IPs)
  BY DEF LocalsOK
<1> QED  BY <1>1, GotoTyped

\* A step of Ban keeps the types.
LEMMA BanTyped ==
    ASSUME TypeOK, NEW t \in Threads, (\E ip \in IPs : BanLock(t, ip)) \/ BanStep(t)
    PROVE  TypeOK'
<1> USE DEF Labels, BanLabels, UnbanLabels
<1>1. LocalsOK /\ SharedOK /\ loc[t] \in Locals
  BY DEF LocalsOK, TypeOK
<1>2. ASSUME NEW ip \in IPs, BanLock(t, ip)
      PROVE  TypeOK'
  <2>1. [NoLocals EXCEPT !.ip = ip] \in Locals /\ [NoLocals EXCEPT !.ip = ip].ip = ip
    BY NoLocalsTyped DEF Locals
  <2>2. LocalsOK'
    BY <1>1, <1>2, <2>1, GotoTyped DEF BanLock
  <2>3. SharedOK'
    BY <1>1, <1>2, MutexTyped DEF SharedOK, BanLock, whitelist, env
  <2> QED  BY <2>2, <2>3 DEF TypeOK
<1>3. CASE BanCheck(t)
  <2>1. LocalsOK'
    BY <1>1, <1>3, DoneTyped, GoOnTyped DEF BanCheck, Critical
  <2>2. SharedOK'
    BY <1>1, <1>3, MutexTyped DEF SharedOK, BanCheck, Done, whitelist, env
  <2> QED  BY <2>1, <2>2 DEF TypeOK
<1>4. CASE BanExists(t)
  <2>0. ASSUME NEW d \in BanTimes(t)
        PROVE  d \in Nat /\ (IF d = 0 THEN 0 ELSE clock + d) \in Nat
    BY <1>1, <2>0, DataAssumption DEF BanTimes, SharedOK
  <2>1. LocalsOK'
    <3>1. CASE Done(t)
      BY <1>1, <3>1, DoneTyped
    <3>2. ASSUME NEW d \in BanTimes(t),
                 Goto(t, "insert", [loc[t] EXCEPT !.stamp = d,
                                                  !.until = IF d = 0 THEN 0 ELSE clock + d])
          PROVE  LocalsOK'
      <4>1. loc[t].ip \in IPs
        BY <1>1, <1>4 DEF BanExists, LocalsOK, Critical
      <4>2. LET l == [loc[t] EXCEPT !.stamp = d, !.until = IF d = 0 THEN 0 ELSE clock + d]
            IN  l \in Locals /\ l.ip \in IPs
        BY <1>1, <2>0, <4>1 DEF Locals
      <4> QED  BY <1>1, <3>2, <4>2, GotoTyped
    <3> QED  BY <1>4, <3>1, <3>2 DEF BanExists
  <2>2. SharedOK'
    BY <1>1, <1>4, MutexTyped DEF SharedOK, BanExists, Done, whitelist, env
  <2> QED  BY <2>1, <2>2 DEF TypeOK
<1>5. CASE BanInsert(t)
  <2>1. LocalsOK'
    BY <1>1, <1>5, DoneTyped, GoOnTyped DEF BanInsert, Critical
  <2>2. rows' \in [IPs -> Row \cup {NoRow}]
    <3>1. NewRow(loc[t].until, SourceOf(t)) \in Row
      BY <1>1 DEF NewRow, Row, SourceOf, Sources, Locals, SharedOK
    <3> QED  BY <1>1, <1>5, <3>1 DEF SharedOK, BanInsert, Insert
  <2>3. SharedOK'
    BY <1>1, <1>5, <2>2, MutexTyped DEF SharedOK, BanInsert, Done, whitelist, env
  <2> QED  BY <2>1, <2>3 DEF TypeOK
<1>6. CASE BanFWAdd(t)
  <2>1. LocalsOK'
    BY <1>1, <1>6, GoOnTyped DEF BanFWAdd, Critical
  <2>2. EntryEnd(loc[t].stamp) \in Nat
    BY <1>1, EntryTyped DEF Locals, SharedOK
  <2>3. SharedOK'
    BY <1>1, <1>6, <2>2 DEF SharedOK, BanFWAdd, whitelist, env
  <2> QED  BY <2>1, <2>3 DEF TypeOK
<1>7. CASE BanHistory(t)
  <2>1. LocalsOK'
    BY <1>1, <1>7, DoneTyped DEF BanHistory
  <2>2. hist' \in [IPs -> Line \cup {NoLine}]
    BY <1>1, <1>7, LogTyped DEF BanHistory, SharedOK, LocalsOK, Critical
  <2>3. SharedOK'
    BY <1>1, <1>7, <2>2, MutexTyped DEF SharedOK, BanHistory, Done, whitelist, env
  <2> QED  BY <2>1, <2>3 DEF TypeOK
<1> QED  BY <1>2, <1>3, <1>4, <1>5, <1>6, <1>7 DEF BanStep

\* A goroutine sets out to lift a set of bans.
LEMMA UnbanningTyped ==
    ASSUME NEW t \in Threads, NEW S \in SUBSET IPs, LocalsOK, Unbanning(t, S)
    PROVE  LocalsOK'
<1>1. "loop" \in Labels /\ "loop" \notin BanLabels \cup UnbanLabels
  BY DEF Labels, BanLabels, UnbanLabels
<1>2. [NoLocals EXCEPT !.todo = S] \in Locals
  BY NoLocalsTyped DEF Locals
<1> QED  BY <1>1, <1>2, GotoTyped DEF Unbanning

\* A step of Unban, and the start of a list of them, keeps the types.
LEMMA UnbanTyped ==
    ASSUME TypeOK, NEW t \in Threads,
           UnbanStep(t) \/ ExpirySnapshot(t) \/ CliUnban(t)
    PROVE  TypeOK'
<1> USE DEF Labels, BanLabels, UnbanLabels
<1>1. LocalsOK /\ SharedOK /\ loc[t] \in Locals
  BY DEF LocalsOK, TypeOK
<1>2. CASE UnbanLock(t)
  <2>1. ASSUME NEW ip \in loc[t].todo
        PROVE  LET l == [loc[t] EXCEPT !.ip = ip, !.todo = @ \ {ip}]
               IN  l \in Locals /\ l.ip \in IPs
    BY <1>1 DEF Locals
  <2>2. LocalsOK'
    BY <1>1, <1>2, <2>1, GotoTyped DEF UnbanLock
  <2>3. SharedOK'
    BY <1>1, <1>2, MutexTyped DEF SharedOK, UnbanLock, whitelist, env
  <2> QED  BY <2>2, <2>3 DEF TypeOK
<1>3. CASE UnbanFWDel(t)
  <2>1. LocalsOK'
    BY <1>1, <1>3, GoOnTyped DEF UnbanFWDel, Critical
  <2>2. SharedOK'
    BY <1>1, <1>3 DEF SharedOK, UnbanFWDel, whitelist, env, Absent
  <2> QED  BY <2>1, <2>2 DEF TypeOK
<1>4. CASE UnbanStored(t)
  <2>1. LocalsOK'
    BY <1>1, <1>4, GoOnTyped DEF UnbanStored, Critical
  <2>2. SharedOK'
    BY <1>1, <1>4, MutexTyped DEF SharedOK, UnbanStored, whitelist, env
  <2> QED  BY <2>1, <2>2 DEF TypeOK
<1>5. CASE UnbanDelete(t)
  <2>1. LocalsOK'
    BY <1>1, <1>5, GoOnTyped DEF UnbanDelete, Critical
  <2>2. SharedOK'
    BY <1>1, <1>5, MutexTyped DEF SharedOK, UnbanDelete, whitelist, env
  <2> QED  BY <2>1, <2>2 DEF TypeOK
<1>6. CASE UnbanHistory(t)
  <2>1. LocalsOK'
    BY <1>1, <1>6, GoOnTyped DEF UnbanHistory
  <2>2. hist' \in [IPs -> Line \cup {NoLine}]
    BY <1>1, <1>6, LogTyped DEF UnbanHistory, SharedOK, LocalsOK, Critical
  <2>3. SharedOK'
    BY <1>1, <1>6, <2>2, MutexTyped DEF SharedOK, UnbanHistory, whitelist, env
  <2> QED  BY <2>1, <2>3 DEF TypeOK
<1>7. CASE LoopEnd(t)
  <2>1. [NoLocals EXCEPT !.stamp = loc[t].stamp] \in Locals
    BY <1>1, NoLocalsTyped DEF Locals
  <2>2. LocalsOK'
    BY <1>1, <1>7, <2>1, GotoTyped DEF LoopEnd
  <2>3. SharedOK'
    BY <1>1, <1>7 DEF SharedOK, LoopEnd, whitelist, env
  <2> QED  BY <2>2, <2>3 DEF TypeOK
<1>8. CASE ExpirySnapshot(t)
  <2>1. LocalsOK'
    BY <1>1, <1>8, UnbanningTyped DEF ExpirySnapshot, Expired
  <2>2. SharedOK'
    BY <1>1, <1>8 DEF SharedOK, ExpirySnapshot, whitelist, env
  <2> QED  BY <2>1, <2>2 DEF TypeOK
<1>9. CASE CliUnban(t)
  <2>1. LocalsOK'
    BY <1>1, <1>9, UnbanningTyped DEF CliUnban, Banned, BySource
  <2>2. SharedOK'
    BY <1>1, <1>9 DEF SharedOK, CliUnban, whitelist, env
  <2> QED  BY <2>1, <2>2 DEF TypeOK
<1> QED  BY <1>2, <1>3, <1>4, <1>5, <1>6, <1>7, <1>8, <1>9 DEF UnbanStep

\* So does SyncWhitelist with its reload and flush.
LEMMA WhitelistTyped ==
    ASSUME TypeOK, NEW t \in Threads,
           \/ \E list \in Whitelists : WlReplace(t, list)
           \/ WlReload(t) \/ WlFlush(t) \/ WhitelistStep(t)
    PROVE  TypeOK'
<1> USE DEF Labels, BanLabels, UnbanLabels
<1>1. LocalsOK /\ SharedOK
  BY DEF TypeOK
<1>2. ASSUME NEW list \in Whitelists, WlReplace(t, list)
      PROVE  TypeOK'
  <2>1. LocalsOK'
    BY <1>1, <1>2, NoLocalsTyped, GotoTyped DEF WlReplace
  <2>2. SharedOK'
    BY <1>1, <1>2, DataAssumption DEF SharedOK, WlReplace, env
  <2> QED  BY <2>1, <2>2 DEF TypeOK
<1>3. CASE WlReload(t)
  <2>1. LocalsOK'
    BY <1>1, <1>3 DEF WlReload, LocalsOK, Critical
  <2>2. SharedOK'
    BY <1>1, <1>3, DataAssumption DEF SharedOK, WlReload, env
  <2> QED  BY <2>1, <2>2 DEF TypeOK
<1>4. CASE WlFlush(t)
  <2>1. LocalsOK'
    BY <1>1, <1>4 DEF WlFlush, LocalsOK, Critical
  <2>2. SharedOK'
    BY <1>1, <1>4 DEF SharedOK, WlFlush, env
  <2> QED  BY <2>1, <2>2 DEF TypeOK
<1>5. CASE WlLoad(t)
  <2>1. LocalsOK'
    BY <1>1, <1>5, GoOnTyped, NoLocalsTyped, GotoTyped DEF WlLoad
  <2>2. SharedOK'
    BY <1>1, <1>5, DataAssumption DEF SharedOK, WlLoad, env
  <2> QED  BY <2>1, <2>2 DEF TypeOK
<1>6. CASE WlScan(t)
  <2>1. Swept(Banned \cap wlSnap[Proc(t)]) \in SUBSET IPs
    BY DEF Swept, Banned
  <2>2. LocalsOK'
    BY <1>1, <1>6, <2>1, UnbanningTyped, NoLocalsTyped, GotoTyped DEF WlScan
  <2>3. SharedOK'
    BY <1>1, <1>6 DEF SharedOK, WlScan, whitelist, env
  <2> QED  BY <2>2, <2>3 DEF TypeOK
<1> QED  BY <1>2, <1>3, <1>4, <1>5, <1>6 DEF WhitelistStep

LEMMA BatchTyped ==
    ASSUME ipset \in [IPs -> Nat \cup {Absent}], clock \in Nat, NEW b \in [IPs -> Nat \cup {NotBatched}],
           AddBatch(b)
    PROVE  ipset' \in [IPs -> Nat \cup {Absent}]
<1>1. \A ip \in Batched(b) : EntryEnd(b[ip]) \in Nat
  BY EntryTyped DEF Batched, NotBatched
<1> QED  BY <1>1 DEF AddBatch

\* So does SyncBlocklist.
LEMMA BlocklistTyped ==
    ASSUME TypeOK, NEW t \in Threads,
           \/ \E desired \in Blocklists : BlActive(t, desired)
           \/ BlocklistStep(t)
    PROVE  TypeOK'
<1> USE DEF Labels, BanLabels, UnbanLabels
<1>1. LocalsOK /\ SharedOK /\ loc[t] \in Locals
  BY DEF TypeOK, LocalsOK
<1>2. ASSUME NEW desired \in Blocklists, BlActive(t, desired)
      PROVE  TypeOK'
  <2>1. [NoLocals EXCEPT !.want = desired, !.todo = desired \ Banned] \in Locals
    BY NoLocalsTyped, DataAssumption DEF Locals
  <2>2. LocalsOK'
    BY <1>1, <1>2, <2>1, GotoTyped DEF BlActive
  <2>3. SharedOK'
    BY <1>1, <1>2 DEF SharedOK, BlActive, whitelist, env
  <2> QED  BY <2>2, <2>3 DEF TypeOK
<1>3. CASE BlCandidates(t)
  <2>1. [loc[t] EXCEPT !.todo = IF Dry(t) THEN {} ELSE @ \ InMemory(t),
                       !.stamp = IF BlocklistDuration = 0 THEN 0
                                 ELSE clock + BlocklistDuration] \in Locals
    <3>1. (IF Dry(t) THEN {} ELSE loc[t].todo \ InMemory(t)) \in SUBSET IPs
      BY <1>1 DEF Locals
    <3>2. (IF BlocklistDuration = 0 THEN 0 ELSE clock + BlocklistDuration) \in Nat
      BY <1>1, DataAssumption DEF SharedOK
    <3> QED  BY <1>1, <3>1, <3>2 DEF Locals
  <2>2. LocalsOK'
    BY <1>1, <1>3, <2>1, GotoTyped DEF BlCandidates
  <2>3. SharedOK'
    BY <1>1, <1>3 DEF SharedOK, BlCandidates, whitelist, env
  <2> QED  BY <2>2, <2>3 DEF TypeOK
<1>4. CASE BlInsert(t)
  <2>1. ASSUME NEW ip \in loc[t].todo
        PROVE  /\ ip \in IPs
               /\ [loc[t] EXCEPT !.todo = @ \ {ip}, !.batch[ip] = BlocklistDuration] \in Locals
               /\ [loc[t] EXCEPT !.todo = @ \ {ip}] \in Locals
               /\ NewRow(loc[t].stamp, "external-blocklist") \in Row
    BY <1>1, DataAssumption DEF Locals, Row, Sources, NewRow, SharedOK
  <2>2. LocalsOK'
    BY <1>1, <1>4, <2>1, GotoTyped DEF BlInsert
  <2>3. SharedOK'
    BY <1>1, <1>4, <2>1 DEF SharedOK, BlInsert, whitelist, env
  <2> QED  BY <2>2, <2>3 DEF TypeOK
<1>5. CASE BlAddBatch(t)
  <2>1. LocalsOK'
    BY <1>1, <1>5, GoOnTyped DEF BlAddBatch
  <2>2. ipset' \in [IPs -> Nat \cup {Absent}]
    BY <1>1, <1>5, BatchTyped DEF BlAddBatch, SharedOK, Locals
  <2>3. SharedOK'
    BY <1>1, <1>5, <2>2 DEF SharedOK, BlAddBatch, whitelist, env
  <2> QED  BY <2>1, <2>3 DEF TypeOK
<1>6. CASE BlHistory(t)
  <2>1. ASSUME NEW ip \in Batched(loc[t].batch)
        PROVE  [loc[t] EXCEPT !.batch[ip] = NotBatched] \in Locals
    BY <1>1 DEF Locals, NotBatched, Batched
  <2>2. LocalsOK'
    BY <1>1, <1>6, <2>1, GotoTyped DEF BlHistory
  <2>3. SharedOK'
    <3>1. hist' \in [IPs -> Line \cup {NoLine}]
      BY <1>1, <1>6, LogTyped DEF BlHistory, SharedOK, Batched
    <3> QED  BY <1>1, <1>6, <3>1 DEF SharedOK, BlHistory, whitelist, env
  <2> QED  BY <2>2, <2>3 DEF TypeOK
<1>7. CASE BlAutoUnban(t)
  <2>1. LocalsOK'
    BY <1>1, <1>7, UnbanningTyped DEF BlAutoUnban, BySource
  <2>2. SharedOK'
    BY <1>1, <1>7 DEF SharedOK, BlAutoUnban, whitelist, env
  <2> QED  BY <2>1, <2>2 DEF TypeOK
<1> QED  BY <1>2, <1>3, <1>4, <1>5, <1>6, <1>7 DEF BlocklistStep

\* A process that ends leaves its goroutines idle.
LEMMA HaltTyped ==
    ASSUME LocalsOK, NEW p, Halt(p)
    PROVE  LocalsOK'
<1>1. "idle" \in Labels /\ "idle" \notin BanLabels \cup UnbanLabels
  BY DEF Labels, BanLabels, UnbanLabels
<1> QED  BY <1>1, NoLocalsTyped DEF Halt, LocalsOK, Critical

\* So do the stages of the start.
LEMMA BootTyped ==
    ASSUME TypeOK, Boot
    PROVE  TypeOK'
<1> USE DEF Labels, BanLabels, UnbanLabels, BootStep
<1>1. LocalsOK /\ SharedOK /\ loc["main"] \in Locals /\ "main" \in Threads
  BY DEF TypeOK, LocalsOK, Threads, Workers, Fixed
<1>2. CASE Start
  <2>1. dry' \in [Procs -> BOOLEAN]
    BY <1>1, <1>2, DataAssumption DEF Start, SharedOK
  <2> QED  BY <1>1, <1>2, <2>1 DEF Start, TypeOK, SharedOK, LocalsOK, Critical, Stages, whitelist
<1>3. CASE BootCaches
  <2>1. LocalsOK'
    <3>1. CASE Halt("daemon")
      BY <1>1, <3>1, HaltTyped
    <3>2. CASE UNCHANGED <<pc, loc>>
      BY <1>1, <3>2 DEF LocalsOK, Critical
    <3> QED  BY <1>3, <3>1, <3>2 DEF BootCaches
  <2>2. SharedOK'
    BY <1>1, <1>3, DataAssumption DEF BootCaches, SharedOK, Stages, Halt
  <2> QED  BY <2>1, <2>2 DEF TypeOK
<1>4. CASE BootGeoIP
  <2>1. LocalsOK'
    BY <1>1, <1>4, UnbanningTyped DEF BootGeoIP, BySource
  <2>2. SharedOK'
    BY <1>1, <1>4 DEF BootGeoIP, SharedOK, Stages, whitelist
  <2> QED  BY <2>1, <2>2 DEF TypeOK
<1>5. CASE BootExpired
  <2>1. [NoLocals EXCEPT !.todo = Expired(clock), !.stamp = clock] \in Locals
    BY <1>1, NoLocalsTyped DEF Locals, Expired, SharedOK
  <2>2. LocalsOK'
    BY <1>1, <1>5, <2>1, NoLocalsTyped, GotoTyped DEF BootExpired, ReconcileFails
  <2>3. SharedOK'
    BY <1>1, <1>5 DEF BootExpired, ReconcileFails, SharedOK, Stages, whitelist
  <2> QED  BY <2>2, <2>3 DEF TypeOK
<1>6. CASE BootActive
  <2>1. \A ip \in Banned : Remaining(rows[ip], loc["main"].stamp) \in Nat
    BY <1>1 DEF Remaining, SharedOK, Locals, Banned, Row, NoRow
  <2> DEFINE left == [ip \in IPs |-> IF ip \in Banned THEN Remaining(rows[ip], loc["main"].stamp)
                                     ELSE NotBatched]
  <2>2. left \in [IPs -> Nat \cup {NotBatched}]
    BY <2>1
  <2>3. ReconcileFails("active") \/ (loc' = [loc EXCEPT !["main"].batch = left] /\ UNCHANGED pc)
    BY <1>6 DEF BootActive
  <2> HIDE DEF left
  <2>4. ASSUME loc' = [loc EXCEPT !["main"].batch = left], UNCHANGED pc
        PROVE  LocalsOK'
    <3>1. loc' \in [Threads -> Locals]
      BY <1>1, <2>2, <2>4 DEF LocalsOK, Locals
    <3>2. \A t \in Threads : loc'[t].ip = loc[t].ip
      BY <1>1, <2>4 DEF LocalsOK, Locals
    <3> QED  BY <1>1, <2>4, <3>1, <3>2 DEF LocalsOK, Critical
  <2>5. LocalsOK'
    BY <1>1, <2>3, <2>4, NoLocalsTyped, GotoTyped DEF ReconcileFails
  <2>6. SharedOK'
    BY <1>1, <1>6 DEF BootActive, ReconcileFails, SharedOK, Stages, whitelist
  <2> QED  BY <2>5, <2>6 DEF TypeOK
<1>7. CASE BootReadd
  <2>1. ipset' \in [IPs -> Nat \cup {Absent}]
    BY <1>1, <1>7, BatchTyped DEF BootReadd, SharedOK, Locals
  <2>2. LocalsOK'
    BY <1>1, <1>7, NoLocalsTyped DEF BootReadd, LocalsOK, Critical
  <2>3. SharedOK'
    BY <1>1, <1>7, <2>1 DEF BootReadd, SharedOK, Stages, whitelist
  <2> QED  BY <2>2, <2>3 DEF TypeOK
<1> QED  BY <1>2, <1>3, <1>4, <1>5, <1>6, <1>7 DEF Boot

\* And so do crashes, reboots, "firewall-flush", the retention and time.
LEMMA EnvironmentTyped ==
    ASSUME TypeOK,
           \/ (\E p \in Procs : Crash(p)) \/ Reboot
           \/ FirewallFlush \/ PruneHistory \/ Tick \/ UNCHANGED vars
    PROVE  TypeOK'
<1> USE DEF Labels, BanLabels, UnbanLabels
<1>1. LocalsOK /\ SharedOK
  BY DEF TypeOK
<1>2. ASSUME NEW p \in Procs, Crash(p)
      PROVE  TypeOK'
  <2>1. LocalsOK'
    BY <1>1, <1>2, HaltTyped DEF Crash
  <2>2. SharedOK'
    BY <1>1, <1>2 DEF Crash, Halt, SharedOK, Stages
  <2> QED  BY <2>1, <2>2 DEF TypeOK
<1>3. CASE Reboot
  <2>1. LocalsOK'
    BY <1>1, <1>3, NoLocalsTyped DEF Reboot, LocalsOK, Critical
  <2>2. SharedOK'
    BY <1>1, <1>3 DEF Reboot, SharedOK, Stages, Absent
  <2> QED  BY <2>1, <2>2 DEF TypeOK
<1>4. CASE FirewallFlush
  BY <1>1, <1>4 DEF FirewallFlush, TypeOK, SharedOK, LocalsOK, Critical, Absent, whitelist, env
<1>5. CASE Tick
  BY <1>1, <1>5 DEF Tick, TypeOK, SharedOK, LocalsOK, Critical, Absent, whitelist
<1>6. CASE PruneHistory
  BY <1>1, <1>6 DEF PruneHistory, TypeOK, SharedOK, LocalsOK, Critical, whitelist, env
<1>7. CASE UNCHANGED vars
  BY <1>1, <1>7 DEF vars, TypeOK, SharedOK, LocalsOK, Critical
<1> QED  BY <1>2, <1>3, <1>4, <1>5, <1>6, <1>7

\* A command finds a mode in its configuration.
LEMMA ConfigTyped ==
    ASSUME TypeOK, NEW t \in Threads, CliConfig(t)
    PROVE  TypeOK'
<1>1. dry' \in [Procs -> BOOLEAN]
  BY DataAssumption DEF CliConfig, TypeOK, SharedOK
<1> QED  BY <1>1 DEF CliConfig, TypeOK, SharedOK, LocalsOK, Critical, whitelist

\* Every variable keeps its type, and a goroutine or command inside Ban or
\* Unban always has the address it works on.
THEOREM TypeCorrect == Spec => []TypeOK
<1>1. Init => TypeOK
  <2> SUFFICES ASSUME Init
               PROVE  TypeOK
    OBVIOUS
  <2>1. dry \in [Procs -> BOOLEAN]
    BY DataAssumption DEF Init
  <2> QED  BY <2>1, NoLocalsTyped, DataAssumption
           DEF Init, TypeOK, SharedOK, LocalsOK, Critical, Labels, BanLabels, UnbanLabels, Absent, Stages
<1>2. TypeOK /\ [Next]_vars => TypeOK'
  <2>1. ASSUME TypeOK, NEW t \in Threads, Begin(t) \/ Continue(t)
        PROVE  TypeOK'
    BY <2>1, BanTyped, UnbanTyped, WhitelistTyped, BlocklistTyped, ConfigTyped DEF Begin, Continue
  <2> QED  BY <2>1, BootTyped, EnvironmentTyped DEF Next
<1> QED  BY <1>1, <1>2, PTL DEF Spec

-----------------------------------------------------------------------------
(* Rows.                                                                   *)

\* The three statements that write active_bans, and nobody else does.
LEMMA RowWriters ==
    ASSUME Next
    PROVE  \/ UNCHANGED rows
           \/ \E t \in Threads : BanInsert(t) \/ UnbanDelete(t) \/ BlInsert(t)
<1>1. ASSUME NEW t \in Threads, Begin(t)
      PROVE  UNCHANGED rows
  BY <1>1 DEF Begin, BanLock, ExpirySnapshot, CliUnban, WlReplace, WlReload, WlFlush, BlActive,
              CliConfig
<1>2. ASSUME NEW t \in Threads, BanStep(t)
      PROVE  UNCHANGED rows \/ BanInsert(t)
  BY <1>2 DEF BanStep, BanCheck, BanExists, BanFWAdd, BanHistory
<1>3. ASSUME NEW t \in Threads, UnbanStep(t)
      PROVE  UNCHANGED rows \/ UnbanDelete(t)
  BY <1>3 DEF UnbanStep, UnbanLock, UnbanFWDel, UnbanStored, UnbanHistory, LoopEnd
<1>4. ASSUME NEW t \in Threads, WhitelistStep(t)
      PROVE  UNCHANGED rows
  BY <1>4 DEF WhitelistStep, WlLoad, WlScan
<1>5. ASSUME NEW t \in Threads, BlocklistStep(t)
      PROVE  UNCHANGED rows \/ BlInsert(t)
  BY <1>5 DEF BlocklistStep, BlCandidates, BlAddBatch, BlHistory, BlAutoUnban
<1>6. ASSUME Boot
      PROVE  UNCHANGED rows
  BY <1>6 DEF Boot, Start, BootCaches, BootGeoIP, BootExpired, BootActive, BootReadd
<1> QED
  BY <1>1, <1>2, <1>3, <1>4, <1>5, <1>6
     DEF Next, Continue, Crash, Reboot, FirewallFlush, PruneHistory, Tick

\* A ban keeps its end and its source until it is lifted: whoever detects,
\* imports or bans the address again, in this process or another, finds the
\* row there and leaves it (INSERT OR IGNORE).  No lock is needed for that.
THEOREM NeverRewritten == Spec => BanNeverRewritten
<1>1. TypeOK /\ [Next]_vars => [KeepsRows]_vars
  <2> SUFFICES ASSUME TypeOK, Next
               PROVE  KeepsRows
    BY DEF vars
  <2>1. rows \in [IPs -> Row \cup {NoRow}]
    BY DEF TypeOK, SharedOK
  <2>2. CASE UNCHANGED rows
    BY <2>2 DEF KeepsRows
  <2>3. ASSUME NEW t \in Threads, BanInsert(t)
        PROVE  KeepsRows
    BY <2>1, <2>3 DEF BanInsert, Insert, KeepsRows, Banned
  <2>4. ASSUME NEW t \in Threads, UnbanDelete(t)
        PROVE  KeepsRows
    BY <2>1, <2>4 DEF UnbanDelete, KeepsRows, Banned
  <2>5. ASSUME NEW t \in Threads, BlInsert(t)
        PROVE  KeepsRows
    BY <2>1, <2>5 DEF BlInsert, KeepsRows, Banned
  <2> QED  BY <2>2, <2>3, <2>4, <2>5, RowWriters
<1> QED  BY <1>1, TypeCorrect, PTL DEF Spec, BanNeverRewritten

-----------------------------------------------------------------------------
(* The lock.                                                               *)

Inside == BanLabels \cup UnbanLabels

LEMMA ProcTyped == \A t \in Threads : Proc(t) \in Procs
  BY DEF Proc, Procs

\* A goroutine may enter Ban or Unban with the lock, stay there without giving
\* it up, and give up only a lock it holds.
LEMMA LockStep ==
    ASSUME TypeOK, MutexHeld, NEW t \in Threads, NEW label, NEW l, Goto(t, label, l),
           \/ Acquire(t)
           \/ Unlock(t) /\ Critical(t) /\ label \notin Inside
           \/ UNCHANGED banMu /\ (label \in Inside => Critical(t))
    PROVE  MutexHeld'
<1> SUFFICES ASSUME NEW u \in Threads, Critical(u)'
             PROVE  banMu'[Proc(u)] = u
  BY DEF MutexHeld
<1>1. /\ pc \in [Threads -> Labels] /\ banMu \in [Procs -> Threads \cup {Free}]
      /\ Free \notin Threads /\ Proc(t) \in Procs /\ Proc(u) \in Procs
  BY ProcTyped, ThreadsAssumption DEF TypeOK, SharedOK, LocalsOK
<1>2. u # t => Critical(u)
  BY <1>1 DEF Goto, Critical
<1>3. CASE Acquire(t)
  BY <1>1, <1>2, <1>3 DEF Acquire, MutexHeld
<1>4. CASE Unlock(t) /\ Critical(t) /\ label \notin Inside
  BY <1>1, <1>2, <1>4 DEF Unlock, MutexHeld, Goto, Critical, Inside
<1>5. CASE UNCHANGED banMu /\ (label \in Inside => Critical(t))
  BY <1>1, <1>2, <1>5 DEF MutexHeld, Goto, Critical, Inside
<1> QED  BY <1>3, <1>4, <1>5

LEMMA LockBegin ==
    ASSUME TypeOK, MutexHeld, NEW t \in Threads, Begin(t)
    PROVE  MutexHeld'
<1> USE DEF Inside, BanLabels, UnbanLabels
<1>1. ASSUME NEW ip \in IPs, BanLock(t, ip)
      PROVE  MutexHeld'
  BY <1>1, LockStep DEF BanLock
<1>2. CASE ExpirySnapshot(t) \/ CliUnban(t)
  BY <1>2, LockStep DEF ExpirySnapshot, CliUnban, Unbanning
<1>3. ASSUME NEW list \in Whitelists, WlReplace(t, list)
      PROVE  MutexHeld'
  BY <1>3, LockStep DEF WlReplace
<1>4. CASE WlReload(t) \/ WlFlush(t) \/ CliConfig(t)
  BY <1>4 DEF WlReload, WlFlush, CliConfig, MutexHeld, Critical
<1>5. ASSUME NEW desired \in Blocklists, BlActive(t, desired)
      PROVE  MutexHeld'
  BY <1>5, LockStep DEF BlActive
<1> QED  BY <1>1, <1>2, <1>3, <1>4, <1>5 DEF Begin

LEMMA LockContinue ==
    ASSUME TypeOK, MutexHeld, NEW t \in Threads, Continue(t)
    PROVE  MutexHeld'
<1> USE LockStep DEF Inside, BanLabels, UnbanLabels, Critical
<1>1. CASE BanStep(t)
  <2>1. CASE BanCheck(t) \/ BanExists(t)
    BY <2>1 DEF BanCheck, BanExists, Done
  <2>2. CASE BanInsert(t)
    BY <2>2 DEF BanInsert, Done
  <2>3. CASE BanFWAdd(t) \/ BanHistory(t)
    BY <2>3 DEF BanFWAdd, BanHistory, Done
  <2> QED  BY <1>1, <2>1, <2>2, <2>3 DEF BanStep
<1>2. CASE UnbanStep(t)
  <2>1. CASE UnbanLock(t) \/ LoopEnd(t)
    BY <2>1 DEF UnbanLock, LoopEnd
  <2>2. CASE UnbanFWDel(t) \/ UnbanStored(t)
    BY <2>2 DEF UnbanFWDel, UnbanStored
  <2>3. CASE UnbanDelete(t) \/ UnbanHistory(t)
    BY <2>3 DEF UnbanDelete, UnbanHistory
  <2> QED  BY <1>2, <2>1, <2>2, <2>3 DEF UnbanStep
<1>3. CASE WhitelistStep(t)
  BY <1>3 DEF WhitelistStep, WlLoad, WlScan, Unbanning
<1>4. CASE BlocklistStep(t)
  BY <1>4 DEF BlocklistStep, BlCandidates, BlInsert, BlAddBatch, BlHistory, BlAutoUnban, Unbanning
<1> QED  BY <1>1, <1>2, <1>3, <1>4 DEF Continue

\* A process that ends takes its lock along.
LEMMA HaltLock ==
    ASSUME TypeOK, MutexHeld, NEW p \in Procs, Halt(p)
    PROVE  MutexHeld'
  BY ProcTyped DEF Halt, MutexHeld, Critical, BanLabels, UnbanLabels, TypeOK, SharedOK, LocalsOK

LEMMA LockBoot ==
    ASSUME TypeOK, MutexHeld, Boot
    PROVE  MutexHeld'
<1> USE DEF BootStep, Inside, BanLabels, UnbanLabels
<1>1. "main" \in Threads /\ "daemon" \in Procs
  BY DEF Threads, Workers, Fixed, Procs
<1>2. CASE UNCHANGED <<pc, banMu>>
  BY <1>2 DEF MutexHeld, Critical
<1>3. CASE UNCHANGED banMu /\ \E label \in {"loop", "idle"} : \E l : Goto("main", label, l)
  BY <1>1, <1>3, LockStep
<1>4. CASE Halt("daemon")
  BY <1>1, <1>4, HaltLock
<1>5. CASE Start \/ BootCaches
  BY <1>2, <1>4, <1>5 DEF Start, BootCaches
<1>6. CASE BootGeoIP \/ BootExpired
  BY <1>3, <1>6 DEF BootGeoIP, BootExpired, ReconcileFails, Unbanning
<1>7. CASE BootActive \/ BootReadd
  BY <1>2, <1>3, <1>7 DEF BootActive, BootReadd, ReconcileFails
<1> QED  BY <1>5, <1>6, <1>7 DEF Boot

LEMMA LockEnvironment ==
    ASSUME TypeOK, MutexHeld,
           \/ (\E p \in Procs : Crash(p)) \/ Reboot
           \/ FirewallFlush \/ PruneHistory \/ Tick \/ UNCHANGED vars
    PROVE  MutexHeld'
<1> USE DEF MutexHeld, Critical, BanLabels, UnbanLabels
<1>1. ASSUME NEW p \in Procs, Crash(p)
      PROVE  MutexHeld'
  BY <1>1, HaltLock DEF Crash
<1>2. CASE Reboot
  BY <1>2 DEF Reboot
<1>3. CASE FirewallFlush \/ PruneHistory \/ Tick \/ UNCHANGED vars
  BY <1>3 DEF FirewallFlush, PruneHistory, Tick, vars
<1> QED  BY <1>1, <1>2, <1>3

\* Whoever is inside Ban or Unban holds banMu of the process, so no two
\* goroutines of one process are ever inside together; two processes may be.
THEOREM LockProtects ==
    Spec => [](/\ MutexHeld
               /\ \A t, u \in Threads :
                     Critical(t) /\ Critical(u) /\ Proc(t) = Proc(u) => t = u)
<1>1. Init => MutexHeld
  BY DEF Init, MutexHeld, Critical, BanLabels, UnbanLabels
<1>2. TypeOK /\ MutexHeld /\ [Next]_vars => MutexHeld'
  BY LockBegin, LockContinue, LockBoot, LockEnvironment DEF Next
<1>3. MutexHeld => \A t, u \in Threads :
                      Critical(t) /\ Critical(u) /\ Proc(t) = Proc(u) => t = u
  BY DEF MutexHeld
<1> QED  BY <1>1, <1>2, <1>3, TypeCorrect, PTL DEF Spec

-----------------------------------------------------------------------------
(* The order of the statements, where the daemon is the only process that   *)
(* bans and the external blocklist is off.                                  *)

OneDaemon ==
    /\ CliProcs = {}
    /\ ExternalBlocklist = FALSE
    /\ DryRunModes = {FALSE}

LEMMA NewRowIsRow == \A t, until : NewRow(until, SourceOf(t)) # NoRow
  BY DEF NewRow, NoRow, SourceOf

\* With one process, two goroutines inside Ban or Unban are the same.
LEMMA OneInside ==
    ASSUME CliProcs = {}, MutexHeld, NEW t \in Threads, NEW u \in Threads, Critical(t), Critical(u)
    PROVE  t = u
  BY DEF MutexHeld, Proc

\* A step that leaves rows, ipset and the boot alone only has to account for
\* the goroutine that takes it.
LEMMA QuietStep ==
    ASSUME TypeOK, OrphanInv, NEW t \in Threads, NEW label, NEW l, Goto(t, label, l),
           UNCHANGED <<rows, ipset, boot, dry>>, boot = "up" \/ (t = "main" /\ boot # "readd"),
           label \notin {"blcand", "blinsert", "blhist"},
           label = "fwadd" => l.ip \in Banned,
           Deletes /\ label \in {"stored", "delete"} => ipset[l.ip] = Absent
    PROVE  OrderKept' /\ (Deletes => NoOrphanEntry')
<1>1. pc \in [Threads -> Labels] /\ loc \in [Threads -> Locals]
  BY DEF TypeOK, LocalsOK
<1>2. Banned' = Banned /\ Blocked' = Blocked
  BY DEF Banned, Blocked
<1> QED  BY <1>1, <1>2 DEF OrphanInv, OrderKept, NoOrphanEntry, Goto

\* The workers run when the boot is over, the main goroutine also before.
LEMMA Running ==
    ASSUME OneDaemon, TypeOK, OrphanInv, NEW t \in Threads, pc[t] # "idle" \/ Ready(t)
    PROVE  boot = "up" \/ (t = "main" /\ boot # "readd")
  BY DEF OneDaemon, OrphanInv, OrderKept, Ready

LEMMA OrderBegin ==
    ASSUME OneDaemon, TypeOK, OrphanInv, NEW t \in Threads, Begin(t)
    PROVE  OrderKept' /\ (Deletes => NoOrphanEntry')
<1> USE Running, QuietStep DEF whitelist, env
<1>1. ASSUME NEW ip \in IPs, BanLock(t, ip)
      PROVE  OrderKept' /\ (Deletes => NoOrphanEntry')
  BY <1>1 DEF BanLock
<1>2. CASE ExpirySnapshot(t) \/ CliUnban(t)
  <2>1. CASE ExpirySnapshot(t)
    BY <2>1 DEF ExpirySnapshot, Unbanning
  <2>2. CASE CliUnban(t)
    BY <2>2 DEF CliUnban, OneDaemon
  <2> QED  BY <1>2, <2>1, <2>2
<1>3. ASSUME NEW list \in Whitelists, WlReplace(t, list)
      PROVE  OrderKept' /\ (Deletes => NoOrphanEntry')
  BY <1>3 DEF WlReplace
<1>4. CASE WlReload(t) \/ WlFlush(t)
  <2>1. UNCHANGED <<rows, ipset, pc, loc, boot, dry>>
    BY <1>4 DEF WlReload, WlFlush
  <2> QED  BY <2>1 DEF OrphanInv, OrderKept, NoOrphanEntry, Banned, Blocked, Batched
<1>5. ASSUME NEW desired \in Blocklists, BlActive(t, desired)
      PROVE  FALSE
  BY <1>5 DEF BlActive, BlSyncs, OneDaemon
<1>6. ~CliConfig(t)
  BY DEF CliConfig, OneDaemon
<1> QED  BY <1>1, <1>2, <1>3, <1>4, <1>5, <1>6 DEF Begin

LEMMA OrderBan ==
    ASSUME OneDaemon, TypeOK, OrphanInv, NEW t \in Threads, BanStep(t)
    PROVE  OrderKept' /\ (Deletes => NoOrphanEntry')
<1> USE DEF whitelist, env
<1>0. /\ pc \in [Threads -> Labels] /\ loc \in [Threads -> Locals]
      /\ rows \in [IPs -> Row \cup {NoRow}] /\ ipset \in [IPs -> Nat \cup {Absent}]
      /\ Critical(t) => loc[t].ip \in IPs
      /\ pc[t] # "idle" => boot = "up" \/ (t = "main" /\ boot # "readd")
  BY Running DEF TypeOK, LocalsOK, SharedOK
<1>1. CASE BanCheck(t)
  BY <1>0, <1>1, QuietStep DEF BanCheck, Done
<1>2. CASE BanExists(t)
  <2>1. /\ UNCHANGED <<rows, ipset, boot, dry>> /\ pc[t] = "exists"
        /\ \E label \in {"idle", "insert"} : \E l : Goto(t, label, l)
    BY <1>2 DEF BanExists, Done
  <2> QED  BY <1>0, <2>1, QuietStep
<1>3. CASE BanInsert(t)
  <2>1. CASE Done(t) /\ UNCHANGED rows
    BY <1>0, <1>3, <2>1, QuietStep DEF BanInsert, Done
  <2>2. ASSUME Insert(t), Goto(t, "fwadd", loc[t])
        PROVE  OrderKept' /\ (Deletes => NoOrphanEntry')
    <3>1. loc[t].ip \in IPs /\ loc'[t].ip = loc[t].ip /\ pc[t] = "insert"
      BY <1>0, <1>3, <2>2 DEF BanInsert, Goto, Critical, BanLabels, Locals
    <3>2. Banned' = Banned \cup {loc[t].ip}
      BY <1>0, <2>2, <3>1, NewRowIsRow DEF Banned, Insert
    <3>3. UNCHANGED <<ipset, boot, dry>>
      BY <1>3 DEF BanInsert
    <3>4. Deletes => NoOrphanEntry'
      BY <3>2, <3>3 DEF OrphanInv, NoOrphanEntry, Blocked
    <3>5. OrderKept'
      BY <1>0, <2>2, <3>1, <3>2, <3>3 DEF OrphanInv, OrderKept, Goto
    <3> QED  BY <3>4, <3>5
  <2> QED  BY <1>3, <2>1, <2>2 DEF BanInsert
<1>4. CASE BanFWAdd(t)
  <2>1. loc[t].ip \in Banned /\ loc[t].ip \in IPs /\ pc[t] = "fwadd" /\ Critical(t)
    BY <1>0, <1>4 DEF BanFWAdd, OrphanInv, OrderKept, Critical, BanLabels
  <2>2. Banned' = Banned
    BY <1>4 DEF BanFWAdd, Banned
  <2>3. Blocked' \subseteq Blocked \cup {loc[t].ip}
    BY <1>0, <1>4, <2>1 DEF BanFWAdd, Blocked
  <2>4. Deletes => NoOrphanEntry'
    BY <2>1, <2>2, <2>3 DEF OrphanInv, NoOrphanEntry
  <2>5. \A u \in Threads : u # t => pc[u] \notin {"stored", "delete"}
    BY <2>1, OneInside DEF OneDaemon, OrphanInv, Critical, UnbanLabels
  <2>6. OrderKept'
    BY <1>0, <1>4, <2>1, <2>2, <2>5 DEF BanFWAdd, OrphanInv, OrderKept, Goto
  <2> QED  BY <2>4, <2>6
<1>5. CASE BanHistory(t)
  BY <1>0, <1>5, QuietStep DEF BanHistory, Done
<1> QED  BY <1>1, <1>2, <1>3, <1>4, <1>5 DEF BanStep

LEMMA OrderUnban ==
    ASSUME OneDaemon, TypeOK, OrphanInv, NEW t \in Threads, UnbanStep(t)
    PROVE  OrderKept' /\ (Deletes => NoOrphanEntry')
<1> USE DEF whitelist, env
<1>0. /\ pc \in [Threads -> Labels] /\ loc \in [Threads -> Locals]
      /\ rows \in [IPs -> Row \cup {NoRow}] /\ ipset \in [IPs -> Nat \cup {Absent}]
      /\ Critical(t) => loc[t].ip \in IPs
      /\ pc[t] # "idle" => boot = "up" \/ (t = "main" /\ boot # "readd")
  BY Running DEF TypeOK, LocalsOK, SharedOK
<1>1. CASE UnbanLock(t)
  BY <1>0, <1>1, QuietStep DEF UnbanLock
<1>2. CASE UnbanFWDel(t)
  <2>1. /\ ipset' = [ipset EXCEPT ![loc[t].ip] = Absent] \/ (~Deletes /\ UNCHANGED ipset)
        /\ loc[t].ip \in IPs
    BY <1>0, <1>2 DEF UnbanFWDel, OneDaemon, OrphanInv, OrderKept, Dry, Proc, Deletes, Critical, UnbanLabels
  <2>2. Blocked' \subseteq Blocked /\ Banned' = Banned
    BY <1>0, <1>2, <2>1 DEF UnbanFWDel, Blocked, Banned
  <2>3. Deletes => NoOrphanEntry'
    BY <2>2 DEF OrphanInv, NoOrphanEntry
  <2>4. \A ip \in IPs : ipset[ip] = Absent => ipset'[ip] = Absent
    BY <1>0, <2>1
  <2>5. \A u \in Threads : pc[u] \in {"stored", "delete"} => loc[u].ip \in IPs
    BY DEF TypeOK, LocalsOK, Critical, UnbanLabels
  <2>6. OrderKept'
    BY <1>0, <1>2, <2>1, <2>2, <2>4, <2>5 DEF UnbanFWDel, OrphanInv, OrderKept, Goto
  <2> QED  BY <2>3, <2>6
<1>3. CASE UnbanStored(t)
  <2>1. pc[t] = "stored" /\ (Deletes => ipset[loc[t].ip] = Absent)
    BY <1>3 DEF UnbanStored, OrphanInv, OrderKept
  <2> QED  BY <1>0, <1>3, <2>1, QuietStep DEF UnbanStored
<1>4. CASE UnbanDelete(t)
  <2>1. CASE Goto(t, "loop", loc[t]) /\ UNCHANGED rows
    BY <1>0, <1>4, <2>1, QuietStep DEF UnbanDelete
  <2>2. CASE Goto(t, "unbanhist", loc[t]) /\ rows' = [rows EXCEPT ![loc[t].ip] = NoRow]
    <3>1. /\ pc[t] = "delete" /\ Critical(t) /\ loc[t].ip \in IPs
          /\ (Deletes => ipset[loc[t].ip] = Absent) /\ UNCHANGED <<ipset, boot, dry>>
      BY <1>0, <1>4 DEF UnbanDelete, OrphanInv, OrderKept, Critical, UnbanLabels
    <3>2. Banned' = Banned \ {loc[t].ip}
      BY <1>0, <2>2, <3>1 DEF Banned
    <3>3. Blocked' = Blocked /\ (Deletes => loc[t].ip \notin Blocked)
      BY <3>1 DEF Blocked
    <3>4. Deletes => NoOrphanEntry'
      BY <3>2, <3>3 DEF OrphanInv, NoOrphanEntry
    <3>5. \A u \in Threads : u # t => pc[u] # "fwadd"
      BY <3>1, OneInside DEF OneDaemon, OrphanInv, Critical, BanLabels
    <3>6. boot # "readd"
      BY <1>0, <3>1 DEF OrphanInv, OrderKept
    <3>7. OrderKept'
      BY <1>0, <2>2, <3>1, <3>2, <3>5, <3>6 DEF OrphanInv, OrderKept, Goto
    <3> QED  BY <3>4, <3>7
  <2> QED  BY <1>4, <2>1, <2>2 DEF UnbanDelete
<1>5. CASE UnbanHistory(t)
  BY <1>0, <1>5, QuietStep DEF UnbanHistory
<1>6. CASE LoopEnd(t)
  BY <1>0, <1>6, QuietStep DEF LoopEnd
<1> QED  BY <1>1, <1>2, <1>3, <1>4, <1>5, <1>6 DEF UnbanStep

LEMMA OrderSyncs ==
    ASSUME OneDaemon, TypeOK, OrphanInv, NEW t \in Threads,
           WhitelistStep(t) \/ BlocklistStep(t)
    PROVE  OrderKept' /\ (Deletes => NoOrphanEntry')
<1>1. CASE WhitelistStep(t)
  BY <1>1, Running, QuietStep DEF WhitelistStep, WlLoad, WlScan, Unbanning, whitelist, env
<1>2. CASE BlocklistStep(t)
  BY <1>2 DEF BlocklistStep, BlCandidates, BlInsert, BlAddBatch, BlHistory, BlAutoUnban,
              OrphanInv, OrderKept
<1> QED  BY <1>1, <1>2

LEMMA OrderBoot ==
    ASSUME OneDaemon, TypeOK, OrphanInv, Boot
    PROVE  OrderKept' /\ (Deletes => NoOrphanEntry')
<1> USE DEF BootStep, whitelist
<1>0. /\ pc \in [Threads -> Labels] /\ loc \in [Threads -> Locals] /\ "main" \in Threads
      /\ rows \in [IPs -> Row \cup {NoRow}] /\ ipset \in [IPs -> Nat \cup {Absent}]
  BY DEF TypeOK, LocalsOK, SharedOK, Threads, Workers, Fixed
<1>1. CASE Start
  <2>1. ~dry'["daemon"]
    BY <1>1 DEF Start, OneDaemon, TypeOK, SharedOK, Procs
  <2> QED  BY <1>1, <2>1 DEF Start, OrphanInv, OrderKept, NoOrphanEntry, Banned, Blocked
<1>2. CASE BootCaches
  <2>1. UNCHANGED <<rows, ipset, dry>> /\ boot' \in {"geoip", "down"}
    BY <1>2 DEF BootCaches, Halt
  <2>2. \A u \in Threads : pc'[u] = "idle"
    <3>1. CASE Halt("daemon")
      BY <3>1 DEF Halt, OneDaemon, Proc
    <3>2. CASE BootStep("caches", "geoip") /\ UNCHANGED pc
      BY <3>2 DEF OrphanInv, OrderKept
    <3> QED  BY <1>2, <3>1, <3>2 DEF BootCaches
  <2> QED  BY <2>1, <2>2 DEF OrphanInv, OrderKept, NoOrphanEntry, Banned, Blocked
<1>3. CASE BootGeoIP \/ (BootExpired /\ boot' # "up")
  <2>1. /\ UNCHANGED <<rows, ipset, dry>> /\ boot' \notin {"up", "readd"} /\ boot # "up"
        /\ \E l : Goto("main", "loop", l)
    BY <1>3 DEF BootGeoIP, BootExpired, ReconcileFails, Unbanning
  <2> QED  BY <1>0, <2>1 DEF OrphanInv, OrderKept, NoOrphanEntry, Banned, Blocked, Goto
<1>6. CASE (BootExpired \/ BootActive) /\ boot' = "up"
  <2>1. /\ UNCHANGED <<rows, ipset, dry>> /\ boot # "up"
        /\ Goto("main", "idle", NoLocals)
    BY <1>6 DEF BootExpired, BootActive, ReconcileFails
  <2>2. \A u \in Threads : pc'[u] = "idle"
    BY <1>0, <2>1 DEF OrphanInv, OrderKept, Goto
  <2> QED  BY <1>6, <2>1, <2>2 DEF OrphanInv, OrderKept, NoOrphanEntry, Banned, Blocked
<1>4. CASE BootActive /\ boot' # "up"
  <2>1. UNCHANGED <<rows, ipset, pc, dry>> /\ boot' = "readd" /\ boot # "up" /\ pc["main"] = "idle"
    BY <1>4 DEF BootActive, ReconcileFails
  <2>2. Banned' = Banned /\ Blocked' = Blocked
    BY <2>1 DEF Banned, Blocked
  <2>3. Batched(loc'["main"].batch) \subseteq Banned
    BY <1>0, <1>4 DEF BootActive, ReconcileFails, Batched, Locals
  <2>4. \A u \in Threads : pc[u] = "idle"
    BY <2>1 DEF OrphanInv, OrderKept
  <2> QED  BY <2>1, <2>2, <2>3, <2>4 DEF OrphanInv, OrderKept, NoOrphanEntry
<1>5. CASE BootReadd
  <2>1. boot = "readd" /\ boot' = "up" /\ UNCHANGED <<rows, pc, dry>> /\ ~dry["daemon"]
    BY <1>5 DEF BootReadd, OrphanInv, OrderKept
  <2>2. \A u \in Threads : pc[u] = "idle"
    BY <2>1 DEF OrphanInv, OrderKept
  <2>3. Batched(loc["main"].batch) \subseteq Banned /\ Banned' = Banned
    BY <2>1 DEF OrphanInv, OrderKept, Banned
  <2>4. AddBatch(loc["main"].batch)
    BY <1>5, <2>1 DEF BootReadd
  <2>5. Blocked' \subseteq Blocked \cup Batched(loc["main"].batch)
    BY <1>0, <2>4 DEF AddBatch, Blocked
  <2> QED  BY <2>1, <2>2, <2>3, <2>5 DEF OrphanInv, OrderKept, NoOrphanEntry
<1> QED  BY <1>1, <1>2, <1>3, <1>4, <1>5, <1>6 DEF Boot

LEMMA OrderEnvironment ==
    ASSUME OneDaemon, TypeOK, OrphanInv,
           \/ (\E p \in Procs : Crash(p)) \/ Reboot
           \/ FirewallFlush \/ PruneHistory \/ Tick \/ UNCHANGED vars
    PROVE  OrderKept' /\ (Deletes => NoOrphanEntry')
<1>0. /\ pc \in [Threads -> Labels] /\ ipset \in [IPs -> Nat \cup {Absent}]
      /\ \A u \in Threads : pc[u] \in {"stored", "delete"} => loc[u].ip \in IPs
  BY DEF TypeOK, LocalsOK, SharedOK, Critical, UnbanLabels
<1>1. ASSUME NEW p \in Procs, Crash(p)
      PROVE  OrderKept' /\ (Deletes => NoOrphanEntry')
  <2>1. p = "daemon" /\ \A t \in Threads : Proc(t) = "daemon"
    BY DEF OneDaemon, Procs, Proc
  <2>2. /\ UNCHANGED <<rows, ipset, dry>> /\ boot' = "down"
        /\ \A t \in Threads : pc'[t] = "idle"
    BY <1>1, <2>1 DEF Crash, Halt
  <2> QED  BY <2>2 DEF OrphanInv, OrderKept, NoOrphanEntry, Banned, Blocked
<1>2. CASE Reboot
  BY <1>2 DEF Reboot, OrphanInv, OrderKept, NoOrphanEntry, Banned, Blocked
<1>3. CASE FirewallFlush
  BY <1>3 DEF FirewallFlush, OneDaemon
<1>4. CASE Tick
  <2>1. UNCHANGED <<rows, pc, loc, boot, dry>>
    BY <1>4 DEF Tick
  <2>2. \A ip \in IPs : ipset[ip] = Absent => ipset'[ip] = Absent
    BY <1>4 DEF Tick
  <2> QED  BY <1>0, <2>1, <2>2 DEF OrphanInv, OrderKept, NoOrphanEntry, Banned, Blocked
<1>5. CASE PruneHistory \/ UNCHANGED vars
  BY <1>5 DEF PruneHistory, whitelist, env, vars, OrphanInv, OrderKept, NoOrphanEntry, Banned, Blocked
<1> QED  BY <1>1, <1>2, <1>3, <1>4, <1>5

LEMMA OrphanInvHolds ==
    ASSUME OneDaemon
    PROVE  Spec => []OrphanInv
<1>1. Init => OrphanInv
  <2> SUFFICES ASSUME Init
               PROVE  OrphanInv
    OBVIOUS
  <2>1. MutexHeld
    BY DEF Init, MutexHeld, Critical, BanLabels, UnbanLabels
  <2>2. NoOrphanEntry
    BY DEF Init, NoOrphanEntry, Blocked
  <2>3. OrderKept
    BY DEF Init, OrderKept, OneDaemon, Procs
  <2> QED  BY <2>1, <2>2, <2>3 DEF OrphanInv
<1>2. TypeOK /\ OrphanInv /\ [Next]_vars => OrphanInv'
  <2> SUFFICES ASSUME TypeOK, OrphanInv, [Next]_vars
               PROVE  OrphanInv'
    OBVIOUS
  <2>1. MutexHeld'
    BY LockBegin, LockContinue, LockBoot, LockEnvironment DEF Next, OrphanInv
  <2>2. OrderKept' /\ (Deletes => NoOrphanEntry')
    BY OrderBegin, OrderBan, OrderUnban, OrderSyncs, OrderBoot, OrderEnvironment
       DEF Next, Continue
  <2> QED  BY <2>1, <2>2 DEF OrphanInv
<1> QED  BY <1>1, <1>2, TypeCorrect, PTL DEF Spec

\* Where the daemon is the only process that bans, the blocklist is off, the
\* mode is not dry-run and ipset deletes what it is told to, the kernel never
\* drops an address without a row in active_bans: not between two statements,
\* not after a failed ipset add or SQL statement, not across crashes and reboots.
THEOREM NoOrphans ==
    ASSUME OneDaemon, Deletes
    PROVE  Spec => []NoOrphanEntry
<1>1. OrphanInv => NoOrphanEntry
  BY DEF OrphanInv
<1> QED  BY <1>1, OrphanInvHolds, PTL

-----------------------------------------------------------------------------
(* The ledger.                                                             *)

\* The calls of ipset, and what else changes its content.
LEMMA EntryWriters ==
    ASSUME Next
    PROVE  \/ UNCHANGED ipset
           \/ \E t \in Threads : BanFWAdd(t) \/ UnbanFWDel(t) \/ BlAddBatch(t)
           \/ BootReadd \/ Reboot \/ FirewallFlush \/ Tick
<1>1. ASSUME NEW t \in Threads, Begin(t)
      PROVE  UNCHANGED ipset
  BY <1>1 DEF Begin, BanLock, ExpirySnapshot, CliUnban, WlReplace, WlReload, WlFlush, BlActive,
              CliConfig
<1>2. ASSUME NEW t \in Threads, BanStep(t)
      PROVE  UNCHANGED ipset \/ BanFWAdd(t)
  BY <1>2 DEF BanStep, BanCheck, BanExists, BanInsert, BanHistory
<1>3. ASSUME NEW t \in Threads, UnbanStep(t)
      PROVE  UNCHANGED ipset \/ UnbanFWDel(t)
  BY <1>3 DEF UnbanStep, UnbanLock, UnbanStored, UnbanDelete, UnbanHistory, LoopEnd
<1>4. ASSUME NEW t \in Threads, WhitelistStep(t)
      PROVE  UNCHANGED ipset
  BY <1>4 DEF WhitelistStep, WlLoad, WlScan
<1>5. ASSUME NEW t \in Threads, BlocklistStep(t)
      PROVE  UNCHANGED ipset \/ BlAddBatch(t)
  BY <1>5 DEF BlocklistStep, BlCandidates, BlInsert, BlHistory, BlAutoUnban
<1>6. ASSUME Boot
      PROVE  UNCHANGED ipset \/ BootReadd
  BY <1>6 DEF Boot, Start, BootCaches, BootGeoIP, BootExpired, BootActive
<1> QED
  BY <1>1, <1>2, <1>3, <1>4, <1>5, <1>6 DEF Next, Continue, Crash, PruneHistory

\* An ipset that only grows, or only shrinks, within the bans is a step of the ledger.
LEMMA LedgerStep ==
    ASSUME Banned' = Banned, Blocked' \subseteq Banned',
           Blocked \subseteq Blocked' \/ Blocked' \subseteq Blocked
    PROVE  Ledger!Next
<1>1. CASE Blocked \subseteq Blocked'
  <2>1. Ledger!Enforce(Blocked')
    BY <1>1 DEF Ledger!Enforce
  <2>2. Blocked' \in SUBSET IPs
    BY DEF Banned
  <2> QED  BY <2>1, <2>2 DEF Ledger!Next
<1>2. CASE Blocked' \subseteq Blocked
  <2>1. Ledger!Release(Blocked \ Blocked')
    BY <1>2 DEF Ledger!Release
  <2>2. Blocked \ Blocked' \in SUBSET IPs
    BY DEF Blocked
  <2> QED  BY <2>1, <2>2 DEF Ledger!Next
<1> QED  BY <1>1, <1>2

LEMMA LedgerEntries ==
    ASSUME OneDaemon, TypeOK, OrphanInv, Next
    PROVE  Blocked \subseteq Blocked' \/ Blocked' \subseteq Blocked
<1>0. ipset \in [IPs -> Nat \cup {Absent}] /\ (\A t \in Threads : Critical(t) => loc[t].ip \in IPs)
  BY DEF TypeOK, SharedOK, LocalsOK
<1>1. CASE UNCHANGED ipset
  BY <1>1 DEF Blocked
<1>2. ASSUME NEW t \in Threads, BanFWAdd(t)
      PROVE  Blocked \subseteq Blocked'
  <2>1. clock \in Nat /\ loc[t].stamp \in Nat
    BY DEF TypeOK, SharedOK, LocalsOK, Locals
  <2>2. EntryEnd(loc[t].stamp) # Absent
    BY <2>1, EntryTyped DEF Absent
  <2> QED  BY <1>0, <1>2, <2>2 DEF BanFWAdd, Blocked
<1>3. ASSUME NEW t \in Threads, UnbanFWDel(t)
      PROVE  Blocked' \subseteq Blocked
  BY <1>0, <1>3 DEF UnbanFWDel, Blocked
<1>4. ASSUME NEW t \in Threads, BlAddBatch(t)
      PROVE  FALSE
  BY <1>4 DEF BlAddBatch, OrphanInv, OrderKept
<1>5. ASSUME BootReadd
      PROVE  Blocked \subseteq Blocked'
  <2>1. /\ AddBatch(loc["main"].batch)
        /\ clock \in Nat
        /\ loc["main"].batch \in [IPs -> Nat \cup {NotBatched}]
    BY <1>5 DEF BootReadd, OrphanInv, OrderKept, TypeOK, SharedOK, LocalsOK, Locals,
                Threads, Workers, Fixed
  <2>2. \A ip \in Batched(loc["main"].batch) : EntryEnd(loc["main"].batch[ip]) # Absent
    BY <2>1, EntryTyped DEF Batched, NotBatched, Absent
  <2> QED  BY <1>0, <2>1, <2>2 DEF AddBatch, Blocked
<1>6. CASE Reboot \/ FirewallFlush \/ Tick
  BY <1>0, <1>6 DEF Reboot, FirewallFlush, Tick, Blocked
<1> QED  BY <1>1, <1>2, <1>3, <1>4, <1>5, <1>6, EntryWriters

\* Under the same assumptions the lifecycle implements the ledger: every
\* statement records, enforces, releases or forgets a ban, or is invisible.
THEOREM Implements ==
    ASSUME OneDaemon, Deletes
    PROVE  Spec => ImplementsLedger
<1>1. Init => Ledger!Init
  BY DEF Init, Ledger!Init, Banned, Blocked
<1>2. TypeOK /\ OrphanInv /\ OrphanInv' /\ [Next]_vars => [Ledger!Next]_<<Banned, Blocked>>
  <2> SUFFICES ASSUME TypeOK, OrphanInv, OrphanInv', Next
               PROVE  Ledger!Next
    BY DEF vars, Banned, Blocked
  <2>0. rows \in [IPs -> Row \cup {NoRow}] /\ (\A t \in Threads : Critical(t) => loc[t].ip \in IPs)
    BY DEF TypeOK, SharedOK, LocalsOK
  <2>1. CASE UNCHANGED rows
    <3>1. Banned' = Banned /\ Blocked' \subseteq Banned'
      BY <2>1 DEF Banned, OrphanInv, NoOrphanEntry
    <3> QED  BY <3>1, LedgerEntries, LedgerStep
  <2>2. ASSUME NEW t \in Threads, BanInsert(t), rows' # rows
        PROVE  Ledger!Next
    <3>1. /\ pc[t] = "insert" /\ loc[t].ip \notin Banned /\ UNCHANGED ipset
          /\ \E r : rows' = [rows EXCEPT ![loc[t].ip] = r] /\ r # NoRow
      BY <2>2, NewRowIsRow DEF BanInsert, Insert
    <3>2. loc[t].ip \in IPs
      BY <2>0, <3>1 DEF Critical, BanLabels
    <3>3. Banned' = Banned \cup {loc[t].ip} /\ Blocked' = Blocked
      BY <2>0, <3>1, <3>2 DEF Banned, Blocked
    <3> QED  BY <3>1, <3>2, <3>3 DEF Ledger!Next, Ledger!Record
  <2>3. ASSUME NEW t \in Threads, UnbanDelete(t), rows' # rows
        PROVE  Ledger!Next
    <3>1. /\ pc[t] = "delete" /\ UNCHANGED ipset /\ ipset[loc[t].ip] = Absent
          /\ rows' = [rows EXCEPT ![loc[t].ip] = NoRow]
      BY <2>3 DEF UnbanDelete, OrphanInv, OrderKept
    <3>2. loc[t].ip \in IPs
      BY <2>0, <3>1 DEF Critical, UnbanLabels
    <3>3. Banned' = Banned \ {loc[t].ip} /\ Blocked' = Blocked /\ loc[t].ip \notin Blocked
      BY <2>0, <3>1, <3>2 DEF Banned, Blocked
    <3>4. loc[t].ip \in Banned
      <4>1. rows[loc[t].ip] = NoRow => rows' = rows
        BY <2>0, <3>1, <3>2
      <4> QED  BY <2>3, <3>2, <4>1 DEF Banned
    <3> QED  BY <3>2, <3>3, <3>4 DEF Ledger!Next, Ledger!Forget
  <2>4. ASSUME NEW t \in Threads, BlInsert(t)
        PROVE  FALSE
    BY <2>4 DEF BlInsert, OrphanInv, OrderKept
  <2> QED  BY <2>1, <2>2, <2>3, <2>4, RowWriters
<1> QED  BY <1>1, <1>2, TypeCorrect, OrphanInvHolds, PTL DEF Spec, ImplementsLedger, Ledger!Spec, Ledger!ledgerVars

-----------------------------------------------------------------------------
(* The history.                                                            *)

\* One process bans and lifts, and SQLite writes what it is told to.
OneWriter ==
    /\ CliProcs = {}
    /\ ExternalBlocklist = FALSE
    /\ "db" \notin Faults

\* Between the statement that changes a row and the line that says so.
Unlogged(t) == pc[t] \in {"fwadd", "banhist", "unbanhist"}

\* The last line fits the row: it is the BAN of this row, written after it, or lost
\* to the retention; and no BAN without a row.
Agrees(ip) ==
    IF ip \in Banned THEN (LastIsBan(ip) /\ rows[ip].at <= hist[ip].at) \/ Outlived(ip)
    ELSE ~LastIsBan(ip)

\* Only an address whose line is about to be written is at odds with the table,
\* and the line to come is the right one.
HistoryInv ==
    /\ \A t \in Threads :
          /\ pc[t] \notin {"blcand", "blinsert", "blhist"}
          /\ pc[t] \in {"fwadd", "banhist"} => loc[t].ip \in Banned
          /\ pc[t] = "unbanhist" => loc[t].ip \notin Banned
    /\ \A ip \in Banned : rows[ip].at <= clock
    /\ crashes = 0 =>
          \A ip \in IPs : Agrees(ip) \/ \E t \in Threads : Unlogged(t) /\ loc[t].ip = ip

\* A step that leaves table and history alone only has to account for the
\* goroutine that takes it.
LEMMA QuietHistory ==
    ASSUME TypeOK, HistoryInv, NEW t \in Threads, NEW label, NEW l, Goto(t, label, l),
           UNCHANGED <<rows, hist, clock, crashes>>,
           label \notin {"blcand", "blinsert", "blhist", "fwadd", "unbanhist"},
           label = "banhist" => l.ip \in Banned,
           Unlogged(t) => label = "banhist" /\ l.ip = loc[t].ip
    PROVE  HistoryInv'
<1>1. /\ pc \in [Threads -> Labels] /\ loc \in [Threads -> Locals]
      /\ pc' = [pc EXCEPT ![t] = label] /\ loc' = [loc EXCEPT ![t] = l]
  BY DEF TypeOK, LocalsOK, Goto
<1>2. Banned' = Banned /\ \A ip \in IPs : Agrees(ip)' = Agrees(ip)
  BY DEF Banned, Agrees, LastIsBan, Outlived
<1>3. ASSUME NEW u \in Threads, Unlogged(u) PROVE Unlogged(u)' /\ loc'[u].ip = loc[u].ip
  BY <1>1, <1>3 DEF Unlogged
<1>4. ASSUME NEW u \in Threads
      PROVE  /\ pc'[u] \notin {"blcand", "blinsert", "blhist"}
             /\ pc'[u] \in {"fwadd", "banhist"} => loc'[u].ip \in Banned'
             /\ pc'[u] = "unbanhist" => loc'[u].ip \notin Banned'
  BY <1>1, <1>2 DEF HistoryInv
<1>5. crashes' = 0 => \A ip \in IPs : \/ Agrees(ip)'
                                      \/ \E u \in Threads : Unlogged(u)' /\ loc'[u].ip = ip
  BY <1>2, <1>3 DEF HistoryInv
<1>6. \A ip \in Banned' : rows'[ip].at <= clock'
  BY <1>2 DEF HistoryInv
<1> QED  BY <1>4, <1>5, <1>6 DEF HistoryInv

\* Neither does one of no goroutine.
LEMMA StillHistory ==
    ASSUME HistoryInv, UNCHANGED <<rows, hist, clock, pc, crashes>>,
           \A u \in Threads : pc[u] # "idle" => loc'[u] = loc[u]
    PROVE  HistoryInv'
<1>1. Banned' = Banned /\ \A ip \in IPs : Agrees(ip)' = Agrees(ip)
  BY DEF Banned, Agrees, LastIsBan, Outlived
<1>2. ASSUME NEW u \in Threads, Unlogged(u) PROVE Unlogged(u)' /\ loc'[u].ip = loc[u].ip
  BY <1>2 DEF Unlogged
<1> QED  BY <1>1, <1>2 DEF HistoryInv

LEMMA HistoryBegin ==
    ASSUME OneWriter, TypeOK, HistoryInv, NEW t \in Threads, Begin(t)
    PROVE  HistoryInv'
<1> USE QuietHistory DEF whitelist, env, Unlogged
<1>1. ASSUME NEW ip \in IPs, BanLock(t, ip)
      PROVE  HistoryInv'
  BY <1>1 DEF BanLock, Ready
<1>2. CASE ExpirySnapshot(t)
  BY <1>2 DEF ExpirySnapshot, Unbanning, Ready
<1>3. CASE CliUnban(t)
  BY <1>3 DEF CliUnban, OneWriter
<1>4. ASSUME NEW list \in Whitelists, WlReplace(t, list)
      PROVE  HistoryInv'
  BY <1>4 DEF WlReplace, Ready
<1>5. CASE WlReload(t) \/ WlFlush(t) \/ CliConfig(t)
  <2>1. UNCHANGED <<rows, hist, clock, pc, loc, crashes>>
    BY <1>5 DEF WlReload, WlFlush, CliConfig
  <2> QED  BY <2>1, StillHistory
<1>6. ASSUME NEW desired \in Blocklists, BlActive(t, desired)
      PROVE  FALSE
  BY <1>6 DEF BlActive, BlSyncs, OneWriter
<1> QED  BY <1>1, <1>2, <1>3, <1>4, <1>5, <1>6 DEF Begin

\* The two statements that change a row are followed by their line.
LEMMA HistoryRows ==
    ASSUME OneWriter, TypeOK, MutexHeld, HistoryInv, NEW t \in Threads, BanInsert(t) \/ UnbanDelete(t)
    PROVE  HistoryInv'
<1> USE DEF whitelist, env
<1>0. /\ pc \in [Threads -> Labels] /\ loc \in [Threads -> Locals]
      /\ rows \in [IPs -> Row \cup {NoRow}] /\ clock \in Nat
      /\ Critical(t) /\ loc[t].ip \in IPs /\ ~Unlogged(t)
      /\ UNCHANGED <<hist, clock, crashes>>
  BY DEF TypeOK, LocalsOK, SharedOK, BanInsert, UnbanDelete, Critical, BanLabels, UnbanLabels, Unlogged
<1>1. ASSUME NEW u \in Threads, Unlogged(u) PROVE FALSE
  <2>1. Critical(u)
    BY <1>1 DEF Unlogged, Critical, BanLabels, UnbanLabels
  <2> QED  BY <1>0, <1>1, <2>1, OneInside DEF OneWriter
<1>2. \A ip \in IPs : crashes = 0 => Agrees(ip)
  BY <1>1 DEF HistoryInv
<1>3. ASSUME \A u \in Threads : u # t => pc'[u] = pc[u] /\ loc'[u] = loc[u], loc'[t].ip = loc[t].ip,
             \A ip \in IPs : ip # loc[t].ip => rows'[ip] = rows[ip],
             \/ pc'[t] = "fwadd" /\ Banned' = Banned \cup {loc[t].ip} /\ rows'[loc[t].ip].at = clock
             \/ pc'[t] = "unbanhist" /\ Banned' = Banned \ {loc[t].ip}
      PROVE  HistoryInv'
  <2>1. ASSUME NEW u \in Threads
        PROVE  /\ pc'[u] \notin {"blcand", "blinsert", "blhist"}
               /\ pc'[u] \in {"fwadd", "banhist"} => loc'[u].ip \in Banned'
               /\ pc'[u] = "unbanhist" => loc'[u].ip \notin Banned'
    <3>1. CASE u = t
      BY <1>3, <3>1
    <3>2. CASE u # t
      BY <1>1, <1>3, <3>2 DEF HistoryInv, Unlogged
    <3> QED  BY <3>1, <3>2
  <2>2. ASSUME NEW ip \in IPs, crashes' = 0
        PROVE  Agrees(ip)' \/ \E u \in Threads : Unlogged(u)' /\ loc'[u].ip = ip
    <3>1. CASE ip = loc[t].ip
      BY <1>3, <3>1 DEF Unlogged
    <3>2. CASE ip # loc[t].ip
      <4>1. (ip \in Banned' <=> ip \in Banned) /\ rows'[ip] = rows[ip]
        BY <1>3, <3>2
      <4> QED  BY <1>0, <1>2, <2>2, <4>1 DEF Agrees, LastIsBan, Outlived
    <3> QED  BY <3>1, <3>2
  <2>3. ASSUME NEW ip \in Banned' PROVE rows'[ip].at <= clock'
    <3>1. CASE ip = loc[t].ip
      BY <1>0, <1>3, <2>3, <3>1
    <3>2. CASE ip # loc[t].ip
      BY <1>0, <1>3, <2>3, <3>2 DEF HistoryInv, Banned
    <3> QED  BY <3>1, <3>2
  <2> QED  BY <2>1, <2>2, <2>3 DEF HistoryInv
<1>4. CASE BanInsert(t)
  <2>1. CASE Done(t) /\ UNCHANGED rows
    BY <1>0, <2>1, QuietHistory DEF Done
  <2>2. ASSUME Insert(t), Goto(t, "fwadd", loc[t])
        PROVE  HistoryInv'
    <3>1. rows' = [rows EXCEPT ![loc[t].ip] = NewRow(loc[t].until, SourceOf(t))]
      BY <2>2 DEF Insert
    <3>2. Banned' = Banned \cup {loc[t].ip}
      BY <1>0, <3>1, NewRowIsRow DEF Banned
    <3>3. rows'[loc[t].ip].at = clock /\ \A ip \in IPs : ip # loc[t].ip => rows'[ip] = rows[ip]
      BY <1>0, <3>1 DEF NewRow
    <3>4. /\ pc'[t] = "fwadd" /\ loc'[t].ip = loc[t].ip
          /\ \A u \in Threads : u # t => pc'[u] = pc[u] /\ loc'[u] = loc[u]
      BY <1>0, <2>2 DEF Goto
    <3> QED  BY <1>3, <3>2, <3>3, <3>4
  <2> QED  BY <1>4, <2>1, <2>2 DEF BanInsert
<1>5. CASE UnbanDelete(t)
  <2>1. rows' = [rows EXCEPT ![loc[t].ip] = NoRow] /\ Goto(t, "unbanhist", loc[t])
    BY <1>5 DEF UnbanDelete, OneWriter
  <2>2. Banned' = Banned \ {loc[t].ip} /\ \A ip \in IPs : ip # loc[t].ip => rows'[ip] = rows[ip]
    BY <1>0, <2>1 DEF Banned
  <2>3. /\ pc'[t] = "unbanhist" /\ loc'[t].ip = loc[t].ip
        /\ \A u \in Threads : u # t => pc'[u] = pc[u] /\ loc'[u] = loc[u]
    BY <1>0, <2>1 DEF Goto
  <2> QED  BY <1>3, <2>2, <2>3
<1> QED  BY <1>4, <1>5

\* The lines themselves.
LEMMA HistoryLines ==
    ASSUME OneWriter, TypeOK, HistoryInv, NEW t \in Threads, BanHistory(t) \/ UnbanHistory(t)
    PROVE  HistoryInv'
<1> USE DEF whitelist, env
<1>0. /\ pc \in [Threads -> Labels] /\ loc \in [Threads -> Locals]
      /\ hist \in [IPs -> Line \cup {NoLine}]
      /\ loc[t].ip \in IPs /\ UNCHANGED <<rows, clock, crashes>> /\ Banned' = Banned
  BY DEF TypeOK, LocalsOK, SharedOK, BanHistory, UnbanHistory, Critical, BanLabels, UnbanLabels, Banned
<1>1. \E action \in {"BAN", "UNBAN"} :
         /\ hist' = [hist EXCEPT ![loc[t].ip] = [action |-> action, at |-> clock]]
         /\ loc[t].ip \in Banned <=> action = "BAN"
  BY DEF BanHistory, UnbanHistory, Log, OneWriter, HistoryInv
<1>2. \E label \in {"idle", "loop"} : pc' = [pc EXCEPT ![t] = label]
  BY DEF BanHistory, UnbanHistory, Done, Goto
<1>3. \A u \in Threads : u # t => pc'[u] = pc[u] /\ loc'[u] = loc[u]
  BY <1>0 DEF BanHistory, UnbanHistory, Done, Goto
<1>4. ASSUME NEW u \in Threads
      PROVE  /\ pc'[u] \notin {"blcand", "blinsert", "blhist"}
             /\ pc'[u] \in {"fwadd", "banhist"} => loc'[u].ip \in Banned'
             /\ pc'[u] = "unbanhist" => loc'[u].ip \notin Banned'
  BY <1>0, <1>2, <1>3 DEF HistoryInv
<1>5. ASSUME NEW ip \in IPs, crashes' = 0
      PROVE  Agrees(ip)' \/ \E u \in Threads : Unlogged(u)' /\ loc'[u].ip = ip
  <2>1. CASE ip = loc[t].ip
    <3>1. ip \in Banned => rows[ip].at <= clock
      BY DEF HistoryInv
    <3>2. hist'[ip].at = clock /\ (hist'[ip].action = "BAN" <=> ip \in Banned)
      BY <1>0, <1>1, <2>1
    <3> QED  BY <1>0, <3>1, <3>2 DEF Agrees, LastIsBan
  <2>2. CASE ip # loc[t].ip
    <3>1. hist'[ip] = hist[ip]
      BY <1>0, <1>1, <2>2
    <3>2. Agrees(ip)' = Agrees(ip)
      BY <1>0, <3>1 DEF Agrees, LastIsBan, Outlived
    <3> QED  BY <1>0, <1>3, <1>5, <2>2, <3>2 DEF HistoryInv, Unlogged
  <2> QED  BY <2>1, <2>2
<1>6. \A ip \in Banned' : rows'[ip].at <= clock'
  BY <1>0 DEF HistoryInv
<1> QED  BY <1>4, <1>5, <1>6 DEF HistoryInv

\* The retention deletes the line of a ban only if the ban itself is as old.
LEMMA HistoryPruned ==
    ASSUME TypeOK, HistoryInv, PruneHistory
    PROVE  HistoryInv'
<1>0. /\ rows \in [IPs -> Row \cup {NoRow}] /\ hist \in [IPs -> Line \cup {NoLine}] /\ clock \in Nat
      /\ UNCHANGED <<rows, clock, pc, loc, crashes>> /\ Banned' = Banned
  BY DEF PruneHistory, whitelist, env, TypeOK, SharedOK, Banned
<1>1. ASSUME NEW ip \in IPs, Agrees(ip) PROVE Agrees(ip)'
  <2>1. /\ Retention \in Nat /\ Retention > 0
        /\ hist'[ip] = IF hist[ip].at < clock - Retention THEN NoLine ELSE hist[ip]
    BY DataAssumption DEF PruneHistory
  <2>2. NoLine.action # "BAN"
    BY DEF NoLine
  <2>3. CASE hist'[ip] = hist[ip]
    BY <1>0, <1>1, <2>3 DEF Agrees, LastIsBan, Outlived
  <2>4. CASE hist'[ip] = NoLine /\ hist[ip].at < clock - Retention
    <3>1. CASE ip \notin Banned
      BY <1>0, <2>2, <2>4, <3>1 DEF Agrees, LastIsBan
    <3>2. CASE ip \in Banned
      <4>1. rows[ip].at \in Nat /\ hist[ip].at \in Nat
        BY <1>0, <3>2 DEF Banned, Row, Line, NoLine
      <4>2. rows[ip].at < clock - Retention
        BY <1>0, <1>1, <2>1, <2>4, <3>2, <4>1 DEF Agrees, Outlived
      <4> QED  BY <1>0, <2>1, <2>4, <3>2, <4>2 DEF Agrees, Outlived
    <3> QED  BY <3>1, <3>2
  <2> QED  BY <2>1, <2>3, <2>4
<1> QED  BY <1>0, <1>1 DEF HistoryInv, Unlogged

\* Time makes bans older, also than the retention.
LEMMA HistoryTick ==
    ASSUME TypeOK, HistoryInv, Tick
    PROVE  HistoryInv'
<1>0. /\ rows \in [IPs -> Row \cup {NoRow}] /\ clock \in Nat /\ clock' = clock + 1
      /\ UNCHANGED <<rows, hist, pc, loc, crashes>> /\ Banned' = Banned /\ Retention \in Nat
  BY DataAssumption DEF Tick, whitelist, TypeOK, SharedOK, Banned
<1>1. \A ip \in Banned : rows[ip].at \in Nat
  BY <1>0 DEF Banned, Row
<1>2. ASSUME NEW ip \in IPs, Agrees(ip) PROVE Agrees(ip)'
  BY <1>0, <1>1, <1>2 DEF Agrees, LastIsBan, Outlived
<1>3. \A ip \in Banned' : rows'[ip].at <= clock'
  BY <1>0, <1>1 DEF HistoryInv
<1> QED  BY <1>0, <1>2, <1>3 DEF HistoryInv, Unlogged

LEMMA HistoryContinue ==
    ASSUME OneWriter, TypeOK, MutexHeld, HistoryInv, NEW t \in Threads, Continue(t)
    PROVE  HistoryInv'
<1> USE QuietHistory DEF whitelist, env, Unlogged
<1>1. CASE BanStep(t)
  <2>1. CASE BanCheck(t) \/ BanExists(t)
    <3>1. /\ UNCHANGED <<rows, hist, clock, crashes>> /\ pc[t] \in {"check", "exists"}
          /\ \E label \in {"idle", "exists", "insert"} : \E l : Goto(t, label, l)
      BY <2>1 DEF BanCheck, BanExists, Done
    <3> QED  BY <3>1
  <2>2. CASE BanFWAdd(t)
    <3>1. loc[t].ip \in Banned
      BY <2>2 DEF BanFWAdd, HistoryInv
    <3> QED  BY <2>2, <3>1 DEF BanFWAdd
  <2> QED  BY <1>1, <2>1, <2>2, HistoryRows, HistoryLines DEF BanStep
<1>2. CASE UnbanStep(t)
  <2>1. CASE UnbanLock(t) \/ LoopEnd(t)
    <3>1. /\ UNCHANGED <<rows, hist, clock, crashes>> /\ pc[t] = "loop"
          /\ \E label \in {"fwdel", "idle"} : \E l : Goto(t, label, l)
      BY <2>1 DEF UnbanLock, LoopEnd
    <3> QED  BY <3>1
  <2>2. CASE UnbanFWDel(t) \/ UnbanStored(t)
    BY <2>2 DEF UnbanFWDel, UnbanStored
  <2> QED  BY <1>2, <2>1, <2>2, HistoryRows, HistoryLines DEF UnbanStep
<1>3. CASE WhitelistStep(t)
  BY <1>3 DEF WhitelistStep, WlLoad, WlScan, Unbanning
<1>4. CASE BlocklistStep(t)
  BY <1>4 DEF BlocklistStep, BlCandidates, BlInsert, BlAddBatch, BlHistory, BlAutoUnban, HistoryInv
<1> QED  BY <1>1, <1>2, <1>3, <1>4 DEF Continue

LEMMA HistoryElse ==
    ASSUME OneWriter, TypeOK, HistoryInv,
           \/ Boot \/ \E p \in Procs : Crash(p)
           \/ Reboot \/ FirewallFlush \/ UNCHANGED vars
    PROVE  HistoryInv'
<1> USE DEF whitelist, env, BootStep
<1>0. /\ pc \in [Threads -> Labels] /\ loc \in [Threads -> Locals] /\ "main" \in Threads /\ crashes \in Nat
  BY DEF TypeOK, LocalsOK, SharedOK, Threads, Workers, Fixed
<1>1. CASE Start \/ BootCaches \/ FirewallFlush \/ UNCHANGED vars
  <2>1. UNCHANGED <<rows, hist, clock, pc, loc, crashes>>
    BY <1>1 DEF Start, BootCaches, FirewallFlush, vars, OneWriter
  <2> QED  BY <2>1, StillHistory
<1>2. CASE BootGeoIP \/ BootExpired
  <2>1. /\ UNCHANGED <<rows, hist, clock, crashes>> /\ pc["main"] = "idle"
        /\ \E l : Goto("main", "loop", l)
    BY <1>2 DEF BootGeoIP, BootExpired, ReconcileFails, Unbanning, OneWriter
  <2> QED  BY <1>0, <2>1, QuietHistory DEF Unlogged
<1>3. CASE BootActive \/ BootReadd
  <2>1. /\ UNCHANGED <<rows, hist, clock, pc, crashes>> /\ pc["main"] = "idle"
        /\ \A u \in Threads : u # "main" => loc'[u] = loc[u]
    BY <1>0, <1>3 DEF BootActive, BootReadd, ReconcileFails, OneWriter
  <2> QED  BY <2>1, StillHistory
<1>4. CASE Reboot \/ \E p \in Procs : Crash(p)
  <2>1. /\ UNCHANGED <<rows, clock>> /\ crashes' # 0
        /\ \A u \in Threads : pc'[u] = "idle"
    BY <1>0, <1>4 DEF Reboot, Crash, Halt, Proc, Procs, OneWriter
  <2> QED  BY <2>1 DEF HistoryInv, Banned
<1> QED  BY <1>1, <1>2, <1>3, <1>4 DEF Boot

\* With one process that bans, no blocklist sync and a table that takes what is
\* written to it, the last line of an address with a row is its BAN, unless the ban
\* is older than the retention, and without a row it is no BAN; until the first crash
\* and except for the address Ban or Unban is working on.  Failing calls of ipset and
\* the dry-run mode change nothing about it, nor does the moment of the pruning.
THEOREM HistoryFollows ==
    ASSUME OneWriter
    PROVE  Spec => []HistoryMatchesRows
<1>1. Init => HistoryInv
  BY DEF Init, HistoryInv, Banned, Agrees, LastIsBan, NoLine
<1>2. TypeOK /\ MutexHeld /\ HistoryInv /\ [Next]_vars => HistoryInv'
  BY HistoryBegin, HistoryContinue, HistoryElse, HistoryPruned, HistoryTick DEF Next
<1>3. HistoryInv => HistoryMatchesRows
  BY DEF HistoryInv, HistoryMatchesRows, Agrees, Touched, Unlogged, Critical, BanLabels, UnbanLabels
<1> QED  BY <1>1, <1>2, <1>3, TypeCorrect, LockProtects, PTL DEF Spec

-----------------------------------------------------------------------------
(* Enforcement.                                                            *)

\* One daemon, and neither a statement nor an ipset add fails. An ipset del may.
AddsAndStores == OneDaemon /\ Faults \subseteq {"del"}

\* Between the row and its entry, or the entry deleted and its row.
Unenforced(t) == pc[t] \in {"fwadd", "stored", "delete"}

\* The entry to add lasts as long as the row, also as the row will be, the reconcile has the time left of
\* every row, and while the workers run only an address between row and entry is
\* not covered.
EnforceInv ==
    /\ \A t \in Threads :
          pc[t] = "insert" => LET d == loc[t].stamp
                                  until == loc[t].until
                              IN  d = 0 \/ (until > 0 /\ until <= clock + d)
    /\ \A t \in Threads :
          pc[t] = "fwadd" => LET row == rows[loc[t].ip]
                                 d == loc[t].stamp
                             IN  d = 0 \/ (row.until > 0 /\ row.until <= clock + d)
    /\ boot # "up" => pc["main"] \notin BanLabels
    /\ boot \in {"active", "readd"} => loc["main"].stamp <= clock
    /\ boot = "readd" =>
          \A ip \in Banned : loc["main"].batch[ip] = Remaining(rows[ip], loc["main"].stamp)
    /\ boot = "up" =>
          \A ip \in IPs : InForce(ip) => \/ Covers(ip)
                                         \/ \E t \in Threads : Unenforced(t) /\ loc[t].ip = ip

LEMMA QuietEnforce ==
    ASSUME TypeOK, EnforceInv, NEW t \in Threads, NEW label, NEW l, Goto(t, label, l),
           UNCHANGED <<rows, ipset, clock, boot>>, boot = "up" \/ (t = "main" /\ boot # "readd"),
           label # "fwadd", boot # "up" => label \notin BanLabels,
           label = "insert" => l.stamp = 0 \/ (l.until > 0 /\ l.until <= clock + l.stamp),
           boot = "active" => l.stamp <= clock,
           Unenforced(t) => loc[t].ip \notin Banned \/ (label \in {"stored", "delete"} /\ l.ip = loc[t].ip)
    PROVE  EnforceInv'
<1>1. /\ pc \in [Threads -> Labels] /\ loc \in [Threads -> Locals] /\ "main" \in Threads
      /\ pc' = [pc EXCEPT ![t] = label] /\ loc' = [loc EXCEPT ![t] = l]
  BY DEF TypeOK, LocalsOK, Goto, Threads, Workers, Fixed
<1>2. Banned' = Banned
  BY DEF Banned
<1>3. ASSUME NEW u \in Threads, Unenforced(u), loc[u].ip \in Banned
      PROVE  Unenforced(u)' /\ loc'[u].ip = loc[u].ip
  BY <1>1, <1>3 DEF Unenforced
<1>4. ASSUME NEW ip \in IPs, boot' = "up", InForce(ip)'
      PROVE  Covers(ip)' \/ \E u \in Threads : Unenforced(u)' /\ loc'[u].ip = ip
  <2>1. InForce(ip) /\ ip \in Banned
    BY <1>2, <1>4 DEF InForce
  <2>2. CASE Covers(ip)
    BY <2>2 DEF Covers
  <2>3. CASE ~Covers(ip)
    BY <1>3, <1>4, <2>1, <2>3 DEF EnforceInv
  <2> QED  BY <2>2, <2>3
<1>5. ASSUME NEW u \in Threads, pc'[u] = "fwadd"
      PROVE  loc'[u].stamp = 0 \/ (rows'[loc'[u].ip].until > 0 /\ rows'[loc'[u].ip].until <= clock' + loc'[u].stamp)
  BY <1>1, <1>5 DEF EnforceInv
<1>6. boot' # "up" => pc'["main"] \notin BanLabels
  BY <1>1 DEF EnforceInv
<1>7. boot' \in {"active", "readd"} => loc'["main"].stamp <= clock'
  BY <1>1 DEF EnforceInv
<1>8. ASSUME NEW u \in Threads, pc'[u] = "insert"
      PROVE  loc'[u].stamp = 0 \/ (loc'[u].until > 0 /\ loc'[u].until <= clock' + loc'[u].stamp)
  BY <1>1, <1>8 DEF EnforceInv
<1> QED  BY <1>4, <1>5, <1>6, <1>7, <1>8 DEF EnforceInv

LEMMA EnforceBegin ==
    ASSUME AddsAndStores, TypeOK, OrphanInv, EnforceInv, NEW t \in Threads, Begin(t)
    PROVE  EnforceInv'
<1> USE DEF whitelist, env
<1>0. OneDaemon /\ (Ready(t) => boot = "up" /\ ~Unenforced(t))
  BY DEF AddsAndStores, OneDaemon, Ready, Unenforced
<1>1. CASE ExpirySnapshot(t) \/ CliUnban(t)
  <2>1. Ready(t) /\ UNCHANGED <<rows, ipset, clock, boot>> /\ \E l : Goto(t, "loop", l)
    BY <1>1 DEF ExpirySnapshot, CliUnban, Unbanning
  <2> QED  BY <1>0, <2>1, QuietEnforce
<1>2. ASSUME NEW ip \in IPs, BanLock(t, ip)
      PROVE  EnforceInv'
  BY <1>0, <1>2, QuietEnforce DEF BanLock
<1>3. ASSUME NEW list \in Whitelists, WlReplace(t, list)
      PROVE  EnforceInv'
  BY <1>0, <1>3, QuietEnforce DEF WlReplace
<1>4. CASE WlReload(t) \/ WlFlush(t)
  <2>1. UNCHANGED <<rows, ipset, pc, loc, boot, clock>>
    BY <1>4 DEF WlReload, WlFlush
  <2> QED  BY <2>1 DEF EnforceInv, Banned, InForce, Covers, Unenforced, Remaining
<1>5. ASSUME NEW desired \in Blocklists, BlActive(t, desired)
      PROVE  FALSE
  BY <1>0, <1>5 DEF BlActive, BlSyncs, OneDaemon
<1>6. ~CliConfig(t)
  BY <1>0 DEF CliConfig, OneDaemon
<1> QED  BY <1>1, <1>2, <1>3, <1>4, <1>5, <1>6 DEF Begin

\* The statements around a row and its entry.
LEMMA EnforceRows ==
    ASSUME AddsAndStores, TypeOK, OrphanInv, EnforceInv, NEW t \in Threads,
           BanInsert(t) \/ BanFWAdd(t) \/ UnbanFWDel(t) \/ UnbanDelete(t)
    PROVE  EnforceInv'
<1> USE DEF whitelist, env
<1>0. /\ pc \in [Threads -> Labels] /\ loc \in [Threads -> Locals] /\ "main" \in Threads
      /\ rows \in [IPs -> Row \cup {NoRow}] /\ ipset \in [IPs -> Nat \cup {Absent}]
      /\ clock \in Nat /\ Critical(t) /\ loc[t].ip \in IPs /\ loc[t].stamp \in Nat
      /\ loc[t].until \in Nat /\ UNCHANGED <<boot, clock>> /\ OneDaemon
  BY DEF TypeOK, LocalsOK, SharedOK, Locals, Threads, Workers, Fixed, BanInsert, BanFWAdd, UnbanFWDel,
         UnbanDelete, Critical, BanLabels, UnbanLabels, AddsAndStores
<1>1. /\ boot = "up" \/ (t = "main" /\ boot # "readd")
      /\ pc[t] \in BanLabels => boot = "up"
  BY <1>0, Running DEF EnforceInv, Critical, BanLabels, UnbanLabels, OneDaemon, OrphanInv
<1>2. ASSUME NEW u \in Threads, u # t
      PROVE  ~Unenforced(u)
  BY <1>0, <1>2, OneInside DEF OneDaemon, OrphanInv, Unenforced, Critical, BanLabels, UnbanLabels
\* What each of them has to show.
<1>3. ASSUME \A u \in Threads : u # t => pc'[u] = pc[u] /\ loc'[u] = loc[u],
             loc'[t].ip = loc[t].ip, pc'[t] \in BanLabels => pc[t] \in BanLabels,
             loc'[t].stamp = loc[t].stamp, pc'[t] # "insert",
             pc'[t] = "fwadd" =>
                \/ loc'[t].stamp = 0
                \/ rows'[loc[t].ip].until > 0 /\ rows'[loc[t].ip].until <= clock + loc'[t].stamp,
             \A ip \in IPs : ip # loc[t].ip => rows'[ip] = rows[ip] /\ ipset'[ip] = ipset[ip],
             Unenforced(t)' \/ (InForce(loc[t].ip)' => Covers(loc[t].ip)')
      PROVE  EnforceInv'
  <2>1. ASSUME NEW u \in Threads, pc'[u] = "fwadd"
        PROVE  \/ loc'[u].stamp = 0
               \/ rows'[loc'[u].ip].until > 0 /\ rows'[loc'[u].ip].until <= clock' + loc'[u].stamp
    <3>1. u = t
      BY <1>2, <1>3, <2>1 DEF Unenforced
    <3> QED  BY <1>0, <1>3, <2>1, <3>1
  <2>6. ASSUME NEW u \in Threads, pc'[u] = "insert"
        PROVE  \/ loc'[u].stamp = 0
               \/ loc'[u].until > 0 /\ loc'[u].until <= clock' + loc'[u].stamp
    BY <1>0, <1>3, <2>6 DEF EnforceInv
  <2>2. boot' # "up" => pc'["main"] \notin BanLabels
    BY <1>0, <1>1, <1>3 DEF EnforceInv
  <2>3. boot' \in {"active", "readd"} => loc'["main"].stamp <= clock'
    BY <1>0, <1>1, <1>3 DEF EnforceInv, BanLabels
  <2>4. boot' # "readd"
    BY <1>0, <1>1
  <2>5. ASSUME NEW ip \in IPs, boot' = "up", InForce(ip)'
        PROVE  Covers(ip)' \/ \E u \in Threads : Unenforced(u)' /\ loc'[u].ip = ip
    <3>1. CASE ip = loc[t].ip
      BY <1>3, <2>5, <3>1
    <3>2. CASE ip # loc[t].ip
      <4>1. rows'[ip] = rows[ip] /\ ipset'[ip] = ipset[ip]
        BY <1>3, <3>2
      <4>2. InForce(ip)
        BY <1>0, <2>5, <4>1 DEF InForce, Banned
      <4>3. Covers(ip)
        BY <1>0, <1>2, <2>5, <3>2, <4>2 DEF EnforceInv
      <4> QED  BY <4>1, <4>3 DEF Covers
    <3> QED  BY <3>1, <3>2
  <2> QED  BY <2>1, <2>2, <2>3, <2>4, <2>5, <2>6 DEF EnforceInv
<1>4. ASSUME BanInsert(t) PROVE EnforceInv'
  <2>1. CASE Done(t) /\ UNCHANGED rows
    <3>1. /\ pc[t] = "insert" /\ boot = "up" /\ UNCHANGED <<ipset, boot, clock, rows>>
          /\ Goto(t, "idle", NoLocals)
      BY <1>1, <1>4, <2>1 DEF BanInsert, BanLabels, Done
    <3> QED  BY <3>1, QuietEnforce DEF Unenforced
  <2>2. ASSUME Insert(t), Goto(t, "fwadd", loc[t])
        PROVE  EnforceInv'
    <3>1. /\ pc'[t] = "fwadd" /\ loc'[t] = loc[t]
          /\ \A u \in Threads : u # t => pc'[u] = pc[u] /\ loc'[u] = loc[u]
          /\ pc[t] = "insert" /\ UNCHANGED ipset
      BY <1>0, <1>4, <2>2 DEF Goto, BanInsert
    <3>2. rows' = [rows EXCEPT ![loc[t].ip] = NewRow(loc[t].until, SourceOf(t))]
      BY <2>2 DEF Insert
    <3>3. rows'[loc[t].ip].until = loc[t].until
      BY <1>0, <3>2 DEF NewRow
    <3>4. loc[t].stamp = 0 \/ (loc[t].until > 0 /\ loc[t].until <= clock + loc[t].stamp)
      BY <3>1 DEF EnforceInv
    <3>5. \A ip \in IPs : ip # loc[t].ip => rows'[ip] = rows[ip] /\ ipset'[ip] = ipset[ip]
      BY <1>0, <3>1, <3>2
    <3> QED  BY <1>3, <3>1, <3>3, <3>4, <3>5 DEF Unenforced, BanLabels
  <2> QED  BY <1>4, <2>1, <2>2 DEF BanInsert
<1>5. ASSUME BanFWAdd(t) PROVE EnforceInv'
  <2>1. /\ pc[t] = "fwadd" /\ ipset' = [ipset EXCEPT ![loc[t].ip] = EntryEnd(loc[t].stamp)]
        /\ UNCHANGED rows /\ Goto(t, "banhist", loc[t])
    BY <1>5 DEF BanFWAdd, AddsAndStores
  <2>2. /\ pc'[t] = "banhist" /\ loc'[t].ip = loc[t].ip /\ loc'[t].stamp = loc[t].stamp
        /\ \A u \in Threads : u # t => pc'[u] = pc[u] /\ loc'[u] = loc[u]
    BY <1>0, <2>1 DEF Goto
  <2>3. loc[t].stamp = 0 \/ (rows[loc[t].ip].until > 0 /\ rows[loc[t].ip].until <= clock + loc[t].stamp)
    BY <2>1 DEF EnforceInv
  <2>4. ipset'[loc[t].ip] = EntryEnd(loc[t].stamp)
    BY <1>0, <2>1
  <2>5. Covers(loc[t].ip)'
    BY <2>1, <2>2, <2>3, <2>4 DEF Covers, EntryEnd, Forever
  <2>6. \A ip \in IPs : ip # loc[t].ip => rows'[ip] = rows[ip] /\ ipset'[ip] = ipset[ip]
    BY <1>0, <2>1
  <2> QED  BY <1>3, <2>1, <2>2, <2>5, <2>6 DEF BanLabels
<1>6. ASSUME UnbanFWDel(t) PROVE EnforceInv'
  <2>1. /\ ipset' = [ipset EXCEPT ![loc[t].ip] = Absent] \/ UNCHANGED ipset
        /\ UNCHANGED rows /\ Goto(t, "stored", loc[t])
    BY <1>6 DEF UnbanFWDel
  <2>2. /\ pc'[t] = "stored" /\ loc'[t].ip = loc[t].ip /\ loc'[t].stamp = loc[t].stamp
        /\ \A u \in Threads : u # t => pc'[u] = pc[u] /\ loc'[u] = loc[u]
    BY <1>0, <2>1 DEF Goto
  <2>3. \A ip \in IPs : ip # loc[t].ip => rows'[ip] = rows[ip] /\ ipset'[ip] = ipset[ip]
    BY <1>0, <2>1
  <2> QED  BY <1>3, <2>2, <2>3 DEF BanLabels, Unenforced
<1>7. ASSUME UnbanDelete(t) PROVE EnforceInv'
  <2>1. rows' = [rows EXCEPT ![loc[t].ip] = NoRow] /\ UNCHANGED ipset /\ Goto(t, "unbanhist", loc[t])
    BY <1>7 DEF UnbanDelete, AddsAndStores
  <2>2. /\ pc'[t] = "unbanhist" /\ loc'[t].ip = loc[t].ip /\ loc'[t].stamp = loc[t].stamp
        /\ \A u \in Threads : u # t => pc'[u] = pc[u] /\ loc'[u] = loc[u]
    BY <1>0, <2>1 DEF Goto
  <2>3. \A ip \in IPs : ip # loc[t].ip => rows'[ip] = rows[ip] /\ ipset'[ip] = ipset[ip]
    BY <1>0, <2>1
  <2>4. ~InForce(loc[t].ip)'
    BY <1>0, <2>1, <2>2 DEF InForce, Banned
  <2> QED  BY <1>3, <2>2, <2>3, <2>4 DEF BanLabels
<1> QED  BY <1>4, <1>5, <1>6, <1>7

LEMMA EnforceContinue ==
    ASSUME AddsAndStores, TypeOK, OrphanInv, EnforceInv, NEW t \in Threads, Continue(t)
    PROVE  EnforceInv'
<1> USE DEF whitelist, env
<1>0. /\ pc \in [Threads -> Labels] /\ loc \in [Threads -> Locals] /\ OneDaemon
      /\ boot = "active" /\ t = "main" => loc[t].stamp <= clock
  BY DEF TypeOK, LocalsOK, AddsAndStores, EnforceInv
<1>1. pc[t] # "idle" => /\ boot = "up" \/ (t = "main" /\ boot # "readd")
                        /\ pc[t] \in BanLabels => boot = "up"
                        /\ boot = "active" => loc[t].stamp <= clock
  BY <1>0, Running DEF EnforceInv
<1>2. CASE BanStep(t)
  <2>3. ASSUME NEW d \in BanTimes(t), pc[t] = "exists", UNCHANGED <<rows, ipset, clock, boot>>,
               Goto(t, "insert", [loc[t] EXCEPT !.stamp = d,
                                                !.until = IF d = 0 THEN 0 ELSE clock + d])
        PROVE  EnforceInv'
    <3> DEFINE l == [loc[t] EXCEPT !.stamp = d, !.until = IF d = 0 THEN 0 ELSE clock + d]
    <3>1. l.stamp = d /\ l.until = (IF d = 0 THEN 0 ELSE clock + d) /\ d \in Nat /\ clock \in Nat
      BY <1>0, DataAssumption DEF Locals, BanTimes, TypeOK, SharedOK
    <3>2. boot = "up" /\ ~Unenforced(t)
      BY <1>1, <2>3 DEF BanLabels, Unenforced
    <3> HIDE DEF l
    <3>3. Goto(t, "insert", l)
      BY <2>3 DEF l
    <3> QED  BY <2>3, <3>1, <3>2, <3>3, QuietEnforce
  <2>1. ASSUME BanCheck(t) \/ BanExists(t) \/ BanHistory(t),
               \E label \in {"idle", "exists"}, l \in {NoLocals, loc[t]} : Goto(t, label, l)
        PROVE  EnforceInv'
    <3>1. /\ pc[t] \in {"check", "exists", "banhist"} /\ UNCHANGED <<rows, ipset, clock, boot>>
          /\ \E label \in {"idle", "exists"}, l \in {NoLocals, loc[t]} : Goto(t, label, l)
      BY <2>1 DEF BanCheck, BanExists, BanHistory
    <3>2. pc[t] \in BanLabels /\ ~Unenforced(t)
      BY <3>1 DEF BanLabels, Unenforced
    <3> QED  BY <1>1, <3>1, <3>2, QuietEnforce
  <2>2. ASSUME BanCheck(t) \/ BanExists(t) \/ BanHistory(t) PROVE EnforceInv'
    BY <2>1, <2>2, <2>3 DEF BanCheck, BanExists, BanHistory, Done
  <2> QED  BY <1>2, <2>2, EnforceRows DEF BanStep
<1>3. CASE UnbanStep(t)
  <2>1. ASSUME UnbanLock(t) \/ LoopEnd(t) \/ UnbanHistory(t) PROVE EnforceInv'
    <3>1. /\ pc[t] \in {"loop", "unbanhist"} /\ UNCHANGED <<rows, ipset, clock, boot>>
          /\ \E label \in {"idle", "loop", "fwdel"} : \E l : Goto(t, label, l) /\ l.stamp = loc[t].stamp
      <4>1. loc[t] \in Locals /\ NoLocals \in Locals
        BY <1>0, NoLocalsTyped
      <4>2. CASE UnbanLock(t)
        <5>1. PICK ip \in loc[t].todo : Goto(t, "fwdel", [loc[t] EXCEPT !.ip = ip, !.todo = @ \ {ip}])
          BY <4>2 DEF UnbanLock
        <5>2. [loc[t] EXCEPT !.ip = ip, !.todo = @ \ {ip}].stamp = loc[t].stamp
          BY <4>1 DEF Locals
        <5> QED  BY <4>2, <5>1, <5>2 DEF UnbanLock
      <4>3. CASE LoopEnd(t)
        <5>1. [NoLocals EXCEPT !.stamp = loc[t].stamp].stamp = loc[t].stamp
          BY <4>1 DEF Locals
        <5> QED  BY <4>3, <5>1 DEF LoopEnd
      <4>4. CASE UnbanHistory(t)
        BY <4>4 DEF UnbanHistory
      <4> QED  BY <2>1, <4>2, <4>3, <4>4
    <3>2. ~Unenforced(t) /\ {"idle", "loop", "fwdel"} \cap BanLabels = {}
      BY <3>1 DEF Unenforced, BanLabels
    <3> QED  BY <1>1, <3>1, <3>2, QuietEnforce
  <2>2. ASSUME UnbanStored(t) PROVE EnforceInv'
    <3>1. /\ pc[t] = "stored" /\ UNCHANGED <<rows, ipset, clock, boot>>
          /\ \/ loc[t].ip \in Banned /\ Goto(t, "delete", loc[t])
             \/ loc[t].ip \notin Banned /\ Goto(t, "loop", loc[t])
      BY <2>2 DEF UnbanStored, AddsAndStores
    <3> QED  BY <1>1, <3>1, QuietEnforce DEF BanLabels
  <2> QED  BY <1>3, <2>1, <2>2, EnforceRows DEF UnbanStep
<1>4. CASE WhitelistStep(t)
  <2>1. /\ pc[t] \in {"wlload", "wlscan"} /\ UNCHANGED <<rows, ipset, clock, boot>>
        /\ \E label \in {"wlscan", "loop"} : \E l : Goto(t, label, l) /\ l.stamp \in {0, loc[t].stamp}
    <3>1. \A S : [NoLocals EXCEPT !.todo = S].stamp = 0
      BY DEF NoLocals
    <3> QED  BY <1>4, <3>1 DEF WhitelistStep, WlLoad, WlScan, Unbanning, AddsAndStores
  <2>2. ~Unenforced(t) /\ {"wlscan", "loop"} \cap BanLabels = {} /\ 0 <= clock
    BY <2>1 DEF Unenforced, BanLabels, TypeOK, SharedOK
  <2> QED  BY <1>1, <2>1, <2>2, QuietEnforce
<1>5. CASE BlocklistStep(t)
  BY <1>5 DEF BlocklistStep, BlCandidates, BlInsert, BlAddBatch, BlHistory, BlAutoUnban,
              OrphanInv, OrderKept
<1> QED  BY <1>2, <1>3, <1>4, <1>5 DEF Continue

\* The reconcile adds every ban in force for at least the time it has left.
LEMMA EnforceBoot ==
    ASSUME AddsAndStores, TypeOK, OrphanInv, EnforceInv, Boot
    PROVE  EnforceInv'
<1> USE DEF BootStep, whitelist
<1>9. /\ "db" \notin Faults
      /\ ~ReconcileFails("expired") /\ ~ReconcileFails("active")
  BY DEF AddsAndStores, ReconcileFails
<1>0. /\ pc \in [Threads -> Labels] /\ loc \in [Threads -> Locals] /\ "main" \in Threads
      /\ rows \in [IPs -> Row \cup {NoRow}] /\ ipset \in [IPs -> Nat \cup {Absent}]
      /\ clock \in Nat /\ UNCHANGED <<rows, clock>>
  BY DEF TypeOK, LocalsOK, SharedOK, Threads, Workers, Fixed, Boot, Start, BootCaches, BootGeoIP,
         BootExpired, BootActive, BootReadd
<1>1. boot # "up" /\ (\A u \in Threads : pc[u] = "idle")
  BY <1>9 DEF Boot, Start, BootCaches, BootGeoIP, BootExpired, BootActive, BootReadd, OrphanInv,
              OrderKept
<1>2. \A u \in Threads : pc'[u] \in {"idle", "loop"}
  BY <1>0, <1>1, <1>9 DEF Boot, Start, BootCaches, BootGeoIP, BootExpired, BootActive, BootReadd, Unbanning, Goto
<1>3. CASE Start \/ BootCaches \/ BootGeoIP
  <2>1. boot' \in {"caches", "geoip", "expired"}
    BY <1>3, <1>9 DEF Start, BootCaches, BootGeoIP
  <2> QED  BY <1>0, <1>2, <2>1 DEF EnforceInv, BanLabels
<1>4. CASE BootExpired
  <2>1. boot' = "active" /\ loc'["main"] = [NoLocals EXCEPT !.todo = Expired(clock), !.stamp = clock]
    BY <1>0, <1>4, <1>9 DEF BootExpired, Goto
  <2>2. loc'["main"].stamp = clock
    BY <2>1 DEF NoLocals
  <2> QED  BY <1>0, <1>2, <2>1, <2>2 DEF EnforceInv, BanLabels
<1>5. CASE BootActive
  <2>1. boot = "active" /\ boot' = "readd" /\ Banned' = Banned
    BY <1>5, <1>9 DEF BootActive, Banned
  <2>2. loc'["main"] = [loc["main"] EXCEPT !.batch = [ip \in IPs |-> IF ip \in Banned
                                 THEN Remaining(rows[ip], loc["main"].stamp)
                                 ELSE NotBatched]]
    BY <1>0, <1>5, <1>9 DEF BootActive
  <2>3. /\ loc'["main"].stamp = loc["main"].stamp
        /\ \A ip \in Banned : loc'["main"].batch[ip] = Remaining(rows[ip], loc["main"].stamp)
    BY <1>0, <2>2 DEF Locals, Banned
  <2>4. loc["main"].stamp <= clock
    BY <2>1 DEF EnforceInv
  <2> QED  BY <1>0, <1>2, <2>1, <2>3, <2>4 DEF EnforceInv, BanLabels, Remaining
<1>6. CASE BootReadd
  <2>1. /\ boot = "readd" /\ boot' = "up" /\ Banned' = Banned
        /\ AddBatch(loc["main"].batch)
    BY <1>6 DEF BootReadd, OrphanInv, OrderKept, Banned
  <2> DEFINE now == loc["main"].stamp
             b == loc["main"].batch
  <2>2. now <= clock /\ now \in Nat /\ \A ip \in Banned : b[ip] = Remaining(rows[ip], now)
    BY <1>0, <2>1 DEF EnforceInv, Locals
  <2>3. ipset' = [ip \in IPs |-> IF ip \in Batched(b) THEN EntryEnd(b[ip]) ELSE ipset[ip]]
    BY <2>1 DEF AddBatch, AddsAndStores
  <2> HIDE DEF now, b
  <2>4. ASSUME NEW ip \in IPs, InForce(ip)'
        PROVE  Covers(ip)'
    <3>1. ip \in Banned /\ rows[ip].until \in Nat /\ (rows[ip].until = 0 \/ rows[ip].until > clock)
      BY <1>0, <2>1, <2>4 DEF InForce, Row, Banned
    <3>2. /\ b[ip] \in Nat /\ (rows[ip].until = 0 => b[ip] = 0)
          /\ rows[ip].until > clock => b[ip] = rows[ip].until - now
      BY <1>0, <2>2, <3>1 DEF Remaining
    <3>3. ipset'[ip] = EntryEnd(b[ip])
      BY <2>3, <3>2 DEF Batched, NotBatched
    <3> QED  BY <1>0, <2>2, <3>1, <3>2, <3>3 DEF Covers, EntryEnd, Forever
  <2> QED  BY <1>0, <1>2, <2>1, <2>4 DEF EnforceInv
<1> QED  BY <1>3, <1>4, <1>5, <1>6 DEF Boot

\* The kernel drops an entry when its row is over, not before.
LEMMA EnforceEnvironment ==
    ASSUME AddsAndStores, TypeOK, OrphanInv, EnforceInv,
           \/ (\E p \in Procs : Crash(p)) \/ Reboot
           \/ FirewallFlush \/ PruneHistory \/ Tick \/ UNCHANGED vars
    PROVE  EnforceInv'
<1>0. /\ pc \in [Threads -> Labels] /\ loc \in [Threads -> Locals] /\ "main" \in Threads
      /\ rows \in [IPs -> Row \cup {NoRow}] /\ ipset \in [IPs -> Nat \cup {Absent}]
      /\ clock \in Nat /\ CliProcs = {}
  BY DEF TypeOK, LocalsOK, SharedOK, Threads, Workers, Fixed, AddsAndStores, OneDaemon
<1>1. CASE Reboot \/ \E p \in Procs : Crash(p)
  <2>1. boot' = "down" /\ \A u \in Threads : pc'[u] = "idle"
    BY <1>0, <1>1 DEF Reboot, Crash, Halt, Proc, Procs
  <2> QED  BY <1>0, <2>1 DEF EnforceInv, BanLabels
<1>2. CASE FirewallFlush
  BY <1>0, <1>2 DEF FirewallFlush
<1>3. CASE Tick
  <2>1. /\ UNCHANGED <<rows, pc, loc, boot>> /\ clock' = clock + 1 /\ Banned' = Banned
        /\ \A ip \in IPs : ipset'[ip] = ipset[ip] \/ (ipset[ip] > 0 /\ ipset[ip] <= clock')
    BY <1>0, <1>3 DEF Tick, Banned
  <2>2. ASSUME NEW ip \in IPs, InForce(ip)'
        PROVE  InForce(ip) /\ (Covers(ip) => Covers(ip)')
    <3>1. ip \in Banned /\ rows[ip].until \in Nat
      BY <1>0, <2>1, <2>2 DEF InForce, Row, Banned
    <3>2. InForce(ip)
      BY <1>0, <2>1, <2>2, <3>1 DEF InForce
    <3>3. Covers(ip) => ipset'[ip] = ipset[ip]
      BY <1>0, <2>1, <2>2, <3>1 DEF InForce, Covers, Forever, Absent
    <3> QED  BY <2>1, <3>2, <3>3 DEF Covers
  <2>3. ASSUME NEW u \in Threads, pc'[u] = "fwadd"
        PROVE  \/ loc'[u].stamp = 0
               \/ rows'[loc'[u].ip].until > 0 /\ rows'[loc'[u].ip].until <= clock' + loc'[u].stamp
    <3>1. loc[u].ip \in Banned /\ loc[u].stamp \in Nat
      BY <1>0, <2>1, <2>3 DEF OrphanInv, OrderKept, Locals
    <3>2. rows[loc[u].ip].until \in Nat
      BY <1>0, <3>1 DEF Banned, Row
    <3>3. \/ loc[u].stamp = 0
          \/ rows[loc[u].ip].until > 0 /\ rows[loc[u].ip].until <= clock + loc[u].stamp
      BY <2>1, <2>3 DEF EnforceInv
    <3> QED  BY <1>0, <2>1, <3>1, <3>2, <3>3
  <2>4. boot' \in {"active", "readd"} => loc'["main"].stamp <= clock'
    <3>1. loc["main"].stamp \in Nat
      BY <1>0 DEF Locals
    <3> QED  BY <1>0, <2>1, <3>1 DEF EnforceInv
  <2>5. boot' = "up" => \A ip \in IPs : InForce(ip)' =>
                           Covers(ip)' \/ \E u \in Threads : Unenforced(u)' /\ loc'[u].ip = ip
    BY <2>1, <2>2 DEF EnforceInv, Unenforced
  <2>6. ASSUME NEW u \in Threads, pc'[u] = "insert"
        PROVE  \/ loc'[u].stamp = 0
               \/ loc'[u].until > 0 /\ loc'[u].until <= clock' + loc'[u].stamp
    <3>1. loc[u].until \in Nat /\ loc[u].stamp \in Nat
      BY <1>0 DEF Locals
    <3>2. loc[u].stamp = 0 \/ (loc[u].until > 0 /\ loc[u].until <= clock + loc[u].stamp)
      BY <2>1, <2>6 DEF EnforceInv
    <3> QED  BY <1>0, <2>1, <3>1, <3>2
  <2> QED  BY <2>1, <2>3, <2>4, <2>5, <2>6 DEF EnforceInv, Remaining
<1>4. CASE PruneHistory \/ UNCHANGED vars
  <2>1. UNCHANGED <<rows, ipset, pc, loc, boot, clock>>
    BY <1>4 DEF vars, PruneHistory, env
  <2> QED  BY <2>1 DEF EnforceInv, Banned, InForce, Covers, Unenforced, Remaining
<1> QED  BY <1>1, <1>2, <1>3, <1>4

\* With one daemon whose ipset adds and statements succeed, every ban in force is enforced by the kernel
\* while the workers run, for as long as its row says: whatever crash or reboot came
\* before, whatever the reconcile found, and beyond the longest timeout of ipset.
THEOREM BansAreEnforced ==
    ASSUME AddsAndStores
    PROVE  Spec => []EnforcedWhileBanned
<1>1. Init => EnforceInv
  <2> SUFFICES ASSUME Init
               PROVE  EnforceInv
    OBVIOUS
  <2>1. boot = "down" /\ \A t \in Threads : pc[t] = "idle"
    BY DEF Init
  <2>2. "main" \in Threads
    BY DEF Threads, Workers, Fixed
  <2> QED  BY <2>1, <2>2 DEF EnforceInv, BanLabels
<1>2. TypeOK /\ OrphanInv /\ EnforceInv /\ [Next]_vars => EnforceInv'
  BY EnforceBegin, EnforceContinue, EnforceBoot, EnforceEnvironment DEF Next
<1>3. EnforceInv => EnforcedWhileBanned
  BY DEF EnforceInv, EnforcedWhileBanned, Touched, Unenforced, Critical, BanLabels, UnbanLabels
<1>4. Spec => []OrphanInv
  BY OrphanInvHolds DEF AddsAndStores
<1> QED  BY <1>1, <1>2, <1>3, <1>4, TypeCorrect, PTL DEF Spec
=============================================================================
