------------------------------ MODULE GeoResolver ------------------------------
(***************************************************************************)
(* The country database and its two caches.  A refresh replaces the database *)
(* under running lookups; answers are kept in memory and in SQLite and must  *)
(* not outlive the database they came from.  A database is known by the      *)
(* number of its version on disk, an answer by the version it came from;     *)
(* version 0 is the system's own tool (geoiplookup).  Two versions never     *)
(* carry the same time of modification.                                      *)
(***************************************************************************)
EXTENDS Integers

CONSTANTS
    IPs,
    Lookups,        \* goroutines that may be inside Lookup
    Modes,          \* "auto": downloaded with a license key, "manual": a path
    Expires,        \* TTL > 0: an entry may be too old at any time
    MaxVersion,     \* bound: versions of the database
    MaxStops        \* bound: ends of the daemon

ASSUME ParameterAssumption ==
    /\ IPs # {}
    /\ Modes \subseteq {"auto", "manual"}
    /\ Expires \in BOOLEAN
    /\ {MaxVersion, MaxStops} \subseteq Nat

VARIABLES
    mode,
    disk,           \* version of the file on disk, 0 for none
    good,           \* the file on disk can be opened
    rows,           \* table geoip_cache: answer and db_mtime of an address
    phase,          \* the daemon: "down", "open", "up", "closing", "ending"
    reader,         \* Resolver.reader: a number of its own and its version
    leaving,        \* reader that Close took out and has yet to close
    closed,         \* readers that were closed
    stamp,          \* Resolver.mtime and modTime: version the stat saw
    gen,            \* Resolver.gen
    cache,          \* Resolver.cache
    job,            \* Open or Refresh in progress
    look,           \* goroutine -> its Lookup
    stops

fileVars == <<mode, disk, good, rows>>
memVars == <<reader, leaving, closed, stamp, gen, cache>>
vars == <<fileVars, phase, memVars, job, look, stops>>

None == -1
Answers == 0 .. MaxVersion
NoReader == [id |-> 0, ver |-> 0]
NoRow == [ver |-> None, tag |-> 0]
Empty == [ip \in IPs |-> None]
NoJob == [pc |-> "idle", kind |-> "open", had |-> FALSE, st |-> 0, new |-> 0, old |-> 0, loaded |-> Empty]
NoLookup == [pc |-> "idle", ip |-> CHOOSE ip \in IPs : TRUE, gen |-> 0, rd |-> 0,
             ver |-> None, tag |-> 0]

Cached == {ip \in IPs : cache[ip] # None}
Reading == {w \in Lookups : look[w].pc = "read"}

\* Faulty variant: a writer does not wait for the readers.
Unlocked == TRUE

\* mu, as a writer sees it.
MayWrite == Reading = {}

-----------------------------------------------------------------------------
(* Open and Refresh: one at a time, under refreshMu.                        *)

JobEnds ==
    /\ job' = NoJob
    /\ phase' = IF job.kind = "open" THEN "up" ELSE phase

\* ensureAutoDB: a file younger than a day is taken as it is.
Begun(kind) ==
    (IF mode = "auto" THEN {[NoJob EXCEPT !.kind = kind, !.pc = "install", !.had = disk # 0]} ELSE {})
    \cup (IF mode = "manual" \/ disk # 0 THEN {[NoJob EXCEPT !.kind = kind, !.pc = "stat"]} ELSE {})

Start ==
    /\ phase = "down"
    /\ phase' = "open"
    /\ job' \in Begun("open")
    /\ UNCHANGED <<fileVars, memVars, look, stops>>

\* Worker geoip-refresh.
RefreshBegin ==
    /\ phase = "up" /\ job.pc = "idle"
    /\ job' \in Begun("refresh")
    /\ UNCHANGED <<fileVars, phase, memVars, look, stops>>

\* downloadDB, installDB: the temporary file is opened, and renamed into place only
\* if that succeeds.  A download that fails or is invalid leaves the file on disk, if there was one.
JobInstall ==
    /\ job.pc = "install"
    /\ \/ /\ disk < MaxVersion
          /\ disk' = disk + 1
          /\ good' = TRUE
          /\ job' = [job EXCEPT !.pc = "stat"]
          /\ UNCHANGED phase
       \/ /\ IF job.had THEN job' = [job EXCEPT !.pc = "stat"] /\ UNCHANGED phase
                        ELSE JobEnds
          /\ UNCHANGED <<disk, good>>
    /\ UNCHANGED <<mode, rows, memVars, look, stops>>

JobStat ==
    /\ job.pc = "stat"
    /\ IF disk = 0 \/ (job.kind = "refresh" /\ reader.id # 0 /\ stamp = disk)
       THEN JobEnds
       ELSE job' = [job EXCEPT !.pc = "opendb", !.st = disk] /\ UNCHANGED phase
    /\ UNCHANGED <<fileVars, memVars, look, stops>>

\* The file may have been replaced since the stat.
JobOpenDB ==
    /\ job.pc = "opendb"
    /\ IF good
       THEN /\ job' = [job EXCEPT !.pc = IF job.kind = "open" THEN "load" ELSE "swap", !.new = disk]
            /\ UNCHANGED phase
       ELSE JobEnds
    /\ UNCHANGED <<fileVars, memVars, look, stops>>

\* Rows of the database the stat saw, and of no database.
RowsFor(st) == {ip \in IPs : rows[ip].ver # None /\ rows[ip].tag \in {st, 0}}

\* LoadGeoIPCache: without rows past the TTL, and without any if it fails.
JobLoad ==
    /\ job.pc = "load"
    /\ \E S \in IF Expires THEN SUBSET RowsFor(job.st) ELSE {RowsFor(job.st), {}} :
          job' = [job EXCEPT !.pc = "swap",
                             !.loaded = [ip \in IPs |-> IF ip \in S THEN rows[ip].ver ELSE None]]
    /\ UNCHANGED <<fileVars, phase, memVars, look, stops>>

\* Faulty variant: the time of modification is read after the file was opened.
FreshStat == disk

Stamped == job.st

\* swapReader, under the write lock.
JobSwap ==
    /\ job.pc = "swap"
    /\ MayWrite
    /\ reader' = [id |-> gen + 1, ver |-> job.new]
    /\ gen' = gen + 1
    /\ stamp' = Stamped
    /\ cache' = Empty
    /\ job' = [job EXCEPT !.pc = "closeold", !.old = reader.id]
    /\ UNCHANGED <<fileVars, phase, leaving, closed, look, stops>>

JobCloseOld ==
    /\ job.pc = "closeold"
    /\ closed' = closed \cup ({job.old} \ {0})
    /\ IF job.kind = "open" THEN job' = [job EXCEPT !.pc = "insert"] /\ UNCHANGED phase
                            ELSE JobEnds
    /\ UNCHANGED <<fileVars, reader, leaving, stamp, gen, cache, look, stops>>

JobInsert ==
    /\ job.pc = "insert"
    /\ cache' = [ip \in IPs |-> IF job.loaded[ip] # None THEN job.loaded[ip] ELSE cache[ip]]
    /\ JobEnds
    /\ UNCHANGED <<fileVars, reader, leaving, closed, stamp, gen, look, stops>>

-----------------------------------------------------------------------------
(* Lookup, from several goroutines.                                        *)

Running == phase \in {"up", "closing", "ending"}

\* Under RLock: no answer in memory, or one too old; there is a reader to ask, or
\* the system's tools.  A good answer in memory is returned and changes nothing.
\* A swap that waits for the lock keeps new readers out.
LookupStart(w, ip) ==
    /\ Running
    /\ job.pc # "swap"
    /\ look[w].pc = "idle"
    /\ cache[ip] = None \/ Expires
    /\ look' = [look EXCEPT ![w] = [NoLookup EXCEPT !.ip = ip, !.gen = gen, !.rd = reader.id,
                                        !.pc = IF reader.id # 0 THEN "read" ELSE "legacy"]]
    /\ UNCHANGED <<fileVars, phase, memVars, job, stops>>

\* The reader is asked and RLock released; an address without a country is not kept.
LookupRead(w) ==
    /\ look[w].pc = "read"
    /\ \/ look' = [look EXCEPT ![w] = [@ EXCEPT !.pc = "store", !.rd = 0, !.ver = reader.ver]]
       \/ look' = [look EXCEPT ![w] = NoLookup]
    /\ UNCHANGED <<fileVars, phase, memVars, job, stops>>

\* lookupLegacy: geoiplookup, or mmdblookup on the file if a path is known.
LookupLegacy(w) ==
    /\ look[w].pc = "legacy"
    /\ \/ \E v \in {0} \cup (IF stamp # 0 /\ good THEN {disk} ELSE {}) :
             look' = [look EXCEPT ![w] = [@ EXCEPT !.pc = "store", !.ver = v]]
       \/ look' = [look EXCEPT ![w] = NoLookup]
    /\ UNCHANGED <<fileVars, phase, memVars, job, stops>>

\* pruneLocked: a new address may find the cache full of others; then what is too
\* old goes, or everything.
AfterPrune(ip) ==
    IF cache[ip] # None THEN {cache}
    ELSE {[i \in IPs |-> IF i \in S THEN cache[i] ELSE None] :
              S \in IF Expires THEN SUBSET Cached ELSE {Cached, {}}}

\* Faulty variant: answers of an older generation are kept.
AnyGeneration(w) == TRUE

SameGeneration(w) == look[w].gen = gen

\* storeCache up to the unlock.
StoreCache(w) ==
    /\ look[w].pc = "store"
    /\ IF ~SameGeneration(w)
       THEN /\ look' = [look EXCEPT ![w] = NoLookup]
            /\ UNCHANGED cache
       ELSE /\ \E kept \in AfterPrune(look[w].ip) : cache' = [kept EXCEPT ![look[w].ip] = look[w].ver]
            /\ look' = [look EXCEPT ![w] = [@ EXCEPT !.pc = "upsert", !.gen = 0, !.tag = stamp]]
    /\ MayWrite
    /\ UNCHANGED <<fileVars, phase, reader, leaving, closed, stamp, gen, job, stops>>

\* Faulty variant: the time of modification is read when the row is written.
LateTag(w) == stamp

\* The time of modification is the one read under the lock.
RowTag(w) == look[w].tag

\* UpsertGeoIP; a failure is ignored.
Upsert(w) ==
    /\ look[w].pc = "upsert"
    /\ \/ phase # "ending" /\ rows' = [rows EXCEPT ![look[w].ip] = [ver |-> look[w].ver, tag |-> RowTag(w)]]
       \/ UNCHANGED rows
    /\ look' = [look EXCEPT ![w] = NoLookup]
    /\ UNCHANGED <<mode, disk, good, phase, memVars, job, stops>>

-----------------------------------------------------------------------------
(* The end of the daemon, and what happens around it.                      *)

\* Resolver.Close: nil under the write lock; refreshMu is not taken, and neither
\* lookups nor a refresh are waited for.
CloseGeo ==
    /\ phase = "up"
    /\ MayWrite
    /\ phase' = "closing"
    /\ leaving' = reader.id
    /\ reader' = NoReader
    /\ UNCHANGED <<fileVars, closed, stamp, gen, cache, job, look, stops>>

\* Then the reader is closed, and the store.
CloseReader ==
    /\ phase = "closing"
    /\ phase' = "ending"
    /\ closed' = closed \cup ({leaving} \ {0})
    /\ UNCHANGED <<fileVars, reader, leaving, stamp, gen, cache, job, look, stops>>

\* The process ends, by itself or killed, with whatever runs in it.
Gone ==
    /\ phase # "down"
    /\ stops < MaxStops
    /\ stops' = stops + 1
    /\ phase' = "down"
    /\ reader' = NoReader /\ leaving' = 0 /\ closed' = {}
    /\ stamp' = 0 /\ gen' = 0 /\ cache' = Empty
    /\ job' = NoJob
    /\ look' = [w \in Lookups |-> NoLookup]
    /\ UNCHANGED fileVars

\* A command line downloads as well; a file of the administrator may be anything.
OtherInstalls ==
    /\ disk < MaxVersion
    /\ disk' = disk + 1
    /\ good' \in IF mode = "auto" THEN {TRUE} ELSE BOOLEAN
    /\ UNCHANGED <<mode, rows, phase, memVars, job, look, stops>>

\* geoip-lookup and geoip-sync in a process of their own, with a reader that may
\* be newer than its stat and older than the file.
OtherUpserts(ip) ==
    /\ \E v \in 0 .. disk : \E t \in 0 .. v :
          /\ t = 0 <=> v = 0
          /\ rows' = [rows EXCEPT ![ip] = [ver |-> v, tag |-> t]]
    /\ UNCHANGED <<mode, disk, good, phase, memVars, job, look, stops>>

\* ClearGeoIPCache of a command line, PruneGeoIPCache of the retention.
RowsGo ==
    /\ \E S \in (SUBSET IPs) \ {{}} : rows' = [ip \in IPs |-> IF ip \in S THEN NoRow ELSE rows[ip]]
    /\ UNCHANGED <<mode, disk, good, phase, memVars, job, look, stops>>

Init ==
    /\ mode \in Modes
    /\ disk = 0
    /\ good = FALSE
    /\ rows = [ip \in IPs |-> NoRow]
    /\ phase = "down"
    /\ reader = NoReader /\ leaving = 0 /\ closed = {}
    /\ stamp = 0 /\ gen = 0
    /\ cache = Empty
    /\ job = NoJob
    /\ look = [w \in Lookups |-> NoLookup]
    /\ stops = 0

Job ==
    \/ JobInstall \/ JobStat \/ JobOpenDB
    \/ JobLoad \/ JobSwap \/ JobCloseOld \/ JobInsert

Lookup(w) ==
    \/ \E ip \in IPs : LookupStart(w, ip)
    \/ LookupRead(w) \/ LookupLegacy(w)
    \/ StoreCache(w) \/ Upsert(w)

Next ==
    \/ Start \/ RefreshBegin \/ Job
    \/ \E w \in Lookups : Lookup(w)
    \/ CloseGeo \/ CloseReader \/ Gone
    \/ OtherInstalls \/ RowsGo
    \/ \E ip \in IPs : OtherUpserts(ip)

Spec == Init /\ [][Next]_vars

\* The refresh comes every day, its steps end, and a reader gives its lock back.
FairSpec ==
    /\ Spec
    /\ WF_vars(RefreshBegin) /\ WF_vars(Job)
    /\ \A w \in Lookups : WF_vars(LookupRead(w))

-----------------------------------------------------------------------------
(* Properties.                                                             *)

\* Every variable has its type.
TypeOK ==
    /\ mode \in Modes
    /\ disk \in Answers /\ good \in BOOLEAN
    /\ rows \in [IPs -> [ver : Answers \cup {None}, tag : Answers]]
    /\ phase \in {"down", "open", "up", "closing", "ending"}
    /\ reader \in [id : Nat, ver : Answers]
    /\ leaving \in Nat /\ closed \in SUBSET Nat
    /\ stamp \in Answers /\ gen \in Nat
    /\ cache \in [IPs -> Answers \cup {None}]
    /\ job \in [pc : {"idle", "install", "stat", "opendb", "load", "swap", "closeold", "insert"},
                kind : {"open", "refresh"}, had : BOOLEAN, st : Answers, new : Answers, old : Nat,
                loaded : [IPs -> Answers \cup {None}]]
    /\ look \in [Lookups -> [pc : {"idle", "read", "legacy", "store", "upsert"},
                             ip : IPs, gen : Nat, rd : Nat, ver : Answers \cup {None},
                             tag : Answers]]
    /\ stops \in Nat

\* An answer in memory is the system's or at least as new as the database in
\* use: neither a lookup that began before a swap nor a row of an older
\* database brings an older one back (geoip.go, storeCache: "verwirft
\* Ergebnisse, die vor einem Datenbankwechsel (gen) ermittelt wurden").
AnswersCurrent == \A ip \in Cached : cache[ip] = 0 \/ cache[ip] >= stamp

\* A row never claims a newer database than its answer came from, although the
\* row is written after the lock is released and a swap may come in between.
RowsMatchTag == \A ip \in IPs : rows[ip].ver \in {None, 0} \/ rows[ip].ver >= rows[ip].tag

\* A lookup never reads from a database that was closed (mapped memory).
NoReadAfterClose == \A w \in Reading : look[w].rd \notin closed

\* The database on disk is used in the end, however many lookups run, unless it
\* is a bad one or the daemon stops.
NewDatabaseIsUsed == phase = "up" /\ good ~> reader.ver = disk \/ ~good \/ phase # "up"
=============================================================================
