--------------------------- MODULE GeoResolverProofs ---------------------------
(***************************************************************************)
(* Proofs about GeoResolver for any addresses, goroutines, versions and      *)
(* number of restarts.                                                       *)
(***************************************************************************)
EXTENDS GeoResolver, TLAPS

-----------------------------------------------------------------------------
(* Types.                                                                  *)

Jobs == [pc : {"idle", "install", "stat", "opendb", "load", "swap", "closeold", "insert"},
         kind : {"open", "refresh"}, had : BOOLEAN, st : Answers, new : Answers, old : Nat,
         loaded : [IPs -> Answers \cup {None}]]

LookStates == [pc : {"idle", "read", "legacy", "store", "upsert"},
               ip : IPs, gen : Nat, rd : Nat, ver : Answers \cup {None}, tag : Answers]

LEMMA AnswersFacts ==
    /\ Answers \subseteq Nat /\ 0 \in Answers /\ None \notin Answers
    /\ \A v \in Answers : v < MaxVersion => v + 1 \in Answers
    /\ \A v \in Answers : 0 .. v \subseteq Answers
<1>1. MaxVersion \in Nat
  BY ParameterAssumption
<1> QED
  BY <1>1 DEF Answers, None

LEMMA EmptyType == Empty \in [IPs -> Answers \cup {None}]
BY DEF Empty

LEMMA NoLookupType == NoLookup \in LookStates
<1>1. (CHOOSE ip \in IPs : TRUE) \in IPs
  BY ParameterAssumption
<1> QED
  BY <1>1, AnswersFacts DEF NoLookup, LookStates

LEMMA NoJobType == NoJob \in Jobs
BY AnswersFacts, EmptyType DEF NoJob, Jobs

LEMMA BegunType ==
    ASSUME NEW kind \in {"open", "refresh"}, NEW j \in Begun(kind), disk \in Answers
    PROVE  /\ j \in Jobs
           /\ j.pc \in {"install", "stat"} /\ j.kind = kind /\ j.loaded = Empty
<1>1. CASE j = [NoJob EXCEPT !.kind = kind, !.pc = "install", !.had = disk # 0]
  BY <1>1, NoJobType DEF Jobs, NoJob
<1>2. CASE j = [NoJob EXCEPT !.kind = kind, !.pc = "stat"]
  BY <1>2, NoJobType DEF Jobs, NoJob
<1> QED
  BY <1>1, <1>2 DEF Begun

\* Every variable keeps its type.
LEMMA TypeInductive == ASSUME TypeOK, [Next]_vars PROVE TypeOK'
<1> USE DEF fileVars, memVars
<1>t. /\ job \in Jobs
      /\ look \in [Lookups -> LookStates]
      /\ disk \in Answers /\ stamp \in Answers /\ reader \in [id : Nat, ver : Answers]
  BY DEF TypeOK, Jobs, LookStates
<1>q. ASSUME job' \in Jobs, look' \in [Lookups -> LookStates],
             mode' = mode, disk' \in Answers, good' \in BOOLEAN,
             rows' \in [IPs -> [ver : Answers \cup {None}, tag : Answers]],
             phase' \in {"down", "open", "up", "closing", "ending"},
             reader' \in [id : Nat, ver : Answers], leaving' \in Nat, closed' \in SUBSET Nat,
             stamp' \in Answers, gen' \in Nat, cache' \in [IPs -> Answers \cup {None}],
             stops' \in Nat
      PROVE  TypeOK'
  BY <1>q DEF TypeOK, Jobs, LookStates, Answers
<1>e. JobEnds => job' \in Jobs /\ phase' \in {"down", "open", "up", "closing", "ending"}
  BY NoJobType DEF JobEnds, TypeOK
<1>1. CASE Start \/ RefreshBegin
  <2>1. job' \in Jobs
    BY <1>1, <1>t, BegunType DEF Start, RefreshBegin
  <2> QED
    BY <1>1, <1>t, <1>q, <2>1 DEF Start, RefreshBegin, TypeOK
<1>2. CASE JobInstall
  <2>1. disk' \in Answers
    BY <1>2, <1>t, AnswersFacts DEF JobInstall
  <2>2. [job EXCEPT !.pc = "stat"] \in Jobs
    BY <1>t DEF Jobs
  <2> QED
    BY <1>2, <1>t, <1>e, <1>q, <2>1, <2>2 DEF JobInstall, TypeOK
<1>3. CASE JobStat
  <2>1. [job EXCEPT !.pc = "opendb", !.st = disk] \in Jobs
    BY <1>t DEF Jobs
  <2> QED
    BY <1>3, <1>t, <1>e, <1>q, <2>1 DEF JobStat, TypeOK
<1>4. CASE JobOpenDB
  <2>1. [job EXCEPT !.pc = IF job.kind = "open" THEN "load" ELSE "swap", !.new = disk] \in Jobs
    BY <1>t DEF Jobs
  <2> QED
    BY <1>4, <1>t, <1>e, <1>q, <2>1 DEF JobOpenDB, TypeOK
<1>5. CASE JobLoad
  <2>1. PICK S : job' = [job EXCEPT !.pc = "swap",
                     !.loaded = [ip \in IPs |-> IF ip \in S THEN rows[ip].ver ELSE None]]
    BY <1>5 DEF JobLoad
  <2>2. [ip \in IPs |-> IF ip \in S THEN rows[ip].ver ELSE None] \in [IPs -> Answers \cup {None}]
    BY DEF TypeOK
  <2>3. job' \in Jobs
    BY <1>t, <2>1, <2>2 DEF Jobs
  <2> QED
    BY <1>5, <1>t, <1>q, <2>3 DEF JobLoad, TypeOK
<1>6. CASE JobSwap
  <2>1. job' \in Jobs
    BY <1>6, <1>t DEF JobSwap, Jobs
  <2>2. reader' \in [id : Nat, ver : Answers] /\ gen' \in Nat /\ stamp' \in Answers
    BY <1>6, <1>t DEF JobSwap, Stamped, Jobs, TypeOK
  <2> QED
    BY <1>6, <1>t, <1>q, <2>1, <2>2, EmptyType DEF JobSwap, TypeOK
<1>7. CASE JobCloseOld
  <2>1. [job EXCEPT !.pc = "insert"] \in Jobs
    BY <1>t DEF Jobs
  <2>2. closed' \in SUBSET Nat
    BY <1>7, <1>t DEF JobCloseOld, Jobs, TypeOK
  <2> QED
    BY <1>7, <1>t, <1>e, <1>q, <2>1, <2>2 DEF JobCloseOld, TypeOK
<1>8. CASE JobInsert
  <2>1. cache' \in [IPs -> Answers \cup {None}]
    BY <1>8, <1>t DEF JobInsert, Jobs, TypeOK
  <2> QED
    BY <1>8, <1>t, <1>e, <1>q, <2>1 DEF JobInsert, TypeOK
<1>9. ASSUME NEW w \in Lookups, NEW ip \in IPs, LookupStart(w, ip) PROVE TypeOK'
  <2>1. [NoLookup EXCEPT !.ip = ip, !.gen = gen, !.rd = reader.id,
                         !.pc = IF reader.id # 0 THEN "read" ELSE "legacy"] \in LookStates
    BY NoLookupType DEF LookStates, TypeOK
  <2>2. look' \in [Lookups -> LookStates]
    BY <1>9, <1>t, <2>1 DEF LookupStart
  <2> QED
    BY <1>9, <1>t, <1>q, <2>2 DEF LookupStart, TypeOK
<1>10. ASSUME NEW w \in Lookups, LookupRead(w) PROVE TypeOK'
  <2>1. [look[w] EXCEPT !.pc = "store", !.rd = 0, !.ver = reader.ver] \in LookStates
    BY <1>t DEF LookStates
  <2>2. look' \in [Lookups -> LookStates]
    BY <1>10, <1>t, <2>1, NoLookupType DEF LookupRead
  <2> QED
    BY <1>10, <1>t, <1>q, <2>2 DEF LookupRead, TypeOK
<1>11. ASSUME NEW w \in Lookups, LookupLegacy(w) PROVE TypeOK'
  <2>1. \A v \in Answers : [look[w] EXCEPT !.pc = "store", !.ver = v] \in LookStates
    BY <1>t DEF LookStates
  <2>2. look' \in [Lookups -> LookStates]
    BY <1>11, <1>t, <2>1, NoLookupType, AnswersFacts DEF LookupLegacy
  <2> QED
    BY <1>11, <1>t, <1>q, <2>2 DEF LookupLegacy, TypeOK
<1>12. ASSUME NEW w \in Lookups, StoreCache(w) PROVE TypeOK'
  <2>1. [look[w] EXCEPT !.pc = "upsert", !.gen = 0, !.tag = stamp] \in LookStates
    BY <1>t DEF LookStates
  <2>2. look' \in [Lookups -> LookStates]
    BY <1>12, <1>t, <2>1, NoLookupType DEF StoreCache
  <2>3. ASSUME NEW kept \in AfterPrune(look[w].ip) PROVE kept \in [IPs -> Answers \cup {None}]
    BY <2>3 DEF AfterPrune, TypeOK
  <2>4. look[w].ver \in Answers \cup {None}
    BY <1>t DEF LookStates
  <2>5. cache' \in [IPs -> Answers \cup {None}]
    BY <1>12, <2>3, <2>4 DEF StoreCache, TypeOK
  <2> QED
    BY <1>12, <1>t, <1>q, <2>2, <2>5 DEF StoreCache, TypeOK
<1>13. ASSUME NEW w \in Lookups, Upsert(w) PROVE TypeOK'
  <2>1. look' \in [Lookups -> LookStates]
    BY <1>13, <1>t, NoLookupType DEF Upsert
  <2>2. [ver |-> look[w].ver, tag |-> RowTag(w)] \in [ver : Answers \cup {None}, tag : Answers]
    BY <1>t DEF RowTag, LookStates
  <2>3. rows' \in [IPs -> [ver : Answers \cup {None}, tag : Answers]]
    BY <1>13, <2>2 DEF Upsert, TypeOK
  <2> QED
    BY <1>13, <1>t, <1>q, <2>1, <2>3 DEF Upsert, TypeOK
<1>14. CASE CloseGeo
  BY <1>14, <1>t, <1>q, AnswersFacts DEF CloseGeo, NoReader, TypeOK
<1>15. CASE CloseReader
  BY <1>15, <1>t, <1>q DEF CloseReader, TypeOK
<1>16. CASE Gone
  BY <1>16, <1>t, <1>q, EmptyType, NoJobType, NoLookupType, AnswersFacts
  DEF Gone, NoReader, TypeOK
<1>17. CASE OtherInstalls
  BY <1>17, <1>t, <1>q, AnswersFacts DEF OtherInstalls, TypeOK
<1>18. CASE RowsGo
  <2>1. NoRow \in [ver : Answers \cup {None}, tag : Answers]
    BY AnswersFacts DEF NoRow
  <2>2. rows' \in [IPs -> [ver : Answers \cup {None}, tag : Answers]]
    BY <1>18, <2>1 DEF RowsGo, TypeOK
  <2> QED
    BY <1>18, <1>t, <1>q, <2>2 DEF RowsGo, TypeOK
<1>19. ASSUME NEW ip \in IPs, OtherUpserts(ip) PROVE TypeOK'
  <2>0. PICK v \in 0 .. disk : \E t \in 0 .. v : rows' = [rows EXCEPT ![ip] = [ver |-> v, tag |-> t]]
    BY <1>19 DEF OtherUpserts
  <2>1. PICK t \in 0 .. v : rows' = [rows EXCEPT ![ip] = [ver |-> v, tag |-> t]]
    BY <2>0
  <2>2. v \in Answers /\ t \in Answers
    BY <1>t, <2>0, <2>1, AnswersFacts
  <2>3. rows' \in [IPs -> [ver : Answers \cup {None}, tag : Answers]]
    BY <2>1, <2>2 DEF TypeOK
  <2> QED
    BY <1>19, <1>t, <1>q, <2>3 DEF OtherUpserts, TypeOK
<1>20. CASE UNCHANGED vars
  BY <1>20, <1>t, <1>q DEF vars, TypeOK
<1> QED
  BY <1>1, <1>2, <1>3, <1>4, <1>5, <1>6, <1>7, <1>8, <1>9, <1>10, <1>11, <1>12, <1>13, <1>14,
     <1>15, <1>16, <1>17, <1>18, <1>19, <1>20 DEF Next, Job, Lookup

LEMMA TypeInitially == Init => TypeOK
<1> SUFFICES ASSUME Init PROVE TypeOK
  OBVIOUS
<1>1. job \in Jobs /\ look \in [Lookups -> LookStates]
  BY NoLookupType, NoJobType DEF Init
<1>2. NoRow \in [ver : Answers \cup {None}, tag : Answers] /\ NoReader \in [id : Nat, ver : Answers]
  BY AnswersFacts DEF NoRow, NoReader
<1> QED
  BY <1>1, <1>2, AnswersFacts, EmptyType DEF Init, TypeOK, Jobs, LookStates

\* Every reachable state has its type (Resolver, cacheEntry, the table geoip_cache).
THEOREM TypeCorrect == Spec => []TypeOK
BY TypeInitially, TypeInductive, PTL DEF Spec

-----------------------------------------------------------------------------
(* Answers and databases.                                                  *)

\* An answer is of the system's tool, or comes from version v or a newer one.
FromAtLeast(ver, v) == ver \in {None, 0} \/ (v # 0 /\ ver >= v)

\* A refresh opens what the stat saw or something newer, and loads only what fits.
JobInv ==
    /\ stamp <= disk /\ job.st <= disk
    /\ job.pc \in {"load", "swap"} => job.st # 0 /\ job.st <= job.new
    /\ job.pc = "opendb" => job.st # 0
    /\ job.pc \in {"idle", "install", "stat", "opendb", "load"} => job.loaded = Empty
    /\ job.pc \in {"closeold", "insert"} => stamp = job.st /\ job.st # 0 /\ job.old < gen
    /\ \A ip \in IPs : job.pc # "idle" => FromAtLeast(job.loaded[ip], job.st)

\* The reader in use is the last one made, is open, and is as new as its stamp.
ReaderInv ==
    /\ reader.id # 0 =>
          /\ reader.id = gen /\ reader.id \notin closed /\ reader.id # leaving
          /\ stamp # 0 /\ reader.ver >= stamp
    /\ closed \subseteq 0 .. gen /\ leaving <= gen

\* Who reads holds the lock: the reader in use is the one taken.  An answer to be
\* stored fits the stamp of its generation, one to be written the tag it carries.
LookFits(w) ==
    /\ look[w].gen <= gen
    /\ look[w].pc = "read" => reader.id # 0 /\ look[w].rd = reader.id
    /\ look[w].pc = "store" /\ look[w].gen = gen => FromAtLeast(look[w].ver, stamp)
    /\ look[w].pc = "upsert" => FromAtLeast(look[w].ver, look[w].tag)

LookInv == \A w \in Lookups : LookFits(w)

MemoryInv == \A ip \in IPs : FromAtLeast(cache[ip], stamp)
RowInv == \A ip \in IPs : FromAtLeast(rows[ip].ver, rows[ip].tag)

ResolverInv == JobInv /\ ReaderInv /\ LookInv /\ MemoryInv /\ RowInv

LEMMA NothingFits == \A v : FromAtLeast(None, v) /\ FromAtLeast(0, v)
BY DEF FromAtLeast

LEMMA InvInitially == Init => ResolverInv
<1> SUFFICES ASSUME Init PROVE ResolverInv
  OBVIOUS
<1>1. JobInv
  BY NothingFits DEF Init, JobInv, NoJob, Empty
<1>2. ReaderInv
  BY DEF Init, ReaderInv, NoReader
<1>3. LookInv
  BY DEF Init, LookInv, LookFits, NoLookup
<1>4. MemoryInv /\ RowInv
  BY NothingFits DEF Init, MemoryInv, RowInv, NoRow, Empty
<1> QED
  BY <1>1, <1>2, <1>3, <1>4 DEF ResolverInv

\* A job that ends holds nothing.
LEMMA JobEndsKeeps ==
    ASSUME TypeOK, JobInv, JobEnds, stamp' \in Nat, disk' \in Nat, stamp' <= disk'
    PROVE  JobInv'
BY NothingFits DEF JobEnds, JobInv, NoJob, Empty

LEMMA JobsKeepInv == ASSUME TypeOK, ResolverInv, Job PROVE ResolverInv'
<1> USE DEF fileVars, memVars
<1>t. /\ job \in Jobs /\ look \in [Lookups -> LookStates]
      /\ disk \in Nat /\ stamp \in Nat /\ gen \in Nat /\ reader \in [id : Nat, ver : Nat]
      /\ closed \in SUBSET Nat /\ leaving \in Nat
      /\ job.st \in Nat /\ job.new \in Nat /\ job.old \in Nat
  BY AnswersFacts DEF TypeOK, Jobs, LookStates
<1>1. CASE JobInstall
  <2>1. JobInv'
    BY <1>1, <1>t, JobEndsKeeps DEF JobInstall, JobInv, ResolverInv, Jobs
  <2> QED
    BY <1>1, <2>1 DEF JobInstall, ResolverInv, ReaderInv, LookInv, LookFits, MemoryInv, RowInv
<1>2. CASE JobStat
  <2>1. ASSUME JobEnds PROVE JobInv'
    BY <1>2, <2>1, <1>t, JobEndsKeeps DEF JobStat, JobInv, ResolverInv
  <2>2. ASSUME disk # 0, job' = [job EXCEPT !.pc = "opendb", !.st = disk]
        PROVE  JobInv'
    <3>1. job'.loaded = Empty /\ job'.pc = "opendb" /\ job'.st = disk
      BY <1>2, <2>2, <1>t DEF JobStat, JobInv, ResolverInv, Jobs
    <3> QED
      BY <1>2, <2>2, <3>1, <1>t, NothingFits DEF JobStat, JobInv, ResolverInv, Empty
  <2>3. JobInv'
    BY <1>2, <2>1, <2>2 DEF JobStat
  <2> QED
    BY <1>2, <2>3 DEF JobStat, ResolverInv, ReaderInv, LookInv, LookFits, MemoryInv, RowInv
<1>3. CASE JobOpenDB
  <2>1. JobInv'
    BY <1>3, <1>t, JobEndsKeeps, NothingFits DEF JobOpenDB, JobInv, ResolverInv, Jobs
  <2> QED
    BY <1>3, <2>1 DEF JobOpenDB, ResolverInv, ReaderInv, LookInv, LookFits, MemoryInv, RowInv
<1>4. CASE JobLoad
  <2>1. PICK S \in SUBSET RowsFor(job.st) :
           job' = [job EXCEPT !.pc = "swap",
                              !.loaded = [ip \in IPs |-> IF ip \in S THEN rows[ip].ver ELSE None]]
    BY <1>4 DEF JobLoad
  <2>2. ASSUME NEW ip \in IPs PROVE FromAtLeast(job'.loaded[ip], job.st)
    <3>1. CASE ip \in S
      BY <2>1, <3>1, <1>t DEF RowsFor, ResolverInv, RowInv, FromAtLeast, Jobs
    <3>2. CASE ip \notin S
      BY <2>1, <3>2, <1>t, NothingFits DEF Jobs
    <3> QED
      BY <3>1, <3>2
  <2>3. job'.st = job.st /\ job'.new = job.new /\ job'.pc = "swap"
    BY <2>1, <1>t DEF Jobs
  <2>4. JobInv'
    BY <1>4, <2>2, <2>3 DEF JobLoad, JobInv, ResolverInv
  <2> QED
    BY <1>4, <2>4 DEF JobLoad, ResolverInv, ReaderInv, LookInv, LookFits, MemoryInv, RowInv
<1>5. CASE JobSwap
  <2>1. /\ job'.pc = "closeold" /\ job'.st = job.st /\ job'.old = reader.id
        /\ job'.loaded = job.loaded
    BY <1>5, <1>t DEF JobSwap, Jobs
  <2>2. /\ stamp' = job.st /\ gen' = gen + 1 /\ reader' = [id |-> gen + 1, ver |-> job.new]
        /\ UNCHANGED <<closed, leaving, disk, rows, look>>
    BY <1>5 DEF JobSwap, Stamped
  <2>3. job.st # 0 /\ job.st <= job.new /\ job.st <= disk
    BY <1>5 DEF JobSwap, ResolverInv, JobInv
  <2>4. reader.id <= gen
    BY <1>t DEF ResolverInv, ReaderInv
  <2>5. JobInv'
    BY <1>5, <2>1, <2>2, <2>3, <2>4, <1>t DEF JobSwap, JobInv, ResolverInv
  <2>6. ReaderInv'
    BY <2>2, <2>3, <1>t DEF ReaderInv, ResolverInv
  <2>7. LookInv'
    <3> SUFFICES ASSUME NEW w \in Lookups PROVE LookFits(w)'
      BY DEF LookInv
    <3>1. look[w].pc # "read"
      BY <1>5 DEF JobSwap, MayWrite, Reading
    <3>2. look[w].gen \in Nat /\ look[w].gen <= gen
      BY <1>t DEF LookStates, ResolverInv, LookInv, LookFits
    <3> QED
      BY <2>2, <3>1, <3>2, <1>t DEF ResolverInv, LookInv, LookFits
  <2>8. MemoryInv'
    BY <1>5, NothingFits DEF JobSwap, MemoryInv, Empty
  <2> QED
    BY <2>2, <2>5, <2>6, <2>7, <2>8 DEF ResolverInv, RowInv
<1>6. CASE JobCloseOld
  <2>1. job.old < gen /\ stamp = job.st /\ job.st # 0
    BY <1>6 DEF JobCloseOld, ResolverInv, JobInv
  <2>2. JobInv'
    BY <1>6, <1>t, JobEndsKeeps DEF JobCloseOld, JobInv, ResolverInv, Jobs
  <2>3. ReaderInv'
    BY <1>6, <2>1, <1>t DEF JobCloseOld, ReaderInv, ResolverInv
  <2> QED
    BY <1>6, <2>2, <2>3 DEF JobCloseOld, ResolverInv, LookInv, LookFits, MemoryInv, RowInv
<1>7. CASE JobInsert
  <2>1. JobInv'
    BY <1>7, <1>t, JobEndsKeeps DEF JobInsert, JobInv, ResolverInv
  <2>2. MemoryInv'
    BY <1>7 DEF JobInsert, JobInv, ResolverInv, MemoryInv
  <2> QED
    BY <1>7, <2>1, <2>2 DEF JobInsert, ResolverInv, ReaderInv, LookInv, LookFits, RowInv
<1> QED
  BY <1>1, <1>2, <1>3, <1>4, <1>5, <1>6, <1>7 DEF Job

LEMMA LookupsKeepInv ==
    ASSUME TypeOK, ResolverInv, NEW w \in Lookups, Lookup(w)
    PROVE  ResolverInv'
<1> USE DEF fileVars, memVars
<1>t. /\ look \in [Lookups -> LookStates] /\ look[w] \in LookStates
      /\ disk \in Nat /\ stamp \in Nat /\ gen \in Nat /\ reader \in [id : Nat, ver : Nat]
      /\ stamp <= disk /\ \A u \in Lookups : LookFits(u)
  BY AnswersFacts DEF TypeOK, Jobs, LookStates, ResolverInv, JobInv, LookInv
<1>o. ASSUME \A u \in Lookups : look'[u] = look[u] \/ u = w, UNCHANGED <<gen, reader, stamp>>, LookFits(w)'
      PROVE  LookInv'
  <2> SUFFICES ASSUME NEW u \in Lookups, u # w PROVE LookFits(u)'
    BY <1>o DEF LookInv
  <2> QED
    BY <1>o, <1>t DEF LookFits
<1>n. look'[w] = NoLookup /\ UNCHANGED <<gen, reader, stamp>> => LookFits(w)'
  BY <1>t DEF NoLookup, LookFits
<1>1. ASSUME NEW ip \in IPs, LookupStart(w, ip) PROVE ResolverInv'
  <2>1. /\ look'[w].gen = gen /\ look'[w].rd = reader.id
        /\ look'[w].pc = IF reader.id # 0 THEN "read" ELSE "legacy"
    BY <1>1, <1>t DEF LookupStart, NoLookup
  <2>2. LookFits(w)'
    BY <1>1, <2>1, <1>t DEF LookupStart, LookFits
  <2>3. LookInv'
    BY <1>1, <2>2, <1>o, <1>t DEF LookupStart
  <2> QED
    BY <1>1, <2>3 DEF LookupStart, ResolverInv, JobInv, ReaderInv, MemoryInv, RowInv
<1>2. CASE LookupRead(w)
  <2>1. ASSUME look' = [look EXCEPT ![w] = [@ EXCEPT !.pc = "store", !.rd = 0, !.ver = reader.ver]]
        PROVE  LookFits(w)'
    <3>1. look'[w].pc = "store" /\ look'[w].ver = reader.ver /\ look'[w].gen = look[w].gen
      BY <2>1, <1>t DEF LookStates
    <3>2. FromAtLeast(reader.ver, stamp)
      BY <1>2, <1>t DEF LookupRead, LookFits, ResolverInv, ReaderInv, FromAtLeast
    <3> QED
      BY <1>2, <3>1, <3>2, <1>t DEF LookupRead, LookFits
  <2>2. LookInv'
    BY <1>2, <2>1, <1>o, <1>n, <1>t DEF LookupRead
  <2> QED
    BY <1>2, <2>2 DEF LookupRead, ResolverInv, JobInv, ReaderInv, MemoryInv, RowInv
<1>3. CASE LookupLegacy(w)
  <2>1. ASSUME NEW v \in {0} \cup (IF stamp # 0 /\ good THEN {disk} ELSE {}),
               look' = [look EXCEPT ![w] = [@ EXCEPT !.pc = "store", !.ver = v]]
        PROVE  LookFits(w)'
    <3>1. look'[w].pc = "store" /\ look'[w].ver = v /\ look'[w].gen = look[w].gen
      BY <2>1, <1>t DEF LookStates
    <3>2. FromAtLeast(v, stamp)
      BY <1>t DEF FromAtLeast
    <3> QED
      BY <1>3, <3>1, <3>2, <1>t DEF LookupLegacy, LookFits
  <2>2. LookInv'
    BY <1>3, <2>1, <1>o, <1>n, <1>t DEF LookupLegacy
  <2> QED
    BY <1>3, <2>2 DEF LookupLegacy, ResolverInv, JobInv, ReaderInv, MemoryInv, RowInv
<1>4. CASE StoreCache(w)
  <2>1. CASE gen = look[w].gen
    <3>1. FromAtLeast(look[w].ver, stamp)
      BY <1>4, <2>1, <1>t DEF StoreCache, LookFits
    <3>2. look' = [look EXCEPT ![w] = [@ EXCEPT !.pc = "upsert", !.gen = 0, !.tag = stamp]]
      BY <1>4, <2>1 DEF StoreCache, SameGeneration
    <3>3. look'[w].pc = "upsert" /\ look'[w].tag = stamp /\ look'[w].ver = look[w].ver /\ look'[w].gen = 0
      BY <3>2, <1>t DEF LookStates
    <3>4. LookFits(w)'
      BY <1>4, <3>1, <3>3, <1>t DEF StoreCache, LookFits
    <3>5. PICK kept \in AfterPrune(look[w].ip) : cache' = [kept EXCEPT ![look[w].ip] = look[w].ver]
      BY <1>4, <2>1 DEF StoreCache, SameGeneration
    <3>6. /\ kept \in [IPs -> Answers \cup {None}]
          /\ \A ip \in IPs : kept[ip] = cache[ip] \/ kept[ip] = None
      BY <3>5 DEF AfterPrune, TypeOK
    <3>7. MemoryInv'
      BY <1>4, <3>1, <3>5, <3>6, NothingFits DEF StoreCache, MemoryInv, ResolverInv
    <3>8. LookInv'
      BY <1>4, <3>2, <3>4, <1>o, <1>t DEF StoreCache
    <3> QED
      BY <1>4, <3>7, <3>8 DEF StoreCache, ResolverInv, JobInv, ReaderInv, RowInv
  <2>2. CASE gen # look[w].gen
    <3>1. LookInv'
      BY <1>4, <2>2, <1>o, <1>n, <1>t DEF StoreCache, SameGeneration
    <3> QED
      BY <1>4, <2>2, <3>1 DEF StoreCache, SameGeneration, ResolverInv, JobInv, ReaderInv, MemoryInv, RowInv
  <2> QED
    BY <2>1, <2>2
<1>5. CASE Upsert(w)
  <2>1. FromAtLeast(look[w].ver, look[w].tag)
    BY <1>5, <1>t DEF Upsert, LookFits
  <2>2. RowInv'
    BY <1>5, <2>1 DEF Upsert, RowTag, RowInv, ResolverInv, TypeOK
  <2>3. LookInv'
    BY <1>5, <1>o, <1>n, <1>t DEF Upsert
  <2> QED
    BY <1>5, <2>2, <2>3 DEF Upsert, ResolverInv, JobInv, ReaderInv, MemoryInv
<1> QED
  BY <1>1, <1>2, <1>3, <1>4, <1>5 DEF Lookup

LEMMA OthersKeepInv ==
    ASSUME TypeOK, ResolverInv,
           \/ Start \/ RefreshBegin \/ CloseGeo \/ CloseReader \/ Gone
           \/ OtherInstalls \/ RowsGo
           \/ \E ip \in IPs : OtherUpserts(ip)
    PROVE  ResolverInv'
<1> USE DEF fileVars, memVars
<1>t. /\ disk \in Nat /\ stamp \in Nat /\ gen \in Nat /\ reader \in [id : Nat, ver : Nat]
      /\ closed \in SUBSET Nat /\ leaving \in Nat /\ look \in [Lookups -> LookStates]
      /\ job.st \in Nat
  BY AnswersFacts DEF TypeOK, LookStates
<1>1. CASE Start \/ RefreshBegin
  <2>1. PICK kind \in {"open", "refresh"} : job' \in Begun(kind)
    BY <1>1 DEF Start, RefreshBegin
  <2>2. job'.pc \in {"install", "stat"} /\ job'.loaded = Empty /\ job'.st = 0
    BY <2>1 DEF Begun, NoJob
  <2>3. JobInv'
    BY <1>1, <2>2, <1>t, NothingFits DEF Start, RefreshBegin, JobInv, ResolverInv, Empty
  <2> QED
    BY <1>1, <2>3 DEF Start, RefreshBegin, ResolverInv, ReaderInv, LookInv, LookFits, MemoryInv, RowInv
<1>2. CASE CloseGeo
  <2>1. ReaderInv'
    BY <1>2, <1>t DEF CloseGeo, ReaderInv, ResolverInv, NoReader
  <2>2. LookInv'
    BY <1>2 DEF CloseGeo, MayWrite, Reading, LookInv, LookFits, ResolverInv
  <2> QED
    BY <1>2, <2>1, <2>2 DEF CloseGeo, ResolverInv, JobInv, MemoryInv, RowInv
<1>3. CASE CloseReader
  <2>1. ReaderInv'
    BY <1>3, <1>t DEF CloseReader, ReaderInv, ResolverInv
  <2> QED
    BY <1>3, <2>1 DEF CloseReader, ResolverInv, JobInv, LookInv, LookFits, MemoryInv, RowInv
<1>4. CASE Gone
  <2>1. JobInv'
    BY <1>4, <1>t, NothingFits DEF Gone, JobInv, NoJob, Empty
  <2>2. ReaderInv'
    BY <1>4 DEF Gone, ReaderInv, NoReader
  <2>3. LookInv'
    BY <1>4 DEF Gone, LookInv, LookFits, NoLookup
  <2>4. MemoryInv'
    BY <1>4, NothingFits DEF Gone, MemoryInv, Empty
  <2> QED
    BY <1>4, <2>1, <2>2, <2>3, <2>4 DEF Gone, ResolverInv, RowInv
<1>5. CASE OtherInstalls
  BY <1>5, <1>t DEF OtherInstalls, ResolverInv, JobInv, ReaderInv, LookInv, LookFits, MemoryInv, RowInv
<1>6. CASE RowsGo
  <2>1. RowInv'
    BY <1>6, NothingFits DEF RowsGo, RowInv, ResolverInv, NoRow
  <2> QED
    BY <1>6, <2>1 DEF RowsGo, ResolverInv, JobInv, ReaderInv, LookInv, LookFits, MemoryInv
<1>7. ASSUME NEW ip \in IPs, OtherUpserts(ip) PROVE ResolverInv'
  <2>1. PICK v \in 0 .. disk : \E t \in 0 .. v :
           (t = 0 <=> v = 0) /\ rows' = [rows EXCEPT ![ip] = [ver |-> v, tag |-> t]]
    BY <1>7 DEF OtherUpserts
  <2>2. PICK t \in 0 .. v :
           (t = 0 <=> v = 0) /\ rows' = [rows EXCEPT ![ip] = [ver |-> v, tag |-> t]]
    BY <2>1
  <2>3. FromAtLeast(v, t)
    BY <1>t, <2>2 DEF FromAtLeast
  <2>4. RowInv'
    BY <2>2, <2>3 DEF RowInv, ResolverInv, TypeOK
  <2> QED
    BY <1>7, <2>4 DEF OtherUpserts, ResolverInv, JobInv, ReaderInv, LookInv, LookFits, MemoryInv
<1> QED
  BY <1>1, <1>2, <1>3, <1>4, <1>5, <1>6, <1>7

LEMMA InvInductive == ASSUME TypeOK, ResolverInv, [Next]_vars PROVE ResolverInv'
<1>1. CASE UNCHANGED vars
  BY <1>1 DEF vars, fileVars, memVars, ResolverInv, JobInv, ReaderInv, LookInv, LookFits, MemoryInv, RowInv
<1> QED
  BY <1>1, JobsKeepInv, LookupsKeepInv, OthersKeepInv DEF Next

LEMMA ResolverInvHolds == Spec => []ResolverInv
BY TypeCorrect, InvInitially, InvInductive, PTL DEF Spec

\* A lookup begun on an older database does not bring its answer into the cache
\* of a newer one, nor do rows (geoip.go, storeCache and swapReader).
THEOREM CacheStaysCurrent == Spec => []AnswersCurrent
<1>1. TypeOK /\ ResolverInv => AnswersCurrent
  BY AnswersFacts DEF TypeOK, ResolverInv, MemoryInv, FromAtLeast, AnswersCurrent, Cached
<1> QED
  BY <1>1, TypeCorrect, ResolverInvHolds, PTL

\* A row's tag is never newer than its answer, though rows are written outside
\* the lock (geoip.go, storeCache; db.go, UpsertGeoIP).
THEOREM RowsAreTaggedRight == Spec => []RowsMatchTag
<1>1. ResolverInv => RowsMatchTag
  BY DEF ResolverInv, RowInv, FromAtLeast, RowsMatchTag
<1> QED
  BY <1>1, ResolverInvHolds, PTL

\* A reader is closed only when no lookup uses it, by a swap, by a refresh at work
\* during Close, and by Close itself (geoip.go, Lookup, swapReader, Close).
THEOREM ReadersStayOpen == Spec => []NoReadAfterClose
<1>1. ResolverInv => NoReadAfterClose
  BY DEF ResolverInv, ReaderInv, LookInv, LookFits, Reading, NoReadAfterClose
<1> QED
  BY <1>1, ResolverInvHolds, PTL
=============================================================================
