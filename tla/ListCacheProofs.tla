---------------------------- MODULE ListCacheProofs ----------------------------
(***************************************************************************)
(* Proofs about ListCache for any lists, configurations, versions, changes,  *)
(* kills and renames that fail.  Two processes break what is proved here: the *)
(* theorems about the files say that a sync works alone.                     *)
(***************************************************************************)
EXTENDS ListCache, SequenceTheorems, TLAPS

-----------------------------------------------------------------------------
(* Types.                                                                  *)

Labels == {"idle", "list", "request", "unchanged", "write", "writing", "etag", "rename"}

Results == [lines : Contents, fromCache : BOOLEAN]

LEMMA IndexFacts ==
    ASSUME NEW c \in Confs
    PROVE  /\ DOMAIN c \subseteq Indexes /\ Indexes \subseteq Nat
           /\ Len(c) \in Nat /\ DOMAIN c = 1 .. Len(c)
           /\ \A i \in DOMAIN c : c[i] \in Urls
<1>1. PICK m \in Confs : m = (CHOOSE d \in Confs : \A e \in Confs : Len(e) <= Len(d))
                         /\ \A e \in Confs : Len(e) <= Len(m)
  BY BoundAssumption
<1>2. m \in Seq(Urls) /\ c \in Seq(Urls) /\ Len(c) <= Len(m)
  BY <1>1, BoundAssumption
<1>3. Indexes = 1 .. Len(m) /\ Len(m) \in Nat
  BY <1>1, <1>2 DEF Indexes
<1>4. Len(c) \in Nat /\ DOMAIN c = 1 .. Len(c) /\ \A i \in DOMAIN c : c[i] \in Urls
  BY <1>2
<1> QED
  BY <1>2, <1>3, <1>4

LEMMA ContentFacts ==
    /\ NoFile \in Contents /\ Partial \in Contents /\ Lists \subseteq Contents
    /\ NoFile \notin Lists /\ Partial \notin Lists /\ Partial # NoFile
    /\ \A l \in Lists : l.url \in Urls /\ l.version \in 1 .. MaxVersion /\ l = List(l.url, l.version)
    /\ \A u \in Urls, v \in 1 .. MaxVersion : /\ List(u, v) \in Lists
                                              /\ List(u, v).url = u /\ List(u, v).version = v
<1>1. MaxVersion \in Nat
  BY BoundAssumption
<1>2. ASSUME NEW l \in Lists
      PROVE  l.url \in Urls /\ l.version \in 1 .. MaxVersion /\ l = List(l.url, l.version)
  BY DEF Lists, List
<1>3. ASSUME NEW u \in Urls, NEW v \in 1 .. MaxVersion
      PROVE  List(u, v) \in Lists /\ List(u, v).url = u /\ List(u, v).version = v
  BY DEF Lists, List
<1>4. NoFile.version = 0 /\ Partial.version = -1
  BY DEF NoFile, Partial, List
<1>5. NoFile \notin Lists /\ Partial \notin Lists /\ Partial # NoFile
  BY <1>1, <1>2, <1>4
<1> QED
  BY <1>2, <1>3, <1>5 DEF Contents

\* Where the type invariant leaves a process.
LEMMA Places ==
    ASSUME TypeOK, NEW p \in Procs
    PROVE  /\ idx[p] \in Nat /\ conf \in Confs
           /\ idx[p] \in 1 .. Len(conf) => idx[p] \in Indexes /\ idx[p] \in DOMAIN conf /\ Url(p) \in Urls
           /\ \A u \in Urls : Current(u) \in Lists /\ Current(u).url = u /\ Current(u).version = server[u]
<1>1. idx[p] \in Nat /\ conf \in Confs /\ server \in [Urls -> 1 .. MaxVersion]
  BY DEF TypeOK
<1>2. DOMAIN conf \subseteq Indexes /\ DOMAIN conf = 1 .. Len(conf) /\ \A i \in DOMAIN conf : conf[i] \in Urls
  BY <1>1, IndexFacts
<1>3. \A u \in Urls : Current(u) \in Lists /\ Current(u).url = u /\ Current(u).version = server[u]
  BY <1>1, ContentFacts DEF Current
<1> QED
  BY <1>1, <1>2, <1>3 DEF Url

\* A process that syncs is at a list of the configuration, or done with the last one.
AtList ==
    \A p \in Procs : /\ pc[p] # "idle" => idx[p] >= 1
                     /\ pc[p] \notin {"idle", "list"} => idx[p] <= Len(conf)

Typed == TypeOK /\ AtList

LEMMA ReturnTypes ==
    ASSUME TypeOK, NEW p \in Procs, NEW lines \in Contents, NEW fromCache \in BOOLEAN,
           Return(p, lines, fromCache), UNCHANGED due
    PROVE  /\ result' \in [Procs -> Results] /\ desired' \in [Procs -> SUBSET Urls]
           /\ failed' \in [Procs -> BOOLEAN] /\ idx' \in [Procs -> Nat]
           /\ {sent', body', due'} \subseteq [Procs -> Contents]
           /\ pc' \in [Procs -> Labels] /\ pc' = [pc EXCEPT ![p] = "list"]
<1>1. Resolved(lines) \subseteq SUBSET Urls
  BY ContentFacts DEF Resolved
<1>2. desired' \in [Procs -> SUBSET Urls]
  <2>1. PICK entries \in Resolved(lines) : desired' = [desired EXCEPT ![p] = @ \cup entries]
    BY DEF Return
  <2> QED
    BY <1>1, <2>1 DEF TypeOK
<1>3. result' \in [Procs -> Results]
  BY DEF Return, TypeOK, Results
<1>4. failed' \in [Procs -> BOOLEAN]
  <2>1. (failed[p] \/ lines = NoFile) \in BOOLEAN
    OBVIOUS
  <2> QED
    BY <2>1 DEF Return, TypeOK
<1>5. idx' \in [Procs -> Nat] /\ {sent', body', due'} \subseteq [Procs -> Contents]
  BY ContentFacts DEF Return, TypeOK
<1>6. pc' \in [Procs -> Labels] /\ pc' = [pc EXCEPT ![p] = "list"]
  BY DEF Return, TypeOK, Goto, Labels
<1> QED
  BY <1>2, <1>3, <1>4, <1>5, <1>6

LEMMA LeaveTypes ==
    ASSUME TypeOK, NEW p \in Procs, Leave(p)
    PROVE  /\ result' \in [Procs -> Results] /\ desired' \in [Procs -> SUBSET Urls]
           /\ failed' \in [Procs -> BOOLEAN] /\ idx' \in [Procs -> Nat]
           /\ {sent', body', due'} \subseteq [Procs -> Contents]
           /\ pc' \in [Procs -> Labels] /\ pc' = [pc EXCEPT ![p] = "idle"]
BY ContentFacts DEF Leave, TypeOK, Goto, Labels, Results, Unread

LEMMA ReturnTyped ==
    ASSUME Typed, NEW p \in Procs, NEW lines \in Contents, NEW fromCache \in BOOLEAN,
           Return(p, lines, fromCache), UNCHANGED <<kind, conf, server, held, changes, due>>,
           {cache', etag', tmp'} \subseteq [Indexes -> Contents], fd' \in [Procs -> {"tmp", "cache", "none"}],
           torn' \subseteq Indexes, breaks' \in 0 .. MaxBreaks
    PROVE  Typed'
<1>1. TypeOK'
  BY ReturnTypes DEF Typed, TypeOK, world, Labels, Results
<1>2. pc' = [pc EXCEPT ![p] = "list"] /\ idx' = [idx EXCEPT ![p] = @ + 1]
  BY ReturnTypes DEF Typed, TypeOK, Return
<1>3. AtList'
  BY <1>2 DEF Typed, TypeOK, AtList, world
<1> QED
  BY <1>1, <1>3 DEF Typed

LEMMA LeaveTyped ==
    ASSUME Typed, NEW p \in Procs, Leave(p), UNCHANGED <<kind, conf, server, changes>>,
           held' \subseteq Urls, breaks' \in 0 .. MaxBreaks, torn' \subseteq Indexes,
           {cache', etag', tmp'} \subseteq [Indexes -> Contents], fd' \in [Procs -> {"tmp", "cache", "none"}]
    PROVE  Typed'
<1>1. TypeOK'
  BY LeaveTypes DEF Typed, TypeOK, Labels, Results
<1>2. pc' = [pc EXCEPT ![p] = "idle"] /\ idx' = [idx EXCEPT ![p] = 0]
  BY LeaveTypes DEF Typed, TypeOK, Leave
<1>3. AtList'
  BY <1>2 DEF Typed, TypeOK, AtList
<1> QED
  BY <1>1, <1>3 DEF Typed

LEMMA TypeInductive == ASSUME Typed, [Next]_vars PROVE Typed'
<1> USE DEF world, files, collected, request
<1>t. /\ {cache, etag, tmp} \subseteq [Indexes -> Contents] /\ fd \in [Procs -> {"tmp", "cache", "none"}]
      /\ torn \subseteq Indexes /\ breaks \in 0 .. MaxBreaks
  BY DEF Typed, TypeOK
<1>1. CASE Publish
  <2>1. server' \in [Urls -> 1 .. MaxVersion]
    <3>1. PICK u \in Urls : server[u] < MaxVersion /\ server' = [server EXCEPT ![u] = @ + 1]
      BY <1>1 DEF Publish
    <3>2. server[u] + 1 \in 1 .. MaxVersion
      BY <3>1, BoundAssumption DEF Typed, TypeOK
    <3> QED
      BY <3>1, <3>2 DEF Typed, TypeOK
  <2> QED
    BY <1>1, <2>1 DEF Publish, Typed, TypeOK, AtList
<1>2. CASE Reconfigure
  <2>1. changes' \in 0 .. MaxChanges
    BY <1>2, BoundAssumption DEF Reconfigure, Typed, TypeOK
  <2> QED
    BY <1>2, <2>1 DEF Reconfigure, Typed, TypeOK, AtList
<1>3. ASSUME NEW p \in Procs, SyncBegin(p) PROVE Typed'
  <2>1. idx' \in [Procs -> Nat] /\ desired' \in [Procs -> SUBSET Urls] /\ failed' \in [Procs -> BOOLEAN]
        /\ pc' \in [Procs -> Labels] /\ pc' = [pc EXCEPT ![p] = "list"]
    BY <1>3 DEF SyncBegin, Typed, TypeOK, Goto, Labels
  <2> QED
    BY <1>3, <2>1 DEF SyncBegin, Typed, TypeOK, AtList, Labels
<1>4. ASSUME NEW p \in Procs, SyncEnds(p) PROVE Typed'
  <2>1. held' \subseteq Urls
    BY <1>4 DEF SyncEnds, Typed, TypeOK, WhitelistAfter, BlocklistAfter
  <2> QED
    BY <1>4, <1>t, <2>1, LeaveTyped DEF SyncEnds, Typed, TypeOK
<1>5. ASSUME NEW p \in Procs, ReadEtag(p) PROVE Typed'
  <2>1. idx[p] \in Indexes
    BY <1>5, Places DEF ReadEtag, Typed, AtList
  <2>2. etag[idx[p]] \in Contents
    BY <1>t, <2>1
  <2>3. /\ pc' = [pc EXCEPT ![p] = "request"] /\ pc' \in [Procs -> Labels]
        /\ sent' \in [Procs -> Contents] /\ due' \in [Procs -> Contents] /\ result' \in [Procs -> Results]
    BY <1>5, <2>2, ContentFacts DEF ReadEtag, Typed, TypeOK, Goto, Labels, Results, Unread
  <2>4. AtList'
    BY <1>5, <2>3 DEF ReadEtag, Typed, TypeOK, AtList
  <2> QED
    BY <1>5, <2>3, <2>4 DEF ReadEtag, Typed, TypeOK, Labels, Results
<1>6. ASSUME NEW p \in Procs, pc[p] \notin {"idle", "list"}
      PROVE  /\ idx[p] \in Indexes /\ idx[p] \in DOMAIN conf /\ Url(p) \in Urls /\ Current(Url(p)) \in Contents
             /\ cache[idx[p]] \in Contents /\ tmp[idx[p]] \in Contents /\ body[p] \in Contents
             /\ etag[idx[p]] \in Contents
  <2>1. idx[p] \in 1 .. Len(conf) /\ Len(conf) \in Nat
    BY <1>6, Places, IndexFacts DEF Typed, TypeOK, AtList
  <2> QED
    BY <1>t, <2>1, Places, ContentFacts DEF Typed, TypeOK
<1>7. ASSUME NEW p \in Procs, Answer(p) PROVE Typed'
  <2>1. /\ pc' = [pc EXCEPT ![p] = IF sent[p] = Current(Url(p)) THEN "unchanged" ELSE "write"]
        /\ pc' \in [Procs -> Labels]
        /\ sent' \in [Procs -> Contents] /\ due' \in [Procs -> Contents] /\ body' \in [Procs -> Contents]
    BY <1>6, <1>7, ContentFacts DEF Answer, Typed, TypeOK, Goto, Labels
  <2>2. AtList'
    BY <1>7, <2>1 DEF Answer, Typed, TypeOK, AtList
  <2> QED
    BY <1>7, <2>1, <2>2 DEF Answer, Typed, TypeOK, Labels
<1>8. ASSUME NEW p \in Procs, NoAnswer(p) \/ Unchanged304(p) PROVE Typed'
  <2>1. cache[idx[p]] \in Contents
    BY <1>6, <1>8 DEF NoAnswer, Unchanged304
  <2>2. \E b \in BOOLEAN : Return(p, cache[idx[p]], b)
    BY <1>8 DEF NoAnswer, Unchanged304
  <2> QED
    BY <1>8, <1>t, <2>1, <2>2, ReturnTyped DEF NoAnswer, Unchanged304
<1>9. ASSUME NEW p \in Procs, BodyBreaks(p) PROVE Typed'
  BY <1>9, <1>t, ReturnTyped, ContentFacts DEF BodyBreaks
<1>10. ASSUME NEW p \in Procs, WriteBegin(p) PROVE Typed'
  <2>1. /\ pc' = [pc EXCEPT ![p] = "writing"] /\ pc' \in [Procs -> Labels]
        /\ tmp' \in [Indexes -> Contents] /\ fd' \in [Procs -> {"tmp", "cache", "none"}]
    BY <1>6, <1>10, <1>t, ContentFacts DEF WriteBegin, Typed, TypeOK, Goto, Labels, Put
  <2>2. AtList'
    BY <1>10, <2>1 DEF WriteBegin, Typed, TypeOK, AtList
  <2> QED
    BY <1>10, <2>1, <2>2 DEF WriteBegin, Typed, TypeOK, Labels
<1>11. ASSUME NEW p \in Procs, WriteEnd(p) PROVE Typed'
  <2>1. PICK content \in Written(p) :
          /\ tmp' = (IF fd[p] = "tmp" THEN Put(tmp, p, content) ELSE tmp)
          /\ cache' = (IF fd[p] = "cache" THEN Put(cache, p, content) ELSE cache)
    BY <1>11 DEF WriteEnd
  <2>2. content \in Contents
    BY <1>6, <1>11, ContentFacts DEF WriteEnd, Written
  <2>3. /\ pc' = [pc EXCEPT ![p] = "etag"] /\ pc' \in [Procs -> Labels]
        /\ fd' \in [Procs -> {"tmp", "cache", "none"}]
    BY <1>11 DEF WriteEnd, Typed, TypeOK, Goto, Labels
  <2>4. tmp' \in [Indexes -> Contents] /\ cache' \in [Indexes -> Contents]
    BY <1>t, <2>1, <2>2 DEF Put
  <2>5. AtList'
    BY <1>11, <2>3 DEF WriteEnd, Typed, TypeOK, AtList
  <2> QED
    BY <1>11, <2>3, <2>4, <2>5 DEF WriteEnd, Typed, TypeOK, Labels
<1>12. ASSUME NEW p \in Procs, WriteFails(p) PROVE Typed'
  <2>1. fd' \in [Procs -> {"tmp", "cache", "none"}]
    BY <1>12, <1>t DEF WriteFails
  <2>2. /\ Return(p, NoFile, FALSE) /\ UNCHANGED <<kind, conf, server, held, changes, breaks, due, torn>>
        /\ {cache', etag', tmp'} \subseteq [Indexes -> Contents]
    BY <1>12, <1>t DEF WriteFails
  <2>3. NoFile \in Contents /\ FALSE \in BOOLEAN
    BY ContentFacts
  <2> HIDE DEF world
  <2> QED
    BY <1>t, <2>1, <2>2, <2>3, ReturnTyped
<1>13. ASSUME NEW p \in Procs, WriteEtag(p) PROVE Typed'
  <2>1. pc' = [pc EXCEPT ![p] = "rename"] /\ pc' \in [Procs -> Labels] /\ etag' \in [Indexes -> Contents]
    BY <1>6, <1>13, <1>t, ContentFacts DEF WriteEtag, Typed, TypeOK, Goto, Labels, Put
  <2>2. AtList'
    BY <1>13, <2>1 DEF WriteEtag, Typed, TypeOK, AtList
  <2> QED
    BY <1>13, <2>1, <2>2 DEF WriteEtag, Typed, TypeOK, Labels
<1>14. ASSUME NEW p \in Procs, Rename(p) PROVE Typed'
  <2>1. cache' \in [Indexes -> Contents] /\ tmp' \in [Indexes -> Contents]
    BY <1>6, <1>14, <1>t, ContentFacts DEF Rename, Put
  <2>2. fd' \in [Procs -> {"tmp", "cache", "none"}] /\ torn' \subseteq Indexes
    BY <1>14, <1>t DEF Rename, Moved
  <2>3. body[p] \in Contents /\ Return(p, body[p], FALSE) /\ FALSE \in BOOLEAN
    BY <1>6, <1>14 DEF Rename
  <2>4. /\ UNCHANGED <<kind, conf, server, held, changes, breaks, due>>
        /\ {cache', etag', tmp'} \subseteq [Indexes -> Contents]
    BY <1>14, <1>t, <2>1 DEF Rename
  <2> HIDE DEF world
  <2> QED
    BY <1>t, <2>2, <2>3, <2>4, ReturnTyped
<1>b. ASSUME Breaks PROVE breaks' \in 0 .. MaxBreaks
  BY <1>b, <1>t, BoundAssumption DEF Breaks
<1>e. ASSUME NEW p \in Procs PROVE Torn(p) \subseteq Indexes
  BY <1>6, <1>t DEF Torn
<1>17. ASSUME NEW p \in Procs, RenameFails(p) PROVE Typed'
  <2>1. /\ Return(p, NoFile, FALSE) /\ UNCHANGED <<kind, conf, server, held, changes, due, fd>>
        /\ {cache', etag', tmp'} \subseteq [Indexes -> Contents]
    BY <1>17, <1>t DEF RenameFails
  <2>2. breaks' \in 0 .. MaxBreaks /\ torn' \subseteq Indexes
    BY <1>17, <1>b, <1>e, <1>t DEF RenameFails
  <2>3. NoFile \in Contents /\ FALSE \in BOOLEAN
    BY ContentFacts
  <2> HIDE DEF world
  <2> QED
    BY <1>t, <2>1, <2>2, <2>3, ReturnTyped
<1>15. ASSUME NEW p \in Procs, Crash(p) PROVE Typed'
  <2>1. /\ breaks' \in 0 .. MaxBreaks /\ fd' \in [Procs -> {"tmp", "cache", "none"}]
        /\ torn' \subseteq Indexes
    BY <1>15, <1>b, <1>e, <1>t DEF Crash
  <2> QED
    BY <1>15, <1>t, <2>1, LeaveTyped DEF Crash, Typed, TypeOK
<1>16. CASE UNCHANGED vars
  BY <1>16 DEF vars, Typed, TypeOK, AtList
<1> QED
  BY <1>1, <1>2, <1>3, <1>4, <1>5, <1>7, <1>8, <1>9, <1>10, <1>11, <1>12, <1>13, <1>14, <1>15, <1>16,
     <1>17 DEF Next, Sync

LEMMA InitTyped == Init => Typed
<1> SUFFICES ASSUME Init PROVE Typed
  OBVIOUS
<1>1. TypeOK
  BY ContentFacts, BoundAssumption DEF Init, TypeOK, Unread
<1>2. AtList
  BY DEF Init, AtList
<1> QED
  BY <1>1, <1>2 DEF Typed

LEMMA TypedAlways == Spec => []Typed
BY InitTyped, TypeInductive, PTL DEF Spec

\* Every variable keeps its type, for any processes, lists, configurations and kills.
THEOREM TypeCorrect == Spec => []TypeOK
<1>1. Typed => TypeOK
  BY DEF Typed
<1> QED
  BY <1>1, TypedAlways, PTL

-----------------------------------------------------------------------------
(* A sync that works alone.                                                *)

\* What a process has of the list it is at, and what it leaves in the files.
HasBody == {"unchanged", "write", "writing", "etag", "rename"}

Alone == \A p, q \in Procs : p = q

\* The temporary file belongs to the process that writes it.
InHand(p) ==
    /\ fd[p] = IF pc[p] = "writing" THEN "tmp" ELSE "none"
    /\ pc[p] \in {"etag", "rename"} => tmp[idx[p]] = body[p]
    /\ pc[p] \in HasBody => /\ body[p] = due[p] /\ body[p] \in Lists
                            /\ body[p].url = Url(p) /\ body[p].version <= server[Url(p)]

\* The other two files are whole lists, and the ETag of a version that was published.
Whole(i) ==
    /\ cache[i] \in Lists \cup {NoFile} /\ etag[i] \in Lists \cup {NoFile}
    /\ etag[i] \in Lists => etag[i].version <= server[etag[i].url]

FilesInv == (\A p \in Procs : InHand(p)) /\ (\A i \in Indexes : Whole(i))

\* The files of an index are of the list configured there.
OwnFiles ==
    \A i \in Indexes, l \in Lists : l \in {cache[i], etag[i]} => i \in DOMAIN conf /\ l.url = conf[i]

\* A sync has every list it has passed, unless one failed.
Passed(p) == \A i \in DOMAIN conf : i < idx[p] => failed[p] \/ conf[i] \in Hosts \cup desired[p]

\* So it is until another configuration.
OwnInv == changes = 0 => OwnFiles /\ \A p \in Procs : Passed(p)

\* The ETag of i does not make its server confirm a cache that is not the list.
Stale(i) == etag[i] \in Lists /\ etag[i].url = conf[i] => etag[i].version < server[conf[i]]

\* The ETag of an index is that of its cache, except in the step between the two and
\* where the second one never came.
Paired(i) ==
    \/ cache[i] = etag[i] \/ Stale(i) \/ i \in torn
    \/ \E p \in Procs : pc[p] = "rename" /\ idx[p] = i /\ etag[i] = body[p]

\* What the steps of fetchCachedLines know of the files.
Fetching(p) ==
    /\ pc[p] = "idle" => result[p].lines = NoFile
    /\ pc[p] = "request" => sent[p] = etag[idx[p]]
    /\ pc[p] = "unchanged" => cache[idx[p]] = due[p] \/ idx[p] \in torn
    /\ pc[p] \in {"write", "writing", "etag"} => Stale(idx[p])
    /\ pc[p] = "rename" => etag[idx[p]] = body[p] \/ Stale(idx[p])

Fresh(p) == idx[p] - 1 \notin torn => IsFresh(p)

FreshInv ==
    changes <= 1 => (\A i \in DOMAIN conf : Paired(i)) /\ (\A p \in Procs : Fetching(p) /\ Fresh(p))

\* What a step of fetchCachedLines that returns, or the end of a sync, leaves of a process.
LEMMA Returned ==
    ASSUME Typed, NEW p \in Procs, NEW lines \in Contents, NEW fromCache \in BOOLEAN,
           Return(p, lines, fromCache), UNCHANGED due
    PROVE  /\ pc'[p] = "list" /\ idx'[p] = idx[p] + 1
           /\ result'[p] = [lines |-> lines, fromCache |-> fromCache]
           /\ desired[p] \subseteq desired'[p]
           /\ failed[p] => failed'[p]
           /\ lines = NoFile => failed'[p]
           /\ lines \in Lists => lines.url \in Hosts \cup desired'[p]
<1>1. PICK entries \in Resolved(lines) : desired' = [desired EXCEPT ![p] = @ \cup entries]
  BY DEF Return
<1>2. desired'[p] = desired[p] \cup entries
  BY <1>1 DEF Typed, TypeOK
<1>3. lines \in Lists => lines.url \in Hosts \/ lines.url \in entries
  BY <1>1 DEF Resolved
<1>4. failed'[p] = (failed[p] \/ lines = NoFile)
  BY DEF Return, Typed, TypeOK
<1>5. /\ pc'[p] = "list" /\ idx'[p] = idx[p] + 1
      /\ result'[p] = [lines |-> lines, fromCache |-> fromCache]
  BY DEF Return, Goto, Typed, TypeOK
<1> QED
  BY <1>2, <1>3, <1>4, <1>5

LEMMA Left ==
    ASSUME Typed, NEW p \in Procs, Leave(p)
    PROVE  pc'[p] = "idle" /\ idx'[p] = 0 /\ result'[p].lines = NoFile
BY DEF Leave, Goto, Typed, TypeOK, Unread

\* A sync that is beyond its start is at a list that is configured.
LEMMA AtConfigured ==
    ASSUME Typed, NEW p \in Procs, pc[p] \notin {"idle", "list"}
    PROVE  /\ idx[p] \in Indexes /\ idx[p] \in DOMAIN conf /\ idx[p] \in Nat
           /\ Url(p) = conf[idx[p]] /\ Url(p) \in Urls
           /\ Current(Url(p)) \in Lists /\ Current(Url(p)).url = Url(p)
           /\ Current(Url(p)).version = server[Url(p)]
<1>1. idx[p] \in 1 .. Len(conf)
  BY Places, IndexFacts DEF Typed, TypeOK, AtList
<1> QED
  BY <1>1, Places DEF Typed, Url

\* A version that has been published stays published.
LEMMA ServerGrows ==
    ASSUME Typed, Publish
    PROVE  \A u \in Urls : server[u] \in Nat /\ server'[u] \in Nat /\ server[u] <= server'[u]
<1>1. PICK u \in Urls : server[u] < MaxVersion /\ server' = [server EXCEPT ![u] = @ + 1]
  BY DEF Publish
<1>2. server \in [Urls -> Nat]
  BY DEF Typed, TypeOK
<1> QED
  BY <1>1, <1>2

LEMMA FilesInductive == ASSUME Typed, Alone, FilesInv, [Next]_vars PROVE FilesInv'
<1> USE DEF world, files, collected, request
<1>i. \A i \in Indexes : Whole(i)
  BY DEF FilesInv
<1>h. \A p \in Procs : InHand(p)
  BY DEF FilesInv
<1>t. /\ {cache, etag, tmp} \subseteq [Indexes -> Contents] /\ fd \in [Procs -> {"tmp", "cache", "none"}]
      /\ pc \in [Procs -> Labels] /\ {sent, body, due} \subseteq [Procs -> Contents] /\ conf \in Confs
  BY DEF Typed, TypeOK, Labels
<1>k. UNCHANGED <<cache, etag, server>> => \A i \in Indexes : Whole(i)'
  BY <1>i DEF Whole
\* One process works: what holds of it holds of all.
<1>q. ASSUME NEW p \in Procs, InHand(p)', \A i \in Indexes : Whole(i)' PROVE FilesInv'
  BY <1>q DEF FilesInv, Alone
<1>r. ASSUME NEW p \in Procs, NEW lines \in Contents, NEW fromCache \in BOOLEAN,
             Return(p, lines, fromCache), UNCHANGED due, fd'[p] = "none"
      PROVE  InHand(p)'
  <2>1. pc'[p] = "list"
    BY <1>r, Returned
  <2> QED
    BY <1>r, <2>1 DEF InHand, HasBody
<1>1. CASE Publish
  <2>1. ASSUME NEW i \in Indexes PROVE Whole(i)'
    <3>1. etag[i] \in Lists => etag[i].url \in Urls /\ etag[i].version \in Nat
      BY ContentFacts, BoundAssumption
    <3>2. etag[i] \in Lists => etag[i].version <= server'[etag[i].url]
      BY <1>1, <1>i, <3>1, ServerGrows DEF Whole
    <3> QED
      BY <1>1, <1>i, <3>2 DEF Publish, Whole
  <2>2. ASSUME NEW p \in Procs PROVE InHand(p)'
    <3>1. pc[p] \in HasBody => Url(p) \in Urls
      BY AtConfigured DEF HasBody
    <3>2. UNCHANGED <<fd, pc, tmp, idx, body, due, conf>>
      BY <1>1 DEF Publish
    <3>3. pc[p] \in HasBody => body[p].version \in Nat
      BY <1>h, ContentFacts DEF InHand
    <3> QED
      BY <1>1, <1>h, <3>1, <3>2, <3>3, ServerGrows DEF InHand, Url, HasBody
  <2> QED
    BY <2>1, <2>2 DEF FilesInv
<1>2. CASE Reconfigure
  <2>1. \A p \in Procs : pc[p] = "idle"
    BY <1>2 DEF Reconfigure
  <2> QED
    BY <1>2, <1>h, <1>k, <2>1 DEF Reconfigure, FilesInv, InHand, HasBody
<1>3. ASSUME NEW p \in Procs, SyncBegin(p) PROVE FilesInv'
  BY <1>3, <1>h, <1>k, <1>q, <1>t DEF SyncBegin, InHand, Goto, HasBody
<1>4. ASSUME NEW p \in Procs, SyncEnds(p) PROVE FilesInv'
  <2>1. pc'[p] = "idle"
    BY <1>4, Left DEF SyncEnds
  <2> QED
    BY <1>4, <1>h, <1>k, <1>q, <2>1 DEF SyncEnds, InHand, HasBody
<1>5. ASSUME NEW p \in Procs, ReadEtag(p) PROVE FilesInv'
  BY <1>5, <1>h, <1>k, <1>q, <1>t DEF ReadEtag, InHand, Goto, HasBody
<1>6. ASSUME NEW p \in Procs, Answer(p) PROVE FilesInv'
  <2>1. Current(Url(p)) \in Lists /\ Current(Url(p)).url = Url(p) /\ Current(Url(p)).version = server[Url(p)]
        /\ server[Url(p)] \in Int
    BY <1>6, AtConfigured DEF Answer, Typed, TypeOK
  <2>2. pc'[p] \in {"unchanged", "write"} /\ fd'[p] = "none"
    BY <1>6, <1>h, <1>t DEF Answer, InHand, Goto
  <2>3. body'[p] = Current(Url(p)) /\ due'[p] = Current(Url(p)) /\ UNCHANGED <<conf, server, idx>>
    BY <1>6, <1>t DEF Answer
  <2>4. InHand(p)'
    BY <2>1, <2>2, <2>3 DEF InHand, HasBody, Url
  <2> QED
    BY <1>6, <1>k, <1>q, <2>4 DEF Answer
<1>7. ASSUME NEW p \in Procs, NoAnswer(p) \/ Unchanged304(p) PROVE FilesInv'
  <2>1. pc[p] \in {"request", "unchanged"} /\ UNCHANGED fd
    BY <1>7 DEF NoAnswer, Unchanged304
  <2>2. cache[idx[p]] \in Contents /\ fd'[p] = "none"
    BY <1>h, <1>t, <2>1, AtConfigured DEF InHand
  <2>3. \E b \in BOOLEAN : Return(p, cache[idx[p]], b)
    BY <1>7 DEF NoAnswer, Unchanged304
  <2>4. UNCHANGED <<cache, etag, server, due>>
    BY <1>7 DEF NoAnswer, Unchanged304
  <2> QED
    BY <1>k, <1>q, <1>r, <2>2, <2>3, <2>4
<1>8. ASSUME NEW p \in Procs, BodyBreaks(p) \/ WriteFails(p) PROVE FilesInv'
  <2>1. fd'[p] = "none" /\ UNCHANGED <<cache, etag, server, due>> /\ Return(p, NoFile, FALSE)
    BY <1>8, <1>h, <1>t DEF BodyBreaks, WriteFails, InHand
  <2> QED
    BY <1>k, <1>q, <1>r, <2>1, ContentFacts
<1>9. ASSUME NEW p \in Procs, WriteBegin(p) PROVE FilesInv'
  <2>1. pc'[p] = "writing" /\ fd'[p] = "tmp" /\ pc[p] \in HasBody
    BY <1>9, <1>t DEF WriteBegin, Goto, HasBody
  <2> QED
    BY <1>9, <1>h, <1>k, <1>q, <2>1 DEF WriteBegin, InHand, HasBody, Url
<1>10. ASSUME NEW p \in Procs, WriteEnd(p) PROVE FilesInv'
  <2>1. pc[p] = "writing" /\ fd[p] = "tmp" /\ idx[p] \in Indexes
    BY <1>10, <1>h, AtConfigured DEF WriteEnd, InHand
  <2>2. Written(p) = {body[p]}
    BY DEF Written, Alone
  <2>3. tmp' = Put(tmp, p, body[p]) /\ cache' = cache
    BY <1>10, <2>1, <2>2 DEF WriteEnd
  <2>4. tmp'[idx[p]] = body[p]
    BY <1>t, <2>1, <2>3 DEF Put
  <2>5. pc'[p] = "etag" /\ fd'[p] = "none" /\ UNCHANGED <<conf, server, etag, idx, body, due>>
    BY <1>10, <1>t DEF WriteEnd, Goto
  <2> QED
    BY <1>h, <1>k, <1>q, <2>1, <2>3, <2>4, <2>5 DEF InHand, HasBody, Url
<1>11. ASSUME NEW p \in Procs, WriteEtag(p) PROVE FilesInv'
  <2>1. pc[p] = "etag" /\ idx[p] \in Indexes /\ pc[p] \in HasBody
    BY <1>11, AtConfigured DEF WriteEtag, HasBody
  <2>2. body[p] \in Lists /\ body[p].version <= server[body[p].url]
    BY <1>h, <2>1 DEF InHand
  <2>3. pc'[p] = "rename" /\ UNCHANGED <<fd, conf, server, cache, tmp, idx, body, due>>
    BY <1>11, <1>t DEF WriteEtag, Goto
  <2>4. \A i \in Indexes : etag'[i] \in {etag[i], NoFile, body[p]}
    BY <1>11, <1>t DEF WriteEtag, Put
  <2>5. ASSUME NEW i \in Indexes PROVE Whole(i)'
    BY <1>i, <2>2, <2>3, <2>4, ContentFacts DEF Whole
  <2>6. InHand(p)'
    BY <1>h, <2>1, <2>3 DEF InHand, HasBody, Url
  <2> QED
    BY <1>q, <2>5, <2>6
<1>12. ASSUME NEW p \in Procs, Rename(p) PROVE FilesInv'
  <2>1. pc[p] = "rename" /\ idx[p] \in Indexes /\ pc[p] \in HasBody
    BY <1>12, AtConfigured DEF Rename, HasBody
  <2>2. body[p] \in Lists /\ tmp[idx[p]] = body[p] /\ fd[p] = "none"
    BY <1>h, <2>1 DEF InHand
  <2>3. tmp[idx[p]] # NoFile
    BY <2>2, ContentFacts
  <2>4. cache' = Put(cache, p, body[p]) /\ UNCHANGED <<server, etag, due>> /\ Return(p, body[p], FALSE)
    BY <1>12, <2>2, <2>3 DEF Rename
  <2>5. fd'[p] = "none"
    BY <1>12, <2>2, <2>3 DEF Rename, Moved
  <2>6. ASSUME NEW i \in Indexes PROVE Whole(i)'
    BY <1>i, <1>t, <2>2, <2>4 DEF Whole, Put
  <2>7. InHand(p)'
    BY <1>r, <2>2, <2>4, <2>5, ContentFacts
  <2> QED
    BY <1>q, <2>6, <2>7
<1>15. ASSUME NEW p \in Procs, RenameFails(p) PROVE FilesInv'
  <2>1. /\ pc[p] = "rename" /\ UNCHANGED <<cache, etag, fd, server, due>> /\ Return(p, NoFile, FALSE)
    BY <1>15 DEF RenameFails
  <2>2. fd'[p] = "none"
    BY <1>h, <2>1 DEF InHand
  <2> QED
    BY <1>k, <1>q, <1>r, <2>1, <2>2, ContentFacts
<1>13. ASSUME NEW p \in Procs, Crash(p) PROVE FilesInv'
  <2>1. pc'[p] = "idle" /\ fd'[p] = "none"
    BY <1>13, <1>t, Left DEF Crash
  <2>2. InHand(p)'
    BY <2>1 DEF InHand, HasBody
  <2> QED
    BY <1>13, <1>k, <1>q, <2>2 DEF Crash
<1>14. CASE UNCHANGED vars
  BY <1>14, <1>h, <1>k DEF vars, FilesInv, InHand, Url
<1> QED
  BY <1>1, <1>2, <1>3, <1>4, <1>5, <1>6, <1>7, <1>8, <1>9, <1>10, <1>11, <1>12, <1>13, <1>14,
     <1>15 DEF Next, Sync

LEMMA OwnInductive == ASSUME Typed, Alone, FilesInv, OwnInv, [Next]_vars PROVE OwnInv'
<1> USE DEF world, files, collected, request
<1>0. changes \in Nat /\ (changes' = 0 => changes = 0)
  <2>1. changes \in Nat
    BY DEF Typed, TypeOK
  <2>2. Reconfigure => changes' = changes + 1
    BY DEF Reconfigure
  <2>3. Publish \/ UNCHANGED vars => UNCHANGED changes
    BY DEF Publish, vars
  <2>4. ASSUME NEW p \in Procs, Sync(p) \/ Crash(p) PROVE UNCHANGED changes
    <3>1. SyncBegin(p) \/ SyncEnds(p) \/ Crash(p) => UNCHANGED changes
      BY DEF SyncBegin, SyncEnds, Crash
    <3>2. ReadEtag(p) \/ Answer(p) \/ NoAnswer(p) \/ Unchanged304(p) \/ BodyBreaks(p) => UNCHANGED changes
      BY DEF ReadEtag, Answer, NoAnswer, Unchanged304, BodyBreaks
    <3>3. WriteBegin(p) \/ WriteEnd(p) \/ WriteFails(p) \/ WriteEtag(p) => UNCHANGED changes
      BY DEF WriteBegin, WriteEnd, WriteFails, WriteEtag
    <3>4. Rename(p) \/ RenameFails(p) => UNCHANGED changes
      BY DEF Rename, RenameFails
    <3> QED
      BY <2>4, <3>1, <3>2, <3>3, <3>4 DEF Sync
  <2> QED
    BY <2>1, <2>2, <2>3, <2>4 DEF Next
<1> SUFFICES ASSUME changes = 0, changes' = 0 PROVE OwnFiles' /\ \A p \in Procs : Passed(p)'
  BY <1>0 DEF OwnInv
<1>f. OwnFiles
  BY DEF OwnInv
<1>h. \A p \in Procs : Passed(p)
  BY DEF OwnInv
<1>t. /\ cache \in [Indexes -> Contents] /\ etag \in [Indexes -> Contents] /\ conf \in Confs
      /\ idx \in [Procs -> Nat] /\ DOMAIN conf \subseteq Nat
  BY IndexFacts DEF Typed, TypeOK
<1>k. UNCHANGED <<cache, etag, conf>> => OwnFiles'
  BY <1>f DEF OwnFiles
<1>p. UNCHANGED <<idx, desired, failed, conf>> => \A p \in Procs : Passed(p)'
  BY <1>h DEF Passed
<1>q. ASSUME NEW p \in Procs, Passed(p)' PROVE \A q \in Procs : Passed(q)'
  BY <1>q DEF Alone
\* A return is an error, or the list configured at the index.
<1>r. ASSUME NEW p \in Procs, NEW lines \in Lists \cup {NoFile}, NEW fromCache \in BOOLEAN,
             Return(p, lines, fromCache), UNCHANGED <<conf, due>>, idx[p] \in DOMAIN conf,
             lines \in Lists => lines.url = conf[idx[p]]
      PROVE  \A q \in Procs : Passed(q)'
  <2>1. lines \in Contents
    BY ContentFacts
  <2>2. /\ idx'[p] = idx[p] + 1 /\ desired[p] \subseteq desired'[p]
        /\ failed[p] => failed'[p]
        /\ lines = NoFile => failed'[p]
        /\ lines \in Lists => lines.url \in Hosts \cup desired'[p]
    BY <1>r, <2>1, Returned
  <2>3. ASSUME NEW i \in DOMAIN conf, i < idx'[p] PROVE failed'[p] \/ conf[i] \in Hosts \cup desired'[p]
    <3>1. CASE i = idx[p]
      BY <1>r, <2>2, <3>1
    <3>2. CASE i # idx[p]
      <4>1. i < idx[p]
        BY <1>t, <2>2, <2>3, <3>2
      <4> QED
        BY <1>h, <2>2, <4>1 DEF Passed
    <3> QED
      BY <3>1, <3>2
  <2>4. Passed(p)'
    BY <1>r, <2>3 DEF Passed
  <2> QED
    BY <1>q, <2>4
<1>1. CASE Publish
  BY <1>1, <1>k, <1>p DEF Publish
<1>2. CASE Reconfigure
  BY <1>2 DEF Reconfigure
<1>3. ASSUME NEW p \in Procs, SyncBegin(p) PROVE OwnFiles' /\ \A q \in Procs : Passed(q)'
  <2>1. idx'[p] = 1 /\ UNCHANGED <<cache, etag, conf>>
    BY <1>3, <1>t DEF SyncBegin
  <2>2. \A i \in DOMAIN conf : i >= 1
    BY <1>t, IndexFacts
  <2>3. Passed(p)'
    BY <1>t, <2>1, <2>2 DEF Passed
  <2> QED
    BY <1>k, <1>q, <2>1, <2>3
<1>4. ASSUME NEW p \in Procs, Leave(p), UNCHANGED <<cache, etag, conf>>
      PROVE  OwnFiles' /\ \A q \in Procs : Passed(q)'
  <2>1. idx'[p] = 0
    BY <1>4, Left
  <2>2. Passed(p)'
    BY <1>4, <1>t, <2>1 DEF Passed
  <2> QED
    BY <1>4, <1>k, <1>q, <2>2
<1>5. ASSUME NEW p \in Procs, ReadEtag(p) \/ Answer(p) \/ WriteBegin(p)
      PROVE  OwnFiles' /\ \A q \in Procs : Passed(q)'
  BY <1>5, <1>k, <1>p DEF ReadEtag, Answer, WriteBegin
<1>6. ASSUME NEW p \in Procs, NoAnswer(p) \/ Unchanged304(p) PROVE OwnFiles' /\ \A q \in Procs : Passed(q)'
  <2>1. pc[p] \in {"request", "unchanged"} /\ UNCHANGED <<cache, etag, conf, due>>
    BY <1>6 DEF NoAnswer, Unchanged304
  <2>2. idx[p] \in Indexes /\ idx[p] \in DOMAIN conf
    BY <2>1, AtConfigured
  <2>3. cache[idx[p]] \in Lists \cup {NoFile}
    BY <2>2 DEF FilesInv, Whole
  <2>4. cache[idx[p]] \in Lists => cache[idx[p]].url = conf[idx[p]]
    BY <1>f, <2>2 DEF OwnFiles
  <2>5. \E b \in BOOLEAN : Return(p, cache[idx[p]], b)
    BY <1>6 DEF NoAnswer, Unchanged304
  <2> QED
    BY <1>k, <1>r, <2>1, <2>2, <2>3, <2>4, <2>5
<1>7. ASSUME NEW p \in Procs, BodyBreaks(p) \/ WriteFails(p) \/ RenameFails(p)
      PROVE  OwnFiles' /\ \A q \in Procs : Passed(q)'
  <2>1. /\ pc[p] \in {"write", "writing", "rename"} /\ UNCHANGED <<cache, etag, conf, due>>
        /\ Return(p, NoFile, FALSE)
    BY <1>7 DEF BodyBreaks, WriteFails, RenameFails
  <2>2. idx[p] \in DOMAIN conf
    BY <2>1, AtConfigured
  <2> QED
    BY <1>k, <1>r, <2>1, <2>2, ContentFacts
<1>8. ASSUME NEW p \in Procs, WriteEnd(p) PROVE OwnFiles' /\ \A q \in Procs : Passed(q)'
  <2>1. fd[p] = "tmp"
    BY <1>8 DEF WriteEnd, FilesInv, InHand
  <2> QED
    BY <1>8, <1>k, <1>p, <2>1 DEF WriteEnd
<1>9. ASSUME NEW p \in Procs, WriteEtag(p) PROVE OwnFiles' /\ \A q \in Procs : Passed(q)'
  <2>1. pc[p] = "etag" /\ UNCHANGED <<cache, conf, idx, desired, failed>>
    BY <1>9 DEF WriteEtag
  <2>2. /\ idx[p] \in DOMAIN conf /\ idx[p] \in Indexes /\ body[p].url = conf[idx[p]]
    BY <2>1, AtConfigured DEF FilesInv, InHand, HasBody
  <2>3. \A i \in Indexes : etag'[i] \in {etag[i], NoFile} \/ (i = idx[p] /\ etag'[i] = body[p])
    BY <1>9, <1>t DEF WriteEtag, Put
  <2>4. OwnFiles'
    BY <1>f, <2>1, <2>2, <2>3, ContentFacts DEF OwnFiles
  <2> QED
    BY <1>p, <2>1, <2>4
<1>10. ASSUME NEW p \in Procs, Rename(p) PROVE OwnFiles' /\ \A q \in Procs : Passed(q)'
  <2>1. pc[p] = "rename" /\ UNCHANGED <<etag, conf, due>>
    BY <1>10 DEF Rename
  <2>2. /\ idx[p] \in DOMAIN conf /\ idx[p] \in Indexes /\ body[p].url = conf[idx[p]]
        /\ body[p] \in Lists /\ tmp[idx[p]] = body[p]
    BY <2>1, AtConfigured DEF FilesInv, InHand, HasBody
  <2>3. tmp[idx[p]] # NoFile
    BY <2>2, ContentFacts
  <2>4. cache' = Put(cache, p, body[p]) /\ Return(p, body[p], FALSE)
    BY <1>10, <2>2, <2>3 DEF Rename
  <2>5. \A i \in Indexes : cache'[i] = cache[i] \/ (i = idx[p] /\ cache'[i] = body[p])
    BY <1>t, <2>4 DEF Put
  <2>6. OwnFiles'
    BY <1>f, <2>1, <2>2, <2>5 DEF OwnFiles
  <2>7. FALSE \in BOOLEAN
    OBVIOUS
  <2> QED
    BY <1>r, <2>1, <2>2, <2>4, <2>6, <2>7
<1>11. CASE UNCHANGED vars
  BY <1>11, <1>k, <1>p DEF vars
<1>12. ASSUME NEW p \in Procs, SyncEnds(p) \/ Crash(p) PROVE OwnFiles' /\ \A q \in Procs : Passed(q)'
  BY <1>4, <1>12 DEF SyncEnds, Crash
<1> QED
  BY <1>1, <1>2, <1>3, <1>5, <1>6, <1>7, <1>8, <1>9, <1>10, <1>11, <1>12 DEF Next, Sync

LEMMA FilesInit == Init => FilesInv /\ OwnInv
<1> SUFFICES ASSUME Init PROVE FilesInv /\ OwnInv
  OBVIOUS
<1>1. \A i \in Indexes : cache[i] = NoFile /\ etag[i] = NoFile
  BY DEF Init
<1>2. FilesInv
  BY <1>1, ContentFacts DEF Init, FilesInv, InHand, Whole, HasBody
<1>3. conf \in Confs /\ \A p \in Procs : idx[p] = 0
  BY DEF Init
<1>4. OwnInv
  BY <1>1, <1>3, IndexFacts, ContentFacts DEF OwnInv, OwnFiles, Passed
<1> QED
  BY <1>2, <1>4

LEMMA OwnAlways == ASSUME Alone PROVE Spec => [](Typed /\ FilesInv /\ OwnInv)
<1>1. Init => Typed /\ FilesInv /\ OwnInv
  BY InitTyped, FilesInit
<1>2. Typed /\ FilesInv /\ OwnInv /\ [Next]_vars => (Typed /\ FilesInv /\ OwnInv)'
  BY TypeInductive, FilesInductive, OwnInductive
<1> QED
  BY <1>1, <1>2, PTL DEF Spec

\* A sync that ends has what each configured list of an address holds, or keeps what is held.
LEMMA EndKeeps ==
    ASSUME Typed, OwnInv, changes = 0, NEW p \in Procs, SyncEnds(p)
    PROVE  (held \cap Configured) \ Hosts \subseteq held'
<1>1. conf \in Confs /\ idx[p] \in Nat /\ idx[p] > Len(conf)
  BY DEF SyncEnds, Typed, TypeOK
<1>2. failed[p] => held \subseteq held'
  BY DEF SyncEnds, WhitelistAfter, BlocklistAfter
<1>3. ~failed[p] => held' = desired[p]
  BY DEF SyncEnds, WhitelistAfter, BlocklistAfter
<1>4. Passed(p)
  BY DEF OwnInv
<1>5. ASSUME ~failed[p], NEW i \in DOMAIN conf PROVE conf[i] \in Hosts \cup desired[p]
  <2>1. i < idx[p]
    BY <1>1, IndexFacts
  <2> QED
    BY <1>4, <1>5, <2>1 DEF Passed
<1> QED
  BY <1>2, <1>3, <1>5 DEF Configured

\* What a configured list of an address holds stays whitelisted or banned in every
\* sync of a process that works alone, whatever fails and whenever it is killed.
THEOREM AddressesStay == ASSUME Alone PROVE Spec => KeptWhileListed
<1>1. ASSUME Typed, OwnInv, [Next]_vars, changes = 0 PROVE (held \cap Configured) \ Hosts \subseteq held'
  <2>1. Publish \/ Reconfigure \/ UNCHANGED vars => UNCHANGED held
    BY DEF Publish, Reconfigure, vars, world
  <2>2. ASSUME NEW p \in Procs, Sync(p) \/ Crash(p) PROVE SyncEnds(p) \/ UNCHANGED held
    <3> USE DEF world
    <3>1. SyncBegin(p) \/ Crash(p) => UNCHANGED held
      BY DEF SyncBegin, Crash
    <3>2. ReadEtag(p) \/ Answer(p) \/ NoAnswer(p) \/ Unchanged304(p) \/ BodyBreaks(p) => UNCHANGED held
      BY DEF ReadEtag, Answer, NoAnswer, Unchanged304, BodyBreaks
    <3>3. WriteBegin(p) \/ WriteEnd(p) \/ WriteFails(p) \/ WriteEtag(p) => UNCHANGED held
      BY DEF WriteBegin, WriteEnd, WriteFails, WriteEtag
    <3>4. Rename(p) \/ RenameFails(p) => UNCHANGED held
      BY DEF Rename, RenameFails
    <3> QED
      BY <2>2, <3>1, <3>2, <3>3, <3>4 DEF Sync
  <2> QED
    BY <1>1, <2>1, <2>2, EndKeeps DEF Next
<1>2. Typed /\ OwnInv /\ [Next]_vars => (changes = 0 => (held \cap Configured) \ Hosts \subseteq held')
  BY <1>1
<1> QED
  BY <1>2, OwnAlways, PTL DEF Spec, KeptWhileListed

LEMMA FreshInductive == ASSUME Typed, Alone, FilesInv, OwnInv, FreshInv, [Next]_vars PROVE FreshInv'
<1> USE DEF world, files, collected, request
<1> DEFINE Goal == (\A i \in DOMAIN conf' : Paired(i)') /\ (\A p \in Procs : Fetching(p)' /\ Fresh(p)')
<1>0. changes' <= 1 => changes <= 1 /\ (UNCHANGED changes \/ (Reconfigure /\ changes = 0))
  <2>1. changes \in Nat
    BY DEF Typed, TypeOK
  <2>2. Reconfigure => changes' = changes + 1
    BY DEF Reconfigure
  <2>3. Publish \/ UNCHANGED vars => UNCHANGED changes
    BY DEF Publish, vars
  <2>4. ASSUME NEW p \in Procs, Sync(p) \/ Crash(p) PROVE UNCHANGED changes
    <3>1. SyncBegin(p) \/ SyncEnds(p) \/ Crash(p) => UNCHANGED changes
      BY DEF SyncBegin, SyncEnds, Crash
    <3>2. ReadEtag(p) \/ Answer(p) \/ NoAnswer(p) \/ Unchanged304(p) \/ BodyBreaks(p) => UNCHANGED changes
      BY DEF ReadEtag, Answer, NoAnswer, Unchanged304, BodyBreaks
    <3>3. WriteBegin(p) \/ WriteEnd(p) \/ WriteFails(p) \/ WriteEtag(p) => UNCHANGED changes
      BY DEF WriteBegin, WriteEnd, WriteFails, WriteEtag
    <3>4. Rename(p) \/ RenameFails(p) => UNCHANGED changes
      BY DEF Rename, RenameFails
    <3> QED
      BY <2>4, <3>1, <3>2, <3>3, <3>4 DEF Sync
  <2> QED
    BY <2>1, <2>2, <2>3, <2>4 DEF Next
<1> SUFFICES ASSUME changes' <= 1 PROVE Goal
  BY DEF FreshInv
<1>i. \A i \in DOMAIN conf : Paired(i)
  BY <1>0 DEF FreshInv
<1>h. \A p \in Procs : Fetching(p) /\ Fresh(p)
  BY <1>0 DEF FreshInv
<1>t. /\ cache \in [Indexes -> Contents] /\ etag \in [Indexes -> Contents] /\ tmp \in [Indexes -> Contents]
      /\ conf \in Confs /\ idx \in [Procs -> Nat] /\ pc \in [Procs -> Labels]
      /\ sent \in [Procs -> Contents] /\ body \in [Procs -> Contents] /\ due \in [Procs -> Contents]
      /\ result \in [Procs -> Results]
  BY DEF Typed, TypeOK, Labels, Results
<1>d. DOMAIN conf \subseteq Indexes
  BY <1>t, IndexFacts
<1>s. ASSUME NEW i, UNCHANGED <<etag, conf, server>> PROVE Stale(i) <=> Stale(i)'
  BY <1>s DEF Stale
<1>k. ASSUME NEW p \in Procs, UNCHANGED <<cache, etag, torn, conf, server>>, pc[p] # "rename"
      PROVE  \A i \in DOMAIN conf' : Paired(i)'
  <2>1. \A i \in DOMAIN conf : cache[i] = etag[i] \/ Stale(i) \/ i \in torn
    BY <1>i, <1>k DEF Paired, Alone
  <2> QED
    BY <1>k, <1>s, <2>1 DEF Paired
<1>q. ASSUME NEW p \in Procs, Fetching(p)', Fresh(p)', \A i \in DOMAIN conf' : Paired(i)' PROVE Goal
  BY <1>q DEF Alone
<1>r. ASSUME NEW p \in Procs, NEW lines \in Contents, NEW fromCache \in BOOLEAN,
             Return(p, lines, fromCache), UNCHANGED due,
             lines # NoFile /\ ~fromCache => lines = due[p] \/ idx[p] \in torn'
      PROVE  Fetching(p)' /\ Fresh(p)'
  <2>4. idx'[p] = idx[p] + 1 /\ idx[p] \in Nat
    BY <1>r, <1>t, Returned
  <2>1. pc'[p] = "list" /\ result'[p] = [lines |-> lines, fromCache |-> fromCache] /\ idx'[p] - 1 = idx[p]
    BY <1>r, <2>4, Returned
  <2>2. Fetching(p)'
    BY <2>1 DEF Fetching
  <2>3. Fresh(p)'
    BY <1>r, <2>1 DEF Fresh, IsFresh
  <2> QED
    BY <2>2, <2>3
<1> HIDE DEF Goal

<1>1. CASE Publish
  <2>1. ASSUME NEW i \in DOMAIN conf, Stale(i) PROVE Stale(i)'
    <3>1. conf[i] \in Urls /\ UNCHANGED <<etag, conf>>
      BY <1>1, <1>t, IndexFacts DEF Publish
    <3>2. etag[i] \in Lists => etag[i].version \in Nat
      BY ContentFacts, BoundAssumption
    <3> QED
      BY <1>1, <2>1, <3>1, <3>2, ServerGrows DEF Stale
  <2>2. UNCHANGED <<cache, etag, torn, conf, pc, idx, body, sent, due, result>>
    BY <1>1 DEF Publish
  <2>3. ASSUME NEW i \in DOMAIN conf' PROVE Paired(i)'
    BY <1>i, <2>1, <2>2 DEF Paired
  <2>4. ASSUME NEW p \in Procs PROVE Fetching(p)' /\ Fresh(p)'
    <3>1. pc[p] \notin {"idle", "list"} => idx[p] \in DOMAIN conf
      BY AtConfigured
    <3> QED
      BY <1>h, <2>1, <2>2, <3>1 DEF Fetching, Fresh, IsFresh
  <2> QED
    BY <2>3, <2>4 DEF Goal
<1>2. CASE Reconfigure
  <2>1. /\ \A p \in Procs : pc[p] = "idle"
        /\ UNCHANGED <<cache, etag, torn, server, pc, result, idx, body, due>>
        /\ conf' \in Confs /\ OwnFiles
    BY <1>0, <1>2 DEF Reconfigure, OwnInv
  <2>2. ASSUME NEW i \in DOMAIN conf' PROVE Paired(i)'
    <3>1. CASE etag[i] \in Lists /\ etag[i].url = conf'[i]
      <4>1. i \in DOMAIN conf /\ conf[i] = conf'[i]
        BY <2>1, <3>1, IndexFacts DEF OwnFiles
      <4>2. cache[i] = etag[i] \/ Stale(i) \/ i \in torn
        BY <1>i, <2>1, <4>1 DEF Paired
      <4> QED
        BY <2>1, <4>1, <4>2 DEF Paired, Stale
    <3>2. CASE ~(etag[i] \in Lists /\ etag[i].url = conf'[i])
      BY <2>1, <3>2 DEF Paired, Stale
    <3> QED
      BY <3>1, <3>2
  <2>3. ASSUME NEW p \in Procs PROVE Fetching(p)' /\ Fresh(p)'
    BY <1>h, <2>1 DEF Fetching, Fresh, IsFresh
  <2> QED
    BY <2>2, <2>3 DEF Goal
<1>3. ASSUME NEW p \in Procs, SyncBegin(p) PROVE Goal
  <2>1. pc[p] = "idle" /\ pc'[p] = "list" /\ UNCHANGED <<cache, etag, torn, conf, server, result>>
    BY <1>3, <1>t DEF SyncBegin, Goto
  <2>2. Fetching(p)' /\ Fresh(p)'
    BY <1>h, <2>1 DEF Fetching, Fresh, IsFresh
  <2> QED
    BY <1>k, <1>q, <2>1, <2>2
<1>4. ASSUME NEW p \in Procs, SyncEnds(p) PROVE Goal
  <2>1. pc[p] = "list" /\ Leave(p) /\ UNCHANGED <<cache, etag, torn, conf, server>>
    BY <1>4 DEF SyncEnds
  <2>2. pc'[p] = "idle" /\ result'[p].lines = NoFile
    BY <2>1, Left
  <2>3. Fetching(p)' /\ Fresh(p)'
    BY <2>2 DEF Fetching, Fresh, IsFresh
  <2> QED
    BY <1>k, <1>q, <2>1, <2>3
<1>5. ASSUME NEW p \in Procs, ReadEtag(p) PROVE Goal
  <2>1. /\ pc[p] = "list" /\ pc'[p] = "request" /\ sent'[p] = etag[idx[p]]
        /\ UNCHANGED <<cache, etag, torn, conf, server, idx>>
    BY <1>5, <1>t DEF ReadEtag, Goto
  <2>2. Fetching(p)' /\ Fresh(p)'
    BY <2>1 DEF Fetching, Fresh, IsFresh
  <2> QED
    BY <1>k, <1>q, <2>1, <2>2
<1>6. ASSUME NEW p \in Procs, Answer(p) PROVE Goal
  <2>1. /\ pc[p] = "request" /\ UNCHANGED <<cache, etag, torn, conf, server, idx>>
        /\ due'[p] = Current(Url(p))
        /\ pc'[p] = IF sent[p] = Current(Url(p)) THEN "unchanged" ELSE "write"
    BY <1>6, <1>t DEF Answer, Goto
  <2>2. /\ idx[p] \in DOMAIN conf /\ idx[p] \in Indexes /\ Url(p) = conf[idx[p]] /\ Url(p) \in Urls
        /\ Current(Url(p)) \in Lists /\ Current(Url(p)).url = Url(p)
        /\ Current(Url(p)).version = server[Url(p)]
    BY <2>1, AtConfigured
  <2>3. /\ sent[p] = etag[idx[p]]
        /\ cache[idx[p]] = etag[idx[p]] \/ Stale(idx[p]) \/ idx[p] \in torn
    BY <1>h, <1>i, <2>1, <2>2 DEF Fetching, Paired, Alone
  <2>4. server[Url(p)] \in Int
    BY <2>2 DEF Typed, TypeOK
  <2>5. CASE sent[p] = Current(Url(p))
    <3>1. ~Stale(idx[p])
      BY <2>2, <2>3, <2>4, <2>5 DEF Stale
    <3>2. Fetching(p)' /\ Fresh(p)'
      BY <2>1, <2>3, <2>5, <3>1 DEF Fetching, Fresh, IsFresh
    <3> QED
      BY <1>k, <1>q, <2>1, <3>2
  <2>6. CASE sent[p] # Current(Url(p))
    <3>1. Stale(idx[p])
      <4> SUFFICES ASSUME etag[idx[p]] \in Lists, etag[idx[p]].url = conf[idx[p]]
                   PROVE  etag[idx[p]].version < server[conf[idx[p]]]
        BY DEF Stale
      <4>1. etag[idx[p]].version <= server[conf[idx[p]]] /\ etag[idx[p]].version \in Nat
        BY <2>2, ContentFacts, BoundAssumption DEF FilesInv, Whole
      <4>2. etag[idx[p]].version # server[conf[idx[p]]]
        BY <2>2, <2>3, <2>6, ContentFacts
      <4> QED
        BY <2>2, <2>4, <4>1, <4>2
    <3>2. Stale(idx[p])'
      BY <1>s, <2>1, <3>1 DEF Stale
    <3>3. Fetching(p)' /\ Fresh(p)'
      BY <2>1, <2>6, <3>2 DEF Fetching, Fresh, IsFresh
    <3> QED
      BY <1>k, <1>q, <2>1, <3>3
  <2> QED
    BY <2>5, <2>6
<1>7. ASSUME NEW p \in Procs, NoAnswer(p) \/ Unchanged304(p) PROVE Goal
  <2>1. pc[p] \in {"request", "unchanged"} /\ UNCHANGED <<cache, etag, torn, conf, server, due>>
    BY <1>7 DEF NoAnswer, Unchanged304
  <2>2. cache[idx[p]] \in Contents
    BY <1>t, <2>1, AtConfigured
  <2>3. PICK b \in BOOLEAN : /\ Return(p, cache[idx[p]], b)
                             /\ b = (cache[idx[p]] # NoFile) \/ pc[p] = "unchanged"
    BY <1>7 DEF NoAnswer, Unchanged304
  <2>4. cache[idx[p]] # NoFile /\ ~b => cache[idx[p]] = due[p] \/ idx[p] \in torn'
    BY <1>h, <2>1, <2>3 DEF Fetching
  <2>5. Fetching(p)' /\ Fresh(p)'
    BY <1>r, <2>1, <2>2, <2>3, <2>4
  <2> QED
    BY <1>k, <1>q, <2>1, <2>5
<1>8. ASSUME NEW p \in Procs, BodyBreaks(p) \/ WriteFails(p) PROVE Goal
  <2>1. /\ pc[p] \in {"write", "writing"} /\ UNCHANGED <<cache, etag, torn, conf, server, due>>
        /\ Return(p, NoFile, FALSE)
    BY <1>8 DEF BodyBreaks, WriteFails
  <2>2. Fetching(p)' /\ Fresh(p)'
    BY <1>r, <2>1, ContentFacts
  <2> QED
    BY <1>k, <1>q, <2>1, <2>2
<1>9. ASSUME NEW p \in Procs, WriteBegin(p) \/ WriteEnd(p) PROVE Goal
  <2>1. fd[p] = "tmp" \/ pc[p] = "write"
    BY <1>9 DEF WriteBegin, WriteEnd, FilesInv, InHand
  <2>2. /\ pc[p] \in {"write", "writing"} /\ pc'[p] \in {"writing", "etag"}
        /\ UNCHANGED <<etag, torn, conf, server, idx>>
    BY <1>9, <1>t DEF WriteBegin, WriteEnd, Goto
  <2>3. UNCHANGED cache
    BY <1>9, <2>1 DEF WriteBegin, WriteEnd
  <2>4. Stale(idx[p]) /\ (Stale(idx[p]) => Stale(idx[p])')
    BY <1>h, <2>2 DEF Fetching, Stale
  <2>5. Fetching(p)' /\ Fresh(p)'
    BY <2>2, <2>4 DEF Fetching, Fresh, IsFresh
  <2> QED
    BY <1>k, <1>q, <2>2, <2>3, <2>5
<1>10. ASSUME NEW p \in Procs, WriteEtag(p) PROVE Goal
  <2>1. /\ pc[p] = "etag" /\ pc'[p] = "rename" /\ UNCHANGED <<cache, torn, conf, server, idx, body>>
        /\ \E value \in {etag[idx[p]], NoFile, body[p]} : etag' = [etag EXCEPT ![idx[p]] = value]
    BY <1>10, <1>t DEF WriteEtag, Goto, Put
  <2>2. idx[p] \in DOMAIN conf /\ idx[p] \in Indexes /\ Stale(idx[p])
    BY <1>h, <2>1, AtConfigured DEF Fetching
  <2>3. etag'[idx[p]] = body[p] \/ Stale(idx[p])'
    BY <1>t, <2>1, <2>2, ContentFacts DEF Stale
  <2>4. ASSUME NEW i \in DOMAIN conf' PROVE Paired(i)'
    <3>1. CASE i = idx[p]
      BY <2>1, <2>3, <3>1 DEF Paired
    <3>2. CASE i # idx[p]
      <4>1. etag'[i] = etag[i] /\ i \in DOMAIN conf
        BY <1>t, <1>d, <2>1, <3>2
      <4>2. cache[i] = etag[i] \/ Stale(i) \/ i \in torn
        BY <1>i, <2>1, <4>1 DEF Paired, Alone
      <4> QED
        BY <2>1, <4>1, <4>2 DEF Paired, Stale
    <3> QED
      BY <3>1, <3>2
  <2>5. Fetching(p)' /\ Fresh(p)'
    BY <2>1, <2>3 DEF Fetching, Fresh, IsFresh
  <2> QED
    BY <1>q, <2>4, <2>5
<1>11. ASSUME NEW p \in Procs, Rename(p) PROVE Goal
  <2>1. pc[p] = "rename" /\ UNCHANGED <<etag, conf, server, due>>
    BY <1>11 DEF Rename
  <2>2. /\ idx[p] \in DOMAIN conf /\ idx[p] \in Indexes
        /\ body[p] \in Lists /\ tmp[idx[p]] = body[p] /\ body[p] = due[p]
    BY <2>1, AtConfigured DEF FilesInv, InHand, HasBody
  <2>3. tmp[idx[p]] # NoFile
    BY <2>2, ContentFacts
  <2>4. cache' = [cache EXCEPT ![idx[p]] = body[p]] /\ Return(p, body[p], FALSE)
    BY <1>11, <2>2, <2>3 DEF Rename, Put
  <2>8. \A i : i # idx[p] /\ i \in torn => i \in torn'
    BY <1>11 DEF Rename
  <2>5. ASSUME NEW i \in DOMAIN conf' PROVE Paired(i)'
    <3>1. CASE i = idx[p]
      BY <1>h, <1>s, <1>t, <2>1, <2>2, <2>4, <3>1 DEF Paired, Fetching
    <3>2. CASE i # idx[p]
      <4>1. cache'[i] = cache[i] /\ i \in DOMAIN conf
        BY <1>t, <1>d, <2>1, <2>4, <3>2
      <4>2. cache[i] = etag[i] \/ Stale(i) \/ i \in torn
        BY <1>i, <3>2, <4>1 DEF Paired, Alone
      <4> QED
        BY <1>s, <2>1, <2>8, <3>2, <4>1, <4>2 DEF Paired
    <3> QED
      BY <3>1, <3>2
  <2>6. body[p] \in Contents
    BY <2>2, ContentFacts
  <2>7. Fetching(p)' /\ Fresh(p)'
    BY <1>r, <2>1, <2>2, <2>4, <2>6
  <2> QED
    BY <1>q, <2>5, <2>7
\* Whoever does not get from the ETag to the list leaves the index torn.
<1>e. ASSUME NEW p \in Procs, UNCHANGED <<cache, etag, conf, server>>, torn' = Torn(p)
      PROVE  \A i \in DOMAIN conf' : Paired(i)'
  <2>1. torn \subseteq torn'
    BY <1>e DEF Torn
  <2>2. ASSUME NEW i \in DOMAIN conf, pc[p] = "rename", i = idx[p] PROVE Stale(i) \/ i \in torn'
    BY <1>e, <1>h, <2>2 DEF Fetching, Torn
  <2>3. \A i \in DOMAIN conf : cache[i] = etag[i] \/ Stale(i) \/ i \in torn'
    BY <1>i, <2>1, <2>2 DEF Paired, Alone
  <2> QED
    BY <1>e, <1>s, <2>3 DEF Paired
<1>14. ASSUME NEW p \in Procs, RenameFails(p) PROVE Goal
  <2>1. /\ UNCHANGED <<cache, etag, conf, server, due>> /\ torn' = Torn(p) /\ Return(p, NoFile, FALSE)
    BY <1>14 DEF RenameFails
  <2>2. Fetching(p)' /\ Fresh(p)'
    BY <1>r, <2>1, ContentFacts
  <2> QED
    BY <1>e, <1>q, <2>1, <2>2
<1>12. ASSUME NEW p \in Procs, Crash(p) PROVE Goal
  <2>1. UNCHANGED <<cache, etag, conf, server>> /\ torn' = Torn(p) /\ Leave(p)
    BY <1>12 DEF Crash
  <2>2. pc'[p] = "idle" /\ result'[p].lines = NoFile
    BY <2>1, Left
  <2>3. Fetching(p)' /\ Fresh(p)'
    BY <2>2 DEF Fetching, Fresh, IsFresh
  <2> QED
    BY <1>e, <1>q, <2>1, <2>3
<1>13. CASE UNCHANGED vars
  <2>1. UNCHANGED <<cache, etag, torn, conf, server, pc, idx, body, sent, due, result>>
    BY <1>13 DEF vars
  <2> QED
    BY <1>i, <1>h, <2>1 DEF Goal, Paired, Fetching, Fresh, IsFresh, Stale
<1> QED
  BY <1>1, <1>2, <1>3, <1>4, <1>5, <1>6, <1>7, <1>8, <1>9, <1>10, <1>11, <1>12, <1>13, <1>14
     DEF Next, Sync

\* A process that works alone takes no old list for the current one and none for
\* another of up to two configurations, whatever fails and whenever it is killed,
\* except at an index whose ETag is that of a list that was not renamed.
THEOREM CacheIsTheList == ASSUME Alone PROVE Spec => []FreshUnlessTorn
<1>1. Init => FreshInv
  <2> SUFFICES ASSUME Init PROVE FreshInv
    OBVIOUS
  <2>1. \A p \in Procs : pc[p] = "idle" /\ result[p] = Unread
    BY DEF Init
  <2>2. conf \in Confs /\ \A i \in Indexes : cache[i] = etag[i]
    BY DEF Init
  <2> QED
    BY <2>1, <2>2, IndexFacts DEF FreshInv, Paired, Fetching, Fresh, IsFresh, Unread
<1>2. Typed /\ FilesInv /\ OwnInv /\ FreshInv /\ [Next]_vars => FreshInv'
  BY FreshInductive
<1>3. FreshInv => FreshUnlessTorn
  BY DEF FreshInv, Fresh, FreshUnlessTorn
<1> QED
  BY <1>1, <1>2, <1>3, OwnAlways, PTL DEF Spec
=============================================================================
