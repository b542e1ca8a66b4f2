------------------------------ MODULE ListCache ------------------------------
(***************************************************************************)
(* The sync of the external lists: one after the other is downloaded with a  *)
(* conditional request, into a cache, an ETag and a temporary file named by   *)
(* its index, which all processes share; then the whitelist is replaced, or   *)
(* bans are added and lifted.  Whatever its version, a list holds one         *)
(* address, or the name of a host, that the module knows by the list's URL.   *)
(***************************************************************************)
EXTENDS Integers, Sequences

CONSTANTS
    Procs,          \* processes that sync: the daemon, sync commands
    Urls,
    Hosts,          \* lists that hold a name instead of an address
    Confs,          \* configurations: sequences of URLs
    MaxVersion,     \* bound: versions of a list, the last one ends the publishing
    MaxChanges,     \* bound: changes of the configuration
    MaxBreaks       \* bound: processes killed in a sync, and renames that fail

ASSUME BoundAssumption ==
    /\ MaxVersion \in Nat \ {0}
    /\ {MaxChanges, MaxBreaks} \subseteq Nat
    /\ Hosts \subseteq Urls
    /\ Confs \subseteq Seq(Urls) /\ \E c \in Confs : \A d \in Confs : Len(d) <= Len(c)

VARIABLES
    kind,           \* "whitelist", or "blocklist" with EXTERNAL_BLOCKLIST_AUTO_UNBAN
    conf,           \* the URLs configured
    server,         \* URL -> version the server publishes; its ETag names it
    cache, etag, tmp,       \* index -> the three files: a version of a list, NoFile or Partial
    fd,             \* process -> file it has open for writing
    torn,           \* history: indexes with the ETag of a list that was not renamed
    pc, idx,        \* process -> next step, index of the list it is at
    desired, failed,        \* process -> results of collectListEntries
    sent,           \* process -> If-None-Match of its request
    body,           \* process -> version downloaded
    due,            \* history: version current when the server answered
    result,         \* history: last return value of fetchCachedLines
    held,           \* entries on the whitelist, or banned by the blocklist
    changes, breaks

files == <<cache, etag, tmp, fd, torn>>
request == <<sent, body, due>>
collected == <<idx, desired, failed, result>>
world == <<kind, conf, server, held, changes, breaks>>
vars == <<world, files, pc, collected, request>>

List(u, v) == [url |-> u, version |-> v]
NoFile == List("none", 0)
Partial == List("none", -1)
Lists == {List(u, v) : u \in Urls, v \in 1..MaxVersion}
Contents == Lists \cup {NoFile, Partial}
Indexes == DOMAIN (CHOOSE c \in Confs : \A d \in Confs : Len(d) <= Len(c))
Unread == [lines |-> NoFile, fromCache |-> FALSE]

Url(p) == conf[idx[p]]
Current(u) == List(u, server[u])
Goto(p, label) == pc' = [pc EXCEPT ![p] = label]
Put(file, p, content) == [file EXCEPT ![idx[p]] = content]

-----------------------------------------------------------------------------
(* collectListEntries.                                                     *)

Publish ==
    /\ \A u \in Urls : server[u] < MaxVersion
    /\ \E u \in Urls : server' = [server EXCEPT ![u] = @ + 1]
    /\ UNCHANGED <<kind, conf, held, changes, breaks, files, pc, collected, request>>

SyncBegin(p) ==
    /\ pc[p] = "idle"
    /\ idx' = [idx EXCEPT ![p] = 1]
    /\ desired' = [desired EXCEPT ![p] = {}]
    /\ failed' = [failed EXCEPT ![p] = FALSE]
    /\ Goto(p, "list")
    /\ UNCHANGED <<world, files, result, request>>

\* What lines may resolve to: an address is itself, a name may not resolve.
Resolved(lines) ==
    IF lines \notin Lists THEN {{}}
    ELSE {{lines.url}} \cup (IF lines.url \in Hosts THEN {{}} ELSE {})

\* fetchCachedLines returns lines, or an error if there are none.
Return(p, lines, fromCache) ==
    /\ result' = [result EXCEPT ![p] = [lines |-> lines, fromCache |-> fromCache]]
    /\ \E entries \in Resolved(lines) : desired' = [desired EXCEPT ![p] = @ \cup entries]
    /\ failed' = [failed EXCEPT ![p] = @ \/ lines = NoFile]
    /\ idx' = [idx EXCEPT ![p] = @ + 1]
    /\ sent' = [sent EXCEPT ![p] = NoFile]
    /\ body' = [body EXCEPT ![p] = NoFile]
    /\ Goto(p, "list")

\* A sync is over, done or killed.
Leave(p) ==
    /\ idx' = [idx EXCEPT ![p] = 0]
    /\ desired' = [desired EXCEPT ![p] = {}]
    /\ failed' = [failed EXCEPT ![p] = FALSE]
    /\ result' = [result EXCEPT ![p] = Unread]
    /\ sent' = [sent EXCEPT ![p] = NoFile]
    /\ body' = [body EXCEPT ![p] = NoFile]
    /\ due' = [due EXCEPT ![p] = NoFile]
    /\ Goto(p, "idle")

\* Faulty variant: a list that failed does not keep bans from being lifted.
BlocklistAfterAny(p) == desired[p]

\* SyncBlocklist adds what is new, and lifts the rest only if no list failed.
BlocklistAfter(p) == IF failed[p] THEN held \cup desired[p] ELSE desired[p]

\* SyncWhitelist replaces the list, or leaves it if a list failed.
WhitelistAfter(p) == IF failed[p] THEN held ELSE desired[p]

SyncEnds(p) ==
    /\ pc[p] = "list"
    /\ idx[p] > Len(conf)
    /\ held' = IF kind = "whitelist" THEN WhitelistAfter(p) ELSE BlocklistAfter(p)
    /\ Leave(p)
    /\ UNCHANGED <<kind, conf, server, changes, breaks, files>>

-----------------------------------------------------------------------------
(* fetchCachedLines.                                                       *)

ReadEtag(p) ==
    /\ pc[p] = "list"
    /\ idx[p] <= Len(conf)
    /\ sent' = [sent EXCEPT ![p] = etag[idx[p]]]
    /\ result' = [result EXCEPT ![p] = Unread]
    /\ due' = [due EXCEPT ![p] = NoFile]
    /\ Goto(p, "request")
    /\ UNCHANGED <<world, files, idx, desired, failed, body>>

\* 304 if the client has the version already, else 200 and the list.
Answer(p) ==
    /\ pc[p] = "request"
    /\ due' = [due EXCEPT ![p] = Current(Url(p))]
    /\ body' = [body EXCEPT ![p] = Current(Url(p))]
    /\ sent' = [sent EXCEPT ![p] = NoFile]
    /\ Goto(p, IF sent[p] = Current(Url(p)) THEN "unchanged" ELSE "write")
    /\ UNCHANGED <<world, files, collected>>

\* No answer, an error status or too long a list: the cache is used.
NoAnswer(p) ==
    /\ pc[p] = "request"
    /\ Return(p, cache[idx[p]], cache[idx[p]] # NoFile)
    /\ UNCHANGED <<world, files, due>>

\* 304: the cache is the list. Without a cache file the sync of the list fails.
Unchanged304(p) ==
    /\ pc[p] = "unchanged"
    /\ Return(p, cache[idx[p]], FALSE)
    /\ UNCHANGED <<world, files, due>>

\* The connection breaks while the list is read.
BodyBreaks(p) ==
    /\ pc[p] = "write"
    /\ Return(p, NoFile, FALSE)
    /\ UNCHANGED <<world, files, due>>

\* os.WriteFile: the file is truncated first.
WriteBegin(p) ==
    /\ pc[p] = "write"
    /\ tmp' = Put(tmp, p, Partial)
    /\ fd' = [fd EXCEPT ![p] = "tmp"]
    /\ Goto(p, "writing")
    /\ UNCHANGED <<world, cache, etag, torn, collected, request>>

\* What the file holds when p is done: two writers of one file may mix.
Written(p) ==
    {body[p]} \cup (IF \E q \in Procs \ {p} : pc[q] = "writing" /\ fd[q] = fd[p] /\ idx[q] = idx[p]
                    THEN {Partial} ELSE {})

WriteEnd(p) ==
    /\ pc[p] = "writing"
    /\ fd' = [fd EXCEPT ![p] = "none"]
    /\ \E content \in Written(p) :
          /\ tmp' = IF fd[p] = "tmp" THEN Put(tmp, p, content) ELSE tmp
          /\ cache' = IF fd[p] = "cache" THEN Put(cache, p, content) ELSE cache
    /\ Goto(p, "etag")
    /\ UNCHANGED <<world, etag, torn, collected, request>>

\* Faulty variant: the ETag is stored although the list is not.
WriteFailsEtag(p) ==
    /\ pc[p] = "writing"
    /\ fd' = [fd EXCEPT ![p] = "none"]
    /\ etag' = Put(etag, p, body[p])
    /\ Return(p, NoFile, FALSE)
    /\ UNCHANGED <<world, cache, tmp, torn, due>>

\* No space left: the sync of this list fails, the fragment stays.
WriteFails(p) ==
    /\ pc[p] = "writing"
    /\ fd' = [fd EXCEPT ![p] = "none"]
    /\ Return(p, NoFile, FALSE)
    /\ UNCHANGED <<world, cache, etag, tmp, torn, due>>

\* A failure to write the ETag is ignored, the file may be empty then; a server may
\* send none.
WriteEtag(p) ==
    /\ pc[p] = "etag"
    /\ \E value \in {etag[idx[p]], NoFile, body[p]} : etag' = Put(etag, p, value)
    /\ Goto(p, "rename")
    /\ UNCHANGED <<world, cache, tmp, fd, torn, collected, request>>

\* The open files move along with the name; a replaced cache is gone.
Moved(f) == CASE f = "tmp" -> "cache" [] f = "cache" -> "none" [] OTHER -> f

Rename(p) ==
    /\ pc[p] = "rename"
    /\ tmp[idx[p]] # NoFile
    /\ cache' = Put(cache, p, tmp[idx[p]])
    /\ tmp' = Put(tmp, p, NoFile)
    /\ fd' = [q \in Procs |-> IF idx[q] = idx[p] THEN Moved(fd[q]) ELSE fd[q]]
    /\ torn' = torn \ {idx[p]}
    /\ Return(p, body[p], FALSE)
    /\ UNCHANGED <<world, etag, due>>

Breaks == breaks < MaxBreaks /\ breaks' = breaks + 1

\* The ETag p has stored is left without its list.
Torn(p) ==
    IF pc[p] = "rename" /\ etag[idx[p]] = body[p] THEN torn \cup {idx[p]} ELSE torn

\* os.Rename fails, or another process has renamed the file: the sync of this list
\* fails, after its ETag was stored.
RenameFails(p) ==
    /\ pc[p] = "rename"
    /\ Breaks \/ (tmp[idx[p]] = NoFile /\ UNCHANGED breaks)
    /\ Return(p, NoFile, FALSE)
    /\ torn' = Torn(p)
    /\ UNCHANGED <<kind, conf, server, held, changes, cache, etag, tmp, fd, due>>

-----------------------------------------------------------------------------
(* The world around it.                                                    *)

Crash(p) ==
    /\ pc[p] # "idle"
    /\ Breaks
    /\ Leave(p)
    /\ fd' = [fd EXCEPT ![p] = "none"]
    /\ torn' = Torn(p)
    /\ UNCHANGED <<kind, conf, server, held, changes, cache, etag, tmp>>

\* Another configuration, and a restart; the files stay.
Reconfigure ==
    /\ changes < MaxChanges
    /\ \A p \in Procs : pc[p] = "idle"
    /\ conf' \in Confs \ {conf}
    /\ changes' = changes + 1
    /\ UNCHANGED <<kind, server, held, breaks, files, pc, collected, request>>

Init ==
    /\ kind \in {"whitelist", "blocklist"}
    /\ conf \in Confs
    /\ server = [u \in Urls |-> 1]
    /\ cache = [i \in Indexes |-> NoFile] /\ etag = cache /\ tmp = cache
    /\ fd = [p \in Procs |-> "none"] /\ torn = {}
    /\ pc = [p \in Procs |-> "idle"]
    /\ idx = [p \in Procs |-> 0]
    /\ desired = [p \in Procs |-> {}]
    /\ failed = [p \in Procs |-> FALSE]
    /\ sent = [p \in Procs |-> NoFile] /\ body = sent /\ due = sent
    /\ result = [p \in Procs |-> Unread]
    /\ held = {}
    /\ changes = 0 /\ breaks = 0

Sync(p) ==
    \/ SyncBegin(p) \/ SyncEnds(p) \/ ReadEtag(p) \/ Answer(p) \/ NoAnswer(p) \/ Unchanged304(p)
    \/ BodyBreaks(p) \/ WriteBegin(p) \/ WriteEnd(p) \/ WriteFails(p) \/ WriteEtag(p)
    \/ Rename(p) \/ RenameFails(p)

Next ==
    \/ Publish \/ Reconfigure
    \/ \E p \in Procs : Sync(p) \/ Crash(p)

Spec == Init /\ [][Next]_vars

\* A sync is started at every interval and goes on; the servers answer, the lists
\* arrive and the disk has room again and again.
FairSpec ==
    /\ Spec
    /\ \A p \in Procs :
          /\ WF_vars(Sync(p))
          /\ \A i \in Indexes :
                /\ SF_vars(idx[p] = i /\ Answer(p))
                /\ SF_vars(idx[p] = i /\ WriteBegin(p))
                /\ SF_vars(idx[p] = i /\ WriteEnd(p))

-----------------------------------------------------------------------------
(* Properties.                                                             *)

\* Every variable has its type.
TypeOK ==
    /\ kind \in {"whitelist", "blocklist"} /\ conf \in Confs
    /\ server \in [Urls -> 1..MaxVersion]
    /\ {cache, etag, tmp} \subseteq [Indexes -> Contents]
    /\ fd \in [Procs -> {"tmp", "cache", "none"}] /\ torn \subseteq Indexes
    /\ pc \in [Procs -> {"idle", "list", "request", "unchanged", "write", "writing", "etag", "rename"}]
    /\ idx \in [Procs -> Nat]
    /\ desired \in [Procs -> SUBSET Urls] /\ held \subseteq Urls
    /\ failed \in [Procs -> BOOLEAN]
    /\ {sent, body, due} \subseteq [Procs -> Contents]
    /\ result \in [Procs -> [lines : Contents, fromCache : BOOLEAN]]
    /\ changes \in 0..MaxChanges /\ breaks \in 0..MaxBreaks

\* Lines returned without fromCache are the list the server answered with or
\* confirmed; fromCache says that the cache stood in for a failed download
\* (lists.go, comment of fetchCachedLines).
IsFresh(p) ==
    pc[p] = "list" /\ result[p].lines # NoFile /\ ~result[p].fromCache => result[p].lines = due[p]
FreshIsCurrent == \A p \in Procs : IsFresh(p)

\* Whatever fails and wherever it is killed, a sync that works alone never takes an
\* old list for the current one, nor another list for its own after a change of the
\* configuration, except for an index whose ETag is that of a list that could not be
\* renamed.  A second change may give an index back to the list whose ETag is there.
FreshUnlessTorn == changes <= 1 => \A p \in Procs : idx[p] - 1 \notin torn => IsFresh(p)

\* No sync works with a truncated list (lists.go, comment on oversized lists).
NeverTruncated == \A p \in Procs : result[p].lines # Partial

Configured == {conf[i] : i \in DOMAIN conf}

\* What configured lists hold stays on the whitelist, or banned, in every sync,
\* whatever downloads and writes fail and wherever a process is killed
\* (docs/konfiguration.md, "So werden bei einem Download-Fehler keine Sperren
\* versehentlich aufgehoben").
KeptIfListed == [][held \cap Configured \subseteq held']_vars

\* So it is for addresses, until another configuration gives indexes to other lists.
KeptWhileListed == [][changes = 0 => (held \cap Configured) \ Hosts \subseteq held']_vars

\* Once the lists no longer change, the caches become these lists and stay
\* them, whatever failed on the way, whoever was killed and whose files they were,
\* except those whose ETag is that of a list that could not be renamed.
CacheCatchesUp ==
    <>[](changes <= 1 => \A i \in DOMAIN conf : cache[i] = Current(conf[i]) \/ i \in torn)
=============================================================================
