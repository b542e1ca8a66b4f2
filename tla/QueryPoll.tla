------------------------------ MODULE QueryPoll ------------------------------
(***************************************************************************)
(* The poll of AdGuard Home's query log and the count of queries: pages are  *)
(* fetched backwards while the log grows, merged into the events of the last *)
(* minutes exactly once, pruned, and counted: queries of one domain, and      *)
(* subdomains of one base.  A client found in several ways is banned for the *)
(* first one.                                                                *)
(***************************************************************************)
EXTENDS Integers, FiniteSets, Sequences, FiniteSetsExt

CONSTANTS
    Keys,           \* pairs of client and domain
    Client, Base,   \* the client of a key; the base of its domain, NoBase for none
    Watchlists,     \* DNS_FLOOD_WATCHLIST: keys and bases it matches
    MaxRequests,    \* RATE_LIMIT_MAX_REQUESTS
    Window,         \* RATE_LIMIT_WINDOW, in ticks
    MaxUnique,      \* SUBDOMAIN_FLOOD_MAX_UNIQUE
    SubWindow,      \* SUBDOMAIN_FLOOD_WINDOW
    Grace,          \* the 30 seconds of analysisCutoff, in ticks
    PageSize,       \* API_QUERY_LIMIT
    MaxPages,       \* queryLogMaxPages
    Faults,         \* whether requests may fail
    MaxClock        \* bound: ticks, each with at most one query

ASSUME ParameterAssumption ==
    /\ {MaxRequests, Window, MaxUnique, SubWindow, MaxClock} \subseteq Nat
    /\ DOMAIN Client = Keys /\ DOMAIN Base = Keys
    /\ {PageSize, MaxPages, Grace} \subseteq Nat \ {0}
    /\ Faults \in BOOLEAN

NoBase == "none"
Quiet == "quiet"
ASSUME QuietAssumption == Quiet \notin Keys

VARIABLES
    log,            \* AdGuard's log: log[t] is the key queried at time t, or Quiet
    pc,             \* pollOnce
    pages,          \* pages asked for
    olderThan,      \* the cursor
    all,            \* times of the entries fetched
    cutoff, seenUntil,      \* arguments of fetchQueryLogSince
    seen, lastNewest,       \* Daemon.seen, Daemon.lastNewest (0 at first)
    events,         \* Daemon.events: time -> how often the entry is in it
    watched,        \* the watchlist of this configuration
    verdict,        \* bans of the last analysis: client, and key or base it is for
    begun,          \* history: when the poll began
    complete        \* history: no page failed and no limit was reached so far

fetching == <<pages, olderThan, all, cutoff, seenUntil, begun, complete>>
memory == <<seen, lastNewest, events>>
vars == <<log, pc, fetching, memory, watched, verdict>>

Times == 1..MaxClock
clock == Len(log)
Logged == {t \in 1..clock : log[t] # Quiet}
NoCursor == MaxClock + 1

-----------------------------------------------------------------------------
(* AdGuard Home.                                                           *)

\* A tick passes, with a query or without one.
Tick ==
    /\ clock < MaxClock
    /\ \E k \in Keys \cup {Quiet} : log' = Append(log, k)
    /\ UNCHANGED <<pc, fetching, memory, watched, verdict>>

\* The newest entries older than the cursor.
Page(cursor) ==
    LET older == {t \in Logged : t < cursor}
    IN  {t \in older : Cardinality({u \in older : u > t}) < PageSize}

-----------------------------------------------------------------------------
(* pollOnce.                                                               *)

\* Faulty variant: only the window of the rate limit is kept.
AnalysisCutoffNarrow == clock - Window

AnalysisCutoff == clock - (Max({Window, SubWindow}) + Grace)

PollStart ==
    /\ pc = "idle"
    /\ pc' = "fetch"
    /\ seenUntil' = lastNewest
    /\ cutoff' = AnalysisCutoff
    /\ pages' = 0
    /\ olderThan' = NoCursor
    /\ all' = {}
    /\ begun' = clock
    /\ UNCHANGED <<log, complete, memory, watched, verdict>>

\* Whether an older page may hold something new.
MoreAfter(data) ==
    /\ Cardinality(data) = PageSize
    /\ Min(data) >= cutoff
    /\ seenUntil # 0 => Min(data) > seenUntil

\* Faulty variant: only the newest page is read.
FetchPageNewest ==
    /\ pc = "fetch"
    /\ all' = Page(NoCursor)
    /\ pc' = "merge"
    /\ pages' = 1
    /\ UNCHANGED <<log, olderThan, cutoff, seenUntil, begun, complete, memory, watched, verdict>>

FetchPage ==
    /\ pc = "fetch"
    /\ pages < MaxPages
    /\ LET data == Page(olderThan)
       IN  /\ all' = all \cup data
           /\ IF MoreAfter(data)
              THEN olderThan' = Min(data) /\ UNCHANGED pc
              ELSE pc' = "merge" /\ UNCHANGED olderThan
    /\ pages' = pages + 1
    /\ UNCHANGED <<log, cutoff, seenUntil, begun, complete, memory, watched, verdict>>

PageLimit ==
    /\ pc = "fetch"
    /\ pages = MaxPages
    /\ pc' = "merge"
    /\ complete' = FALSE
    /\ UNCHANGED <<log, pages, olderThan, all, cutoff, seenUntil, begun, memory, watched, verdict>>

\* Without its first page a poll fails; a later one is given up on.
PageFails ==
    /\ Faults
    /\ pc = "fetch"
    /\ pages < MaxPages
    /\ pc' = IF pages = 0 THEN "idle" ELSE "merge"
    /\ complete' = (complete /\ pages = 0)
    /\ UNCHANGED <<log, pages, olderThan, all, cutoff, seenUntil, begun, memory, watched, verdict>>

\* Faulty variant: what was seen is forgotten at the end of the window.
MergeForgets ==
    /\ pc = "merge"
    /\ LET new == all \ seen
       IN  /\ seen' = {t \in seen \cup all : t > clock - Window}
           /\ events' = [t \in Times |-> IF t <= AnalysisCutoff THEN 0
                                         ELSE events[t] + (IF t \in new THEN 1 ELSE 0)]
           /\ lastNewest' = Max({lastNewest} \cup new)
    /\ pc' = "analyze"
    /\ UNCHANGED <<log, fetching, watched, verdict>>

\* Under d.mu: what is new is counted in, then both maps are pruned.
Merge ==
    /\ pc = "merge"
    /\ LET new == all \ seen
       IN  /\ seen' = {t \in seen \cup all : t >= AnalysisCutoff}
           /\ events' = [t \in Times |-> IF t <= AnalysisCutoff THEN 0
                                         ELSE events[t] + (IF t \in new THEN 1 ELSE 0)]
           /\ lastNewest' = Max({lastNewest} \cup new)
    /\ pc' = "analyze"
    /\ UNCHANGED <<log, fetching, watched, verdict>>

RateCut == clock - Window
SubCut == clock - SubWindow
Bases == {Base[k] : k \in Keys} \ {NoBase}

\* How many events of k there are; one that is in twice counts twice.
Count(k) ==
    Cardinality(UNION {{t} \X (1..events[t]) : t \in {t \in Logged : t >= RateCut /\ log[t] = k}})

\* Faulty variant: queries are counted, not subdomains.
SubdomainsAll(c, b) ==
    {t \in Logged : t >= SubCut /\ events[t] > 0 /\ Client[log[t]] = c /\ Base[log[t]] = b}

\* The subdomains of b the client asked for.
Subdomains(c, b) ==
    {log[t] : t \in {t \in Logged : t >= SubCut /\ events[t] > 0
                                  /\ Client[log[t]] = c /\ Base[log[t]] = b}}

Clients == {Client[k] : k \in Keys}
RateFound == {[client |-> Client[k], reason |-> k] : k \in {k \in Keys : Count(k) > MaxRequests}}
SubFound ==
    {v \in [client : Clients, reason : Bases] : Cardinality(Subdomains(v.client, v.reason)) > MaxUnique}
Permanent(v) == v.reason \in watched

\* analyze, then analyzeSubdomains: Ban is called for each, in the order of a map,
\* and does nothing for a client banned before.
Analyze ==
    /\ pc = "analyze"
    /\ \E first \in [{v.client : v \in RateFound \cup SubFound} -> RateFound \cup SubFound] :
          /\ \A c \in DOMAIN first :
                /\ first[c].client = c
                /\ first[c] \in RateFound \/ \A v \in RateFound : v.client # c
          /\ verdict' = {first[c] : c \in DOMAIN first}
    /\ pc' = "idle"
    /\ UNCHANGED <<log, fetching, memory, watched>>

\* The daemon is restarted; what it knew is gone.
Restart ==
    /\ pc' = "idle"
    /\ pages' = 0
    /\ olderThan' = NoCursor
    /\ all' = {}
    /\ cutoff' = 0
    /\ seenUntil' = 0
    /\ begun' = 0
    /\ complete' = TRUE
    /\ seen' = {}
    /\ lastNewest' = 0
    /\ events' = [t \in Times |-> 0]
    /\ verdict' = {}
    /\ UNCHANGED <<log, watched>>

-----------------------------------------------------------------------------
Init ==
    /\ log = <<>>
    /\ pc = "idle"
    /\ pages = 0
    /\ olderThan = NoCursor
    /\ all = {}
    /\ cutoff = 0
    /\ seenUntil = 0
    /\ begun = 0
    /\ complete = TRUE
    /\ seen = {}
    /\ lastNewest = 0
    /\ events = [t \in Times |-> 0]
    /\ watched \in Watchlists
    /\ verdict = {}

Next ==
    \/ Tick
    \/ PollStart \/ FetchPage \/ PageLimit \/ PageFails \/ Merge \/ Analyze
    \/ Restart

Spec == Init /\ [][Next]_vars

-----------------------------------------------------------------------------
(* Properties.                                                             *)

\* Every variable has its type.
TypeOK ==
    /\ log \in Seq(Keys \cup {Quiet}) /\ clock <= MaxClock
    /\ pc \in {"idle", "fetch", "merge", "analyze"}
    /\ pages \in 0..MaxPages
    /\ olderThan \in Times \cup {NoCursor}
    /\ all \in SUBSET Times
    /\ cutoff \in Int
    /\ {seenUntil, begun, lastNewest} \subseteq 0..MaxClock
    /\ seen \in SUBSET Times
    /\ events \in [Times -> Nat]
    /\ watched \in Watchlists
    /\ verdict \subseteq [client : Clients, reason : Keys \cup Bases]
    /\ complete \in BOOLEAN

\* A query counts once, however often overlapping pages and polls return it.
CountedOnce == \A t \in Times : events[t] <= 1

\* The queries of k the log holds between two times.
Queried(k, from, to) == Cardinality({t \in Logged : from <= t /\ t <= to /\ log[t] = k})

\* A step of Analyze; Restart leaves the analysis too, with an empty verdict.
Analysed == pc = "analyze" /\ pc' = "idle"

\* The subdomains of b the log shows of a client between two times.
Asked(c, b, from, to) ==
    {k \in Keys : Client[k] = c /\ Base[k] = b /\ Queried(k, from, to) > 0}

\* What the log itself shows from the start of the windows up to a time.
Floods(to) ==
    {[client |-> Client[k], reason |-> k] : k \in {k \in Keys : Queried(k, RateCut, to) > MaxRequests}}
    \cup {v \in [client : Clients, reason : Bases] :
            Cardinality(Asked(v.client, v.reason, SubCut, to)) > MaxUnique}

\* A client is banned only for more queries or more subdomains than allowed in the
\* window, as the log itself shows.
NoFalseAlarm == [][Analysed => verdict' \subseteq Floods(clock)]_vars

\* A client above a limit when the poll began is banned by this poll, although
\* the log grows under the cursor and earlier polls fetched a part of it, unless
\* a page failed or the page limit was reached (as the warnings then say).
FloodIsFound ==
    [][Analysed /\ begun' = begun /\ complete =>
         {v.client : v \in Floods(begun)} \subseteq {v.client : v \in verdict'}]_vars

\* A client found for a domain of the watchlist is banned permanently
\* (docs/architektur.md, DNS-Flood-Watchlist: "wird sofort permanent gesperrt").
WatchedIsPermanent ==
    [][Analysed =>
         \A v \in RateFound \cup SubFound :
            Permanent(v) => \E w \in verdict' : w.client = v.client /\ Permanent(w)]_vars

\* Paging back stops at the newest entry of the last poll because everything
\* older has been evaluated already (docs/architektur.md, API query).
NoGapBehindNewest ==
    \A t \in Logged : t <= lastNewest /\ t > AnalysisCutoff => events[t] > 0

\* It has, as long as every poll came to the end of its pages.
NoGapWhenComplete == complete => NoGapBehindNewest
=============================================================================
