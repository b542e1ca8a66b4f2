--------------------------- MODULE QueryPollProofs ---------------------------
(***************************************************************************)
(* What the poll counts is what the log holds: no query twice, none missed,  *)
(* nobody banned without a flood and every flood found.                      *)
(*                                                                          *)
(* Once: Merge adds what is not in seen, and seen keeps an entry at the      *)
(* cutoff that events drops, so a counted event is never forgotten in seen.  *)
(* None missed: down to the cursor of the paging nothing is missing, and it  *)
(* ends at the newest entry of the last poll, behind which nothing is        *)
(* missing either (PollInv).                                                 *)
(***************************************************************************)
EXTENDS QueryPoll, FiniteSetTheorems, WellFoundedInduction, TLAPS

\* The inductive invariant: the log and the events have their types, and an
\* event that is counted has been seen.
CountInv ==
    /\ log \in Seq(Keys \cup {Quiet})
    /\ events \in [Times -> Nat]
    /\ \A t \in Times : events[t] <= 1
    /\ \A t \in Times : events[t] > 0 => t \in seen

\* The maximum of two natural numbers is one of them.
LEMMA MaxOfTwo == ASSUME NEW a \in Nat, NEW b \in Nat PROVE Max({a, b}) \in Nat
<1>1. \E x \in {a, b} : \A y \in {a, b} : x >= y
  BY SMT
<1> QED
  BY <1>1 DEF Max

\* The age at which both maps are pruned is a number.
LEMMA CutoffIsInt == ASSUME CountInv PROVE AnalysisCutoff \in Int
<1>1. Max({Window, SubWindow}) \in Nat
  BY MaxOfTwo, ParameterAssumption
<1>2. clock \in Nat
  BY DEF CountInv, clock
<1> QED
  BY <1>1, <1>2, ParameterAssumption DEF AnalysisCutoff

LEMMA MergeCounts == ASSUME CountInv, Merge PROVE CountInv'
<1>1. AnalysisCutoff \in Int
  BY CutoffIsInt
<1>2. Times \subseteq Int
  BY ParameterAssumption DEF Times
<1>3. log' = log
  BY DEF Merge
<1>4. seen' = {t \in seen \cup all : t >= AnalysisCutoff}
  BY DEF Merge
<1>5. events' = [t \in Times |-> IF t <= AnalysisCutoff THEN 0
                  ELSE events[t] + (IF t \in all \ seen THEN 1 ELSE 0)]
  BY DEF Merge
<1>6. ASSUME NEW t \in Times
      PROVE  events'[t] \in Nat /\ events'[t] <= 1 /\ (events'[t] > 0 => t \in seen')
  <2>1. CASE t <= AnalysisCutoff
    BY <1>5, <2>1
  <2>2. CASE ~(t <= AnalysisCutoff)
    <3>1. events'[t] = events[t] + (IF t \in all \ seen THEN 1 ELSE 0)
      BY <1>5, <2>2
    <3>2. events[t] \in Nat /\ events[t] <= 1 /\ (events[t] > 0 => t \in seen)
      BY DEF CountInv
    <3>3. t >= AnalysisCutoff
      BY <1>1, <1>2, <2>2
    <3>4. CASE t \in seen
      BY <1>4, <3>1, <3>2, <3>3, <3>4
    <3>5. CASE t \notin seen
      BY <1>4, <3>1, <3>2, <3>3, <3>5
    <3> QED
      BY <3>4, <3>5
  <2> QED
    BY <2>1, <2>2
<1>7. events' \in [Times -> Nat]
  BY <1>5, <1>6
<1> QED
  BY <1>3, <1>6, <1>7 DEF CountInv, Times

LEMMA CountInvInductive == ASSUME CountInv, [Next]_vars PROVE CountInv'
<1>1. CASE Tick
  <2>1. PICK k \in Keys \cup {Quiet} : log' = Append(log, k)
    BY <1>1 DEF Tick
  <2>2. log' \in Seq(Keys \cup {Quiet})
    BY <2>1 DEF CountInv
  <2> QED
    BY <1>1, <2>2 DEF CountInv, Tick, memory, Times
<1>2. CASE Merge
  BY <1>2, MergeCounts
<1>3. CASE Restart
  BY <1>3 DEF CountInv, Restart, Times
<1>4. CASE PollStart \/ FetchPage \/ PageLimit \/ PageFails
  BY <1>4 DEF CountInv, PollStart, FetchPage, PageLimit, PageFails, memory, Times
<1>5. CASE Analyze
  BY <1>5 DEF CountInv, Analyze, memory, Times
<1>6. CASE UNCHANGED vars
  BY <1>6 DEF CountInv, vars, memory, Times
<1> QED
  BY <1>1, <1>2, <1>3, <1>4, <1>5, <1>6 DEF Next

\* A query counts once, however often overlapping pages and polls return it
\* (daemon.go, pollOnce and pruneLocked).
THEOREM QueriesCountOnce == Spec => []CountedOnce
<1>1. Init => CountInv
  BY DEF Init, CountInv, Times
<1>2. CountInv /\ [Next]_vars => CountInv'
  BY CountInvInductive
<1>3. CountInv => CountedOnce
  BY DEF CountInv, CountedOnce
<1> QED
  BY <1>1, <1>2, <1>3, PTL DEF Spec

-----------------------------------------------------------------------------
(* Types.                                                                  *)

LEMMA ParameterTypes ==
    /\ MaxRequests \in Nat /\ Window \in Nat /\ MaxUnique \in Nat /\ SubWindow \in Nat
    /\ MaxClock \in Nat
    /\ Grace \in Nat \ {0} /\ PageSize \in Nat \ {0} /\ MaxPages \in Nat \ {0}
BY ParameterAssumption

\* A set of natural numbers has a least one.
LEMMA LeastNatural == ASSUME NEW S \in SUBSET Nat, S # {} PROVE \E x \in S : \A y \in S : x <= y
<1>1. PICK x \in S : \A y \in S : <<y, x>> \notin OpToRel(<, Nat)
  BY WFMin, NatLessThanWellFounded
<1>2. \A y \in S : ~(y < x)
  BY <1>1 DEF OpToRel
<1> QED
  BY <1>2

\* A bounded one has a greatest one: the least distance from the bound.
LEMMA GreatestNatural ==
    ASSUME NEW n \in Nat, NEW S \in SUBSET (0..n), S # {}
    PROVE  \E x \in S : \A y \in S : x >= y
<1> DEFINE D == {d \in Nat : n - d \in S}
<1>1. D # {}
  <2>1. PICK x \in S : TRUE
    OBVIOUS
  <2>2. n - x \in D
    BY <2>1
  <2> QED
    BY <2>2
<1>2. PICK d \in D : \A e \in D : d <= e
  BY <1>1, LeastNatural
<1>3. ASSUME NEW y \in S PROVE n - d >= y
  <2>1. n - y \in D
    OBVIOUS
  <2> QED
    BY <1>2, <2>1
<1> QED
  BY <1>2, <1>3

LEMMA MinOfNaturals ==
    ASSUME NEW S \in SUBSET Nat, S # {}
    PROVE  Min(S) \in S /\ \A y \in S : Min(S) <= y
BY LeastNatural DEF Min

LEMMA MaxOfNaturals ==
    ASSUME NEW n \in Nat, NEW S \in SUBSET (0..n), S # {}
    PROVE  Max(S) \in S /\ \A y \in S : Max(S) >= y
BY GreatestNatural DEF Max

\* The windows end within the time that is kept.
LEMMA Cuts ==
    ASSUME TypeOK
    PROVE  /\ clock \in Nat /\ clock <= MaxClock
           /\ AnalysisCutoff \in Int /\ RateCut \in Int /\ SubCut \in Int
           /\ AnalysisCutoff < RateCut /\ AnalysisCutoff < SubCut /\ AnalysisCutoff < clock
           /\ RateCut <= clock /\ SubCut <= clock
<1>1. clock \in Nat /\ clock <= MaxClock
  BY DEF TypeOK, clock
<1>2. \E x \in {Window, SubWindow} : \A y \in {Window, SubWindow} : x >= y
  BY ParameterTypes, SMT
<1>3. /\ Max({Window, SubWindow}) \in {Window, SubWindow}
      /\ Max({Window, SubWindow}) >= Window /\ Max({Window, SubWindow}) >= SubWindow
  BY <1>2 DEF Max
<1> QED
  BY <1>1, <1>3, ParameterTypes DEF AnalysisCutoff, RateCut, SubCut

LEMMA LoggedAreTimes ==
    ASSUME TypeOK
    PROVE  /\ Logged \subseteq 1..clock /\ Logged \subseteq Times /\ Logged \subseteq Nat
           /\ IsFiniteSet(Logged)
<1>1. clock \in Nat /\ clock <= MaxClock
  BY Cuts
<1>2. Logged \subseteq 1..clock
  BY DEF Logged
<1>3. IsFiniteSet(Logged)
  <2>1. IsFiniteSet(1..clock)
    BY <1>1, FS_Interval
  <2> QED
    BY <1>2, <2>1, FS_Subset
<1>4. 1..clock \subseteq 1..MaxClock /\ 1..clock \subseteq Nat
  BY <1>1, ParameterTypes
<1>5. 1..clock \subseteq Times
  BY <1>4 DEF Times
<1> QED
  BY <1>2, <1>3, <1>4, <1>5, Zenon

\* A page is a set of times before the cursor.
LEMMA PageType ==
    ASSUME TypeOK, NEW cursor
    PROVE  /\ Page(cursor) \in SUBSET Logged /\ Page(cursor) \in SUBSET Times
           /\ Page(cursor) \in SUBSET Nat
           /\ Page(cursor) # {} => Min(Page(cursor)) \in Page(cursor)
                                   /\ \A t \in Page(cursor) : Min(Page(cursor)) <= t
<1>1. Page(cursor) \in SUBSET Logged
  BY DEF Page
<1>2. Page(cursor) \in SUBSET Nat /\ Page(cursor) \in SUBSET Times
  BY <1>1, LoggedAreTimes
<1> QED
  BY <1>1, <1>2, MinOfNaturals

\* When there may be more, the page is full, hence not empty.
LEMMA MoreIsFull ==
    ASSUME NEW data, MoreAfter(data)
    PROVE  data # {} /\ Cardinality(data) = PageSize
<1>1. Cardinality(data) = PageSize
  BY DEF MoreAfter
<1>2. data # {}
  <2>1. Cardinality({}) = 0
    BY FS_EmptySet
  <2> QED
    BY <1>1, <2>1, ParameterTypes
<1> QED
  BY <1>1, <1>2

LEMMA FoundType == RateFound \cup SubFound \subseteq [client : Clients, reason : Keys \cup Bases]
BY DEF RateFound, SubFound, Clients

LEMMA TypeInductive == TypeOK /\ [Next]_vars => TypeOK'
<1> SUFFICES ASSUME TypeOK, [Next]_vars PROVE TypeOK'
  OBVIOUS
<1> USE DEF TypeOK, fetching, memory, Clients, Bases
<1>1. CASE Tick
  <2>1. PICK k \in Keys \cup {Quiet} : log' = Append(log, k)
    BY <1>1 DEF Tick
  <2>2. log' \in Seq(Keys \cup {Quiet}) /\ clock' = clock + 1
    BY <2>1 DEF clock
  <2>3. clock' <= MaxClock
    BY <1>1, <2>2, Cuts, ParameterTypes DEF Tick
  <2> QED
    BY <1>1, <2>2, <2>3 DEF Tick, Times, NoCursor
<1>2. CASE PollStart
  <2>1. cutoff' \in Int /\ begun' \in 0..MaxClock
    BY <1>2, Cuts, ParameterTypes DEF PollStart
  <2>2. pages' \in 0..MaxPages
    BY <1>2, ParameterTypes DEF PollStart
  <2> QED
    BY <1>2, <2>1, <2>2 DEF PollStart, clock, Times, NoCursor
<1>3. CASE FetchPage
  <2> DEFINE data == Page(olderThan)
  <2>1. data \in SUBSET Times
    BY PageType
  <2>2. MoreAfter(data) => Min(data) \in Times
    BY <2>1, MoreIsFull, PageType
  <2>3. all' \in SUBSET Times /\ olderThan' \in Times \cup {NoCursor} /\ pc' \in {"fetch", "merge"}
    BY <1>3, <2>1, <2>2 DEF FetchPage
  <2>4. pages' \in 0..MaxPages
    BY <1>3, ParameterTypes DEF FetchPage
  <2> QED
    BY <1>3, <2>3, <2>4 DEF FetchPage, clock, Times, NoCursor
<1>4. CASE PageLimit \/ PageFails
  BY <1>4 DEF PageLimit, PageFails, clock, Times, NoCursor
<1>5. CASE Merge
  <2>1. lastNewest' \in 0..MaxClock
    <3> DEFINE S == {lastNewest} \cup (all \ seen)
    <3>1. S \subseteq 0..MaxClock /\ S # {}
      <4>1. lastNewest \in 0..MaxClock /\ all \subseteq 1..MaxClock
        BY DEF Times
      <4> QED
        BY <4>1, ParameterTypes
    <3>2. lastNewest' = Max(S)
      BY <1>5 DEF Merge
    <3> HIDE DEF S
    <3> QED
      BY <3>1, <3>2, MaxOfNaturals, ParameterTypes
  <2>2. seen' \in SUBSET Times
    BY <1>5 DEF Merge
  <2>3. events' \in [Times -> Nat]
    BY <1>5 DEF Merge
  <2> QED
    BY <1>5, <2>1, <2>2, <2>3 DEF Merge, clock, Times, NoCursor
<1>6. CASE Analyze
  <2>1. verdict' \subseteq RateFound \cup SubFound
    BY <1>6 DEF Analyze
  <2>2. verdict' \subseteq [client : Clients, reason : Keys \cup Bases]
    BY <2>1, FoundType
  <2> QED
    BY <1>6, <2>2 DEF Analyze, clock, Times, NoCursor
<1>7. CASE Restart
  BY <1>7, ParameterTypes DEF Restart, clock, Times, NoCursor
<1>8. CASE UNCHANGED vars
  BY <1>8 DEF vars, clock, Times, NoCursor
<1> QED
  BY <1>1, <1>2, <1>3, <1>4, <1>5, <1>6, <1>7, <1>8 DEF Next

LEMMA InitType == Init => TypeOK
BY ParameterTypes DEF Init, TypeOK, clock, Times, NoCursor

\* Every variable has its type: cursors and times stay within the log.
THEOREM TypeCorrect == Spec => []TypeOK
BY InitType, TypeInductive, PTL DEF Spec

-----------------------------------------------------------------------------
(* No gaps.                                                                *)

\* The poll that is going on has to evaluate t: t is not newer than its start or
\* than an entry it has fetched.
Reached(t) == t <= begun \/ \E u \in all : t <= u

\* What is fetched and seen is in the log, and the arguments of the fetch are
\* still those of the memory it is merged into.
Sources ==
    /\ all \subseteq Logged /\ seen \subseteq Logged
    /\ lastNewest <= clock /\ begun <= clock
    /\ pc \in {"fetch", "merge"} => seenUntil = lastNewest /\ cutoff <= AnalysisCutoff

\* Down to the cursor nothing is missing, and the paging ends only where the
\* memory, the cutoff or the log begins.
Paging ==
    /\ pc = "fetch" => \A t \in Logged : t >= olderThan /\ Reached(t) => t \in all
    /\ pc = "merge" /\ complete =>
         \A t \in Logged : t > lastNewest /\ t >= cutoff /\ Reached(t) => t \in all

\* What has been seen is counted until it is pruned, nothing is missing behind the
\* newest entry, and after the merge nothing up to the start of the poll.
Memory ==
    /\ \A t \in seen : t > AnalysisCutoff => events[t] > 0
    /\ NoGapWhenComplete
    /\ pc = "analyze" /\ complete =>
         \A t \in Logged : t <= begun /\ t > AnalysisCutoff => events[t] > 0

PollInv == CountInv /\ Sources /\ Paging /\ Memory

\* How many logged entries before the cursor are newer than t.
Newer(cursor, t) == {v \in {u \in Logged : u < cursor} : v > t}

LEMMA NewerIsFinite ==
    ASSUME TypeOK, NEW cursor, NEW t
    PROVE  IsFiniteSet(Newer(cursor, t)) /\ Cardinality(Newer(cursor, t)) \in Nat
<1>1. Newer(cursor, t) \subseteq Logged
  BY DEF Newer
<1>2. IsFiniteSet(Newer(cursor, t))
  BY <1>1, LoggedAreTimes, FS_Subset
<1> QED
  BY <1>2, FS_CardinalityType

LEMMA PageIsNewest ==
    ASSUME NEW cursor, NEW t
    PROVE  t \in Page(cursor) <=> t \in Logged /\ t < cursor /\ Cardinality(Newer(cursor, t)) < PageSize
BY DEF Page, Newer

\* A page leaves out nothing between one of its entries and the cursor.
LEMMA PageClosed ==
    ASSUME TypeOK, NEW cursor, NEW u \in Page(cursor), NEW t \in Logged, t < cursor, u <= t
    PROVE  t \in Page(cursor)
<1>1. u \in Logged /\ Cardinality(Newer(cursor, u)) < PageSize
  BY PageIsNewest
<1>2. Newer(cursor, t) \subseteq Newer(cursor, u)
  BY <1>1, LoggedAreTimes DEF Newer
<1>3. Cardinality(Newer(cursor, t)) <= Cardinality(Newer(cursor, u))
  BY <1>2, NewerIsFinite, FS_Subset
<1>4. Cardinality(Newer(cursor, t)) < PageSize
  BY <1>1, <1>3, NewerIsFinite, ParameterTypes
<1> QED
  BY <1>4, PageIsNewest

\* A page has at most PageSize entries.
LEMMA PageBounded ==
    ASSUME TypeOK, NEW cursor
    PROVE  Cardinality(Page(cursor)) \in Nat /\ Cardinality(Page(cursor)) <= PageSize
<1> DEFINE data == Page(cursor)
<1>1. IsFiniteSet(data)
  BY PageType, LoggedAreTimes, FS_Subset
<1>2. Cardinality(data) \in Nat
  BY <1>1, FS_CardinalityType
<1>3. CASE data = {}
  BY <1>3, FS_EmptySet, ParameterTypes
<1>4. CASE data # {}
  <2> DEFINE m == Min(data)
             N == Newer(cursor, m)
  <2>1. m \in data /\ \A t \in data : m <= t
    BY <1>4, PageType
  <2>2. IsFiniteSet(N) /\ Cardinality(N) \in Nat /\ Cardinality(N) < PageSize
    BY <2>1, NewerIsFinite, PageIsNewest
  <2>3. data \subseteq N \cup {m}
    <3> SUFFICES ASSUME NEW t \in data, t # m PROVE t \in N
      OBVIOUS
    <3>1. t \in Logged /\ t < cursor
      BY PageIsNewest
    <3>2. t \in Nat /\ m \in Nat
      BY <2>1, PageType
    <3>3. t > m
      BY <2>1, <3>2
    <3> QED
      BY <3>1, <3>3 DEF Newer
  <2> HIDE DEF data, m, N
  <2>4. IsFiniteSet(N \cup {m}) /\ Cardinality(N \cup {m}) \in Nat
    BY <2>2, FS_AddElement, FS_CardinalityType
  <2>5. Cardinality(N \cup {m}) = IF m \in N THEN Cardinality(N) ELSE Cardinality(N) + 1
    BY <2>2, FS_AddElement
  <2>6. Cardinality(data) <= Cardinality(N \cup {m})
    BY <2>3, <2>4, FS_Subset
  <2>7. Cardinality(data) <= PageSize
    BY <1>2, <2>2, <2>4, <2>5, <2>6, ParameterTypes
  <2> QED
    BY <1>2, <2>7 DEF data
<1> QED
  BY <1>3, <1>4

\* A page that is not full ends where the log ends.
LEMMA PageComplete ==
    ASSUME TypeOK, NEW cursor \in Nat, Cardinality(Page(cursor)) # PageSize,
           NEW t \in Logged, t < cursor
    PROVE  t \in Page(cursor)
<1> DEFINE data == Page(cursor)
           missing == {u \in Logged : u < cursor /\ u \notin data}
<1> SUFFICES ASSUME t \notin data PROVE FALSE
  OBVIOUS
<1>1. missing # {} /\ missing \in SUBSET (0..MaxClock)
  <2>1. Logged \subseteq 0..MaxClock
    BY LoggedAreTimes DEF Times
  <2> QED
    BY <2>1
<1>2. PICK m \in missing : \A u \in missing : m >= u
  BY <1>1, GreatestNatural, ParameterTypes
<1>3. ~(Cardinality(Newer(cursor, m)) < PageSize)
  BY <1>2, PageIsNewest
<1>4. Newer(cursor, m) \subseteq data
  BY <1>2, LoggedAreTimes DEF Newer
<1>5. IsFiniteSet(data)
  BY PageType, LoggedAreTimes, FS_Subset
<1>6. Cardinality(Newer(cursor, m)) <= Cardinality(data)
  BY <1>4, <1>5, FS_Subset
<1> QED
  BY <1>3, <1>6, NewerIsFinite, PageBounded, ParameterTypes

\* Time passes: a new entry is newer than all that a poll has to evaluate, and
\* what is kept only gets less.
LEMMA TickExtends ==
    ASSUME TypeOK, Tick
    PROVE  /\ clock' = clock + 1 /\ AnalysisCutoff' = AnalysisCutoff + 1
           /\ Logged \subseteq Logged'
           /\ \A t \in Logged' : t \in Logged \/ t = clock + 1
<1>1. PICK k \in Keys \cup {Quiet} : log' = Append(log, k)
  BY DEF Tick
<1>2. log \in Seq(Keys \cup {Quiet})
  BY DEF TypeOK
<1>3. Len(log') = Len(log) + 1 /\ Len(log) \in Nat /\ \A t \in 1..Len(log) : log'[t] = log[t]
  BY <1>1, <1>2
<1>4. clock' = clock + 1
  BY <1>3 DEF clock
<1>5. Max({Window, SubWindow}) \in Nat
  BY MaxOfTwo, ParameterTypes
<1>6. AnalysisCutoff' = AnalysisCutoff + 1
  BY <1>3, <1>4, <1>5, ParameterTypes DEF AnalysisCutoff, clock
<1> QED
  BY <1>3, <1>4, <1>6 DEF Logged, clock

LEMMA TickKeepsPollInv == ASSUME TypeOK, PollInv, Tick PROVE PollInv'
<1> USE DEF fetching, memory
<1>1. /\ clock' = clock + 1 /\ AnalysisCutoff' = AnalysisCutoff + 1
      /\ Logged \subseteq Logged'
      /\ \A t \in Logged' : t \in Logged \/ t = clock + 1
  BY TickExtends
<1>2. /\ clock \in Nat /\ AnalysisCutoff \in Int /\ Logged \subseteq Nat
      /\ cutoff \in Int /\ lastNewest \in Nat /\ begun \in Nat
  BY Cuts, LoggedAreTimes, ParameterTypes DEF TypeOK
<1>3. UNCHANGED <<pc, fetching, memory>>
  BY DEF Tick
<1>4. CountInv'
  BY CountInvInductive DEF PollInv, Next
<1>5. Sources'
  BY <1>1, <1>2, <1>3 DEF Sources, PollInv
<1>6. ASSUME NEW t, t = clock + 1 PROVE ~Reached(t)' /\ ~(t <= lastNewest) /\ ~(t <= begun)
  <2>1. \A u \in all : u \in 1..clock
    BY LoggedAreTimes DEF PollInv, Sources
  <2> QED
    BY <1>2, <1>3, <1>6, <2>1 DEF Reached, PollInv, Sources
<1>7. ASSUME NEW t PROVE Reached(t)' <=> Reached(t)
  BY <1>3 DEF Reached
<1>8. Paging'
  BY <1>1, <1>3, <1>6, <1>7 DEF Paging, PollInv
<1>9. \A t \in Nat : t > AnalysisCutoff' => t > AnalysisCutoff
  BY <1>1, <1>2
<1>10. Memory'
  <2>1. seen \subseteq Nat
    BY <1>2 DEF PollInv, Sources
  <2>2. NoGapWhenComplete'
    BY <1>1, <1>2, <1>3, <1>6, <1>9 DEF Memory, PollInv, NoGapWhenComplete, NoGapBehindNewest
  <2>3. (\A t \in seen : t > AnalysisCutoff => events[t] > 0)'
    BY <1>3, <1>9, <2>1 DEF Memory, PollInv
  <2>4. (pc = "analyze" /\ complete => \A t \in Logged : t <= begun /\ t > AnalysisCutoff => events[t] > 0)'
    BY <1>1, <1>2, <1>3, <1>6, <1>9 DEF Memory, PollInv
  <2> QED
    BY <2>2, <2>3, <2>4 DEF Memory
<1> QED
  BY <1>4, <1>5, <1>8, <1>10 DEF PollInv

LEMMA FetchKeepsPaging == ASSUME TypeOK, PollInv, FetchPage PROVE Paging'
<1> DEFINE data == Page(olderThan)
<1>1. /\ pc = "fetch" /\ all' = all \cup data
      /\ UNCHANGED <<log, begun, complete, lastNewest, cutoff, seenUntil>>
      /\ IF MoreAfter(data) THEN olderThan' = Min(data) /\ pc' = pc ELSE pc' = "merge"
  BY DEF FetchPage, memory
<1>2. Logged' = Logged
  BY <1>1 DEF Logged, clock
<1>3. /\ Logged \subseteq Nat /\ data \subseteq Logged /\ all \subseteq Logged
      /\ olderThan \in Nat /\ cutoff \in Int /\ lastNewest \in Nat
  BY LoggedAreTimes, PageType, ParameterTypes DEF TypeOK, PollInv, Sources, Times, NoCursor
<1>4. seenUntil = lastNewest
  BY <1>1 DEF PollInv, Sources
<1>5. ASSUME NEW t \in Logged, t >= olderThan, Reached(t)' PROVE t \in all
  <2>1. \A u \in data : ~(t <= u)
    <3> SUFFICES ASSUME NEW u \in data PROVE ~(t <= u)
      OBVIOUS
    <3>1. u < olderThan
      BY PageIsNewest
    <3>2. u \in Nat /\ t \in Nat
      BY <1>3
    <3> QED
      BY <1>3, <1>5, <3>1, <3>2
  <2>2. Reached(t)
    BY <1>1, <1>5, <2>1 DEF Reached
  <2> QED
    BY <1>1, <1>5, <2>2 DEF PollInv, Paging
<1>6. ASSUME NEW t \in Logged, NEW u \in data, u <= t, Reached(t)' PROVE t \in all'
  <2>1. CASE t >= olderThan
    BY <1>1, <1>5, <1>6, <2>1
  <2>2. CASE t < olderThan
    BY <1>1, <1>6, <2>2, PageClosed
  <2> QED
    BY <1>3, <2>1, <2>2
<1>7. CASE MoreAfter(data)
  <2>1. Min(data) \in data
    BY <1>7, MoreIsFull, PageType
  <2>2. pc' = "fetch" /\ olderThan' = Min(data)
    BY <1>1, <1>7
  <2>3. ASSUME NEW t \in Logged', t >= olderThan', Reached(t)' PROVE t \in all'
    BY <1>2, <1>3, <1>6, <2>1, <2>2, <2>3
  <2> QED
    BY <2>2, <2>3 DEF Paging
<1>8. CASE ~MoreAfter(data)
  <2>1. pc' = "merge"
    BY <1>1, <1>8
  <2>2. ASSUME NEW t \in Logged, t > lastNewest, t >= cutoff, Reached(t)' PROVE t \in all'
    <3>1. CASE Cardinality(data) # PageSize
      <4>1. CASE t >= olderThan
        BY <1>1, <1>5, <2>2, <4>1
      <4>2. CASE t < olderThan
        BY <1>1, <1>3, <3>1, <4>2, PageComplete
      <4> QED
        BY <1>3, <4>1, <4>2
    <3>2. CASE Cardinality(data) = PageSize
      <4>1. data # {}
        BY <3>2, FS_EmptySet, ParameterTypes
      <4>2. Min(data) \in data
        BY <4>1, PageType
      <4>3. ~(Min(data) >= cutoff) \/ ~(Min(data) > lastNewest)
        BY <1>4, <1>8, <3>2 DEF MoreAfter
      <4>4. Min(data) \in Nat /\ t \in Nat
        BY <1>3, <4>2
      <4>5. Min(data) <= t
        BY <1>3, <2>2, <4>3, <4>4
      <4> QED
        BY <1>6, <2>2, <4>2, <4>5
    <3> QED
      BY <3>1, <3>2
  <2> QED
    BY <1>1, <1>2, <2>1, <2>2 DEF Paging
<1> QED
  BY <1>7, <1>8

\* The merge closes the gap between what was kept and what was fetched.
LEMMA MergeKeepsPollInv == ASSUME TypeOK, PollInv, Merge PROVE PollInv'
<1> DEFINE new == all \ seen
<1>1. /\ pc = "merge" /\ pc' = "analyze"
      /\ UNCHANGED <<log, all, begun, complete>>
      /\ seen' = {t \in seen \cup all : t >= AnalysisCutoff}
      /\ lastNewest' = Max({lastNewest} \cup new)
  BY DEF Merge, fetching
<1>2. /\ AnalysisCutoff' = AnalysisCutoff /\ clock' = clock /\ Logged' = Logged
  BY <1>1 DEF AnalysisCutoff, clock, Logged
<1>3. /\ clock \in Nat /\ AnalysisCutoff \in Int /\ Logged \subseteq Nat /\ Logged \subseteq Times
      /\ cutoff \in Int /\ lastNewest \in 0..MaxClock /\ begun \in Nat
  BY Cuts, LoggedAreTimes, ParameterTypes DEF TypeOK
<1>4. all \subseteq Logged /\ seen \subseteq Logged
  BY DEF PollInv, Sources
<1>5. ASSUME NEW t \in Logged, t > AnalysisCutoff
      PROVE  events'[t] = events[t] + (IF t \in new THEN 1 ELSE 0) /\ events[t] \in Nat
  BY <1>3, <1>5 DEF Merge, TypeOK
<1>6. ASSUME NEW t \in seen \cup all, t > AnalysisCutoff PROVE events'[t] > 0
  <2>1. events'[t] = events[t] + (IF t \in new THEN 1 ELSE 0) /\ events[t] \in Nat
    BY <1>4, <1>5, <1>6
  <2>2. CASE t \in seen
    BY <1>6, <2>1, <2>2 DEF PollInv, Memory
  <2>3. CASE t \notin seen
    BY <1>6, <2>1, <2>3
  <2> QED
    BY <2>2, <2>3
<1>7. lastNewest' \in {lastNewest} \cup new
  <2> DEFINE S == {lastNewest} \cup new
  <2>1. S \in SUBSET (0..MaxClock) /\ S # {}
    <3>1. Times \subseteq 0..MaxClock
      BY ParameterTypes DEF Times
    <3> QED
      BY <1>3, <1>4, <3>1
  <2> HIDE DEF S
  <2>2. Max(S) \in S
    BY <2>1, MaxOfNaturals, ParameterTypes
  <2> QED
    BY <1>1, <2>2 DEF S
<1>8. ASSUME NEW t \in Logged, t > AnalysisCutoff, complete,
             t <= lastNewest \/ Reached(t)
      PROVE  events'[t] > 0
  <2>1. CASE t <= lastNewest
    <3>1. events[t] > 0
      BY <1>8, <2>1 DEF PollInv, Memory, NoGapWhenComplete, NoGapBehindNewest
    <3> QED
      BY <1>5, <1>8, <3>1
  <2>2. CASE ~(t <= lastNewest)
    <3>1. t > lastNewest /\ Reached(t)
      BY <1>3, <1>8, <2>2
    <3>2. cutoff <= AnalysisCutoff
      BY <1>1 DEF PollInv, Sources
    <3>3. t >= cutoff
      BY <1>3, <1>8, <3>2
    <3>4. t \in all
      BY <1>1, <1>8, <3>1, <3>3 DEF PollInv, Paging
    <3> QED
      BY <1>6, <1>8, <3>4
  <2> QED
    BY <2>1, <2>2
<1>9. NoGapWhenComplete'
  <2> SUFFICES ASSUME complete, NEW t \in Logged, t <= lastNewest', t > AnalysisCutoff
               PROVE  events'[t] > 0
    BY <1>1, <1>2 DEF NoGapWhenComplete, NoGapBehindNewest
  <2>1. CASE lastNewest' = lastNewest
    BY <1>8, <2>1
  <2>2. CASE lastNewest' \in all
    <3>1. Reached(t)
      BY <2>2 DEF Reached
    <3> QED
      BY <1>8, <3>1
  <2> QED
    BY <1>7, <2>1, <2>2
<1>10. Memory'
  <2>1. (\A t \in seen : t > AnalysisCutoff => events[t] > 0)'
    BY <1>1, <1>2, <1>6
  <2>2. ASSUME complete, NEW t \in Logged, t <= begun, t > AnalysisCutoff PROVE events'[t] > 0
    BY <1>8, <2>2 DEF Reached
  <2> QED
    BY <1>1, <1>2, <1>9, <2>1, <2>2 DEF Memory
<1>11. Sources'
  <2>1. lastNewest' <= clock
    <3>1. ASSUME NEW t \in Logged PROVE t <= clock
      BY LoggedAreTimes, <1>3
    <3> QED
      BY <1>4, <1>7, <3>1 DEF PollInv, Sources
  <2> QED
    BY <1>1, <1>2, <1>4, <2>1 DEF Sources, PollInv
<1>12. Paging'
  BY <1>1 DEF Paging
<1>13. CountInv'
  BY CountInvInductive DEF PollInv, Next
<1> QED
  BY <1>10, <1>11, <1>12, <1>13 DEF PollInv

LEMMA PollInvInductive == TypeOK /\ PollInv /\ [Next]_vars => PollInv'
<1> SUFFICES ASSUME TypeOK, PollInv, [Next]_vars PROVE PollInv'
  OBVIOUS
<1> USE DEF fetching, memory
<1>1. CountInv'
  BY CountInvInductive DEF PollInv
<1>2. ASSUME UNCHANGED log
      PROVE  AnalysisCutoff' = AnalysisCutoff /\ clock' = clock /\ Logged' = Logged
  BY <1>2 DEF AnalysisCutoff, clock, Logged
<1>3. AnalysisCutoff \in Int /\ Logged \subseteq Nat /\ clock \in Nat
  BY Cuts, LoggedAreTimes
<1>4. CASE Tick
  BY <1>4, TickKeepsPollInv
<1>5. CASE PollStart
  <2>1. /\ pc' = "fetch" /\ seenUntil' = lastNewest /\ cutoff' = AnalysisCutoff
        /\ all' = {} /\ olderThan' = NoCursor /\ begun' = clock
        /\ UNCHANGED <<log, complete, memory>>
    BY <1>5 DEF PollStart
  <2>2. Sources'
    BY <1>2, <1>3, <2>1 DEF Sources, PollInv
  <2>3. \A t \in Logged : ~(t >= NoCursor)
    BY <1>3, LoggedAreTimes, ParameterTypes DEF Times, NoCursor
  <2>4. Paging'
    BY <1>2, <2>1, <2>3 DEF Paging, NoCursor
  <2>5. Memory'
    BY <1>2, <2>1 DEF Memory, PollInv, NoGapWhenComplete, NoGapBehindNewest
  <2> QED
    BY <1>1, <2>2, <2>4, <2>5 DEF PollInv
<1>6. CASE FetchPage
  <2>1. /\ all' = all \cup Page(olderThan) /\ pc = "fetch" /\ pc' \in {"fetch", "merge"}
        /\ UNCHANGED <<log, cutoff, seenUntil, begun, complete, memory>>
    BY <1>6 DEF FetchPage
  <2>2. Sources'
    BY <1>2, <2>1, PageType DEF Sources, PollInv
  <2>3. Memory'
    BY <1>2, <2>1 DEF Memory, PollInv, NoGapWhenComplete, NoGapBehindNewest
  <2> QED
    BY <1>1, <1>6, <2>2, <2>3, FetchKeepsPaging DEF PollInv
<1>7. CASE PageLimit \/ PageFails
  <2>1. /\ pc = "fetch" /\ pc' \in {"idle", "merge"} /\ complete' \in BOOLEAN
        /\ pc' = "merge" => complete' = FALSE
        /\ complete' => complete
        /\ UNCHANGED <<log, all, cutoff, seenUntil, begun, memory>>
    BY <1>7 DEF PageLimit, PageFails, TypeOK
  <2>2. Sources'
    BY <1>2, <2>1 DEF Sources, PollInv
  <2>3. Paging'
    BY <2>1 DEF Paging
  <2>4. Memory'
    BY <1>2, <2>1 DEF Memory, PollInv, NoGapWhenComplete, NoGapBehindNewest
  <2> QED
    BY <1>1, <2>2, <2>3, <2>4 DEF PollInv
<1>8. CASE Merge
  BY <1>8, MergeKeepsPollInv
<1>9. CASE Analyze
  <2>1. pc' = "idle" /\ UNCHANGED <<log, fetching, memory>>
    BY <1>9 DEF Analyze
  <2>2. Sources'
    BY <1>2, <2>1 DEF Sources, PollInv
  <2>3. Paging'
    BY <2>1 DEF Paging
  <2>4. Memory'
    BY <1>2, <2>1 DEF Memory, PollInv, NoGapWhenComplete, NoGapBehindNewest
  <2> QED
    BY <1>1, <2>2, <2>3, <2>4 DEF PollInv
<1>10. CASE Restart
  <2>1. pc' = "idle" /\ seen' = {} /\ all' = {} /\ lastNewest' = 0 /\ begun' = 0 /\ log' = log
    BY <1>10 DEF Restart
  <2>2. Sources'
    BY <1>2, <1>3, <2>1 DEF Sources
  <2>3. Paging'
    BY <2>1 DEF Paging
  <2>4. \A t \in Logged : ~(t <= 0)
    BY <1>3, LoggedAreTimes
  <2>5. Memory'
    BY <1>2, <2>1, <2>4 DEF Memory, NoGapWhenComplete, NoGapBehindNewest
  <2> QED
    BY <1>1, <2>2, <2>3, <2>5 DEF PollInv
<1>11. CASE UNCHANGED vars
  <2>1. UNCHANGED <<log, pc, fetching, memory>>
    BY <1>11 DEF vars
  <2>2. Sources'
    BY <1>2, <2>1 DEF Sources, PollInv
  <2>3. Paging'
    BY <1>2, <2>1 DEF Paging, PollInv, Reached
  <2>4. Memory'
    BY <1>2, <2>1 DEF Memory, PollInv, NoGapWhenComplete, NoGapBehindNewest
  <2> QED
    BY <1>1, <2>2, <2>3, <2>4 DEF PollInv
<1> QED
  BY <1>4, <1>5, <1>6, <1>7, <1>8, <1>9, <1>10, <1>11 DEF Next

LEMMA InitPollInv == Init => PollInv
<1> SUFFICES ASSUME Init PROVE PollInv
  OBVIOUS
<1>1. clock = 0 /\ Logged = {}
  BY DEF Init, clock, Logged
<1>2. CountInv
  BY DEF Init, CountInv, Times
<1> QED
  BY <1>1, <1>2 DEF Init, PollInv, Sources, Paging, Memory, NoGapWhenComplete, NoGapBehindNewest

\* As long as every poll came to the end of its pages, paging back to the newest
\* entry of the last poll leaves no gap, whatever the log gains under the cursor
\* (querylog.go, fetchQueryLogSince).
THEOREM NothingIsMissed == Spec => []NoGapWhenComplete
<1>1. PollInv => NoGapWhenComplete
  BY DEF PollInv, Memory
<1> QED
  BY <1>1, InitType, TypeInductive, InitPollInv, PollInvInductive, PTL DEF Spec

-----------------------------------------------------------------------------
(* Verdicts.                                                               *)

\* The entries of k between two times.
Entries(k, from, to) == {t \in Logged : from <= t /\ t <= to /\ log[t] = k}

\* What Count counts.
Copies(k) == UNION {{t} \X (1..events[t]) : t \in {t \in Logged : t >= RateCut /\ log[t] = k}}

\* Without duplicates an event stands for a query of the log.
LEMMA CopiesAreEntries ==
    ASSUME TypeOK, CountInv, NEW k
    PROVE  /\ IsFiniteSet(Copies(k)) /\ IsFiniteSet(Entries(k, RateCut, clock))
           /\ Count(k) \in Nat /\ Count(k) <= Queried(k, RateCut, clock)
<1> DEFINE C == Copies(k)
           E == Entries(k, RateCut, clock)
           f == [c \in C |-> c[1]]
<1>1. \A t \in Logged : t \in Nat /\ t <= clock /\ t \in Times
  BY LoggedAreTimes, Cuts
<1>2. ASSUME NEW c \in C PROVE c = <<c[1], 1>> /\ c[1] \in E
  <2>1. PICK t \in Logged : t >= RateCut /\ log[t] = k /\ c \in {t} \X (1..events[t])
    BY DEF Copies
  <2>2. events[t] \in Nat /\ events[t] <= 1
    BY <1>1, <2>1 DEF CountInv
  <2>3. c[1] = t /\ c[2] \in 1..events[t] /\ c = <<c[1], c[2]>>
    BY <2>1
  <2>4. c[2] = 1
    BY <2>2, <2>3
  <2>5. t \in E
    BY <1>1, <2>1, Cuts DEF Entries
  <2> QED
    BY <2>3, <2>4, <2>5
<1>3. IsFiniteSet(E)
  <2>1. E \subseteq Logged
    BY DEF Entries
  <2> QED
    BY <2>1, LoggedAreTimes, FS_Subset
<1> HIDE DEF C, E
<1>4. f \in Injection(C, E)
  BY <1>2 DEF Injection, IsInjective
<1>5. IsFiniteSet(C) /\ Cardinality(C) <= Cardinality(E)
  BY <1>3, <1>4, FS_Injection
<1>6. Cardinality(C) \in Nat
  BY <1>5, FS_CardinalityType
<1> QED
  BY <1>3, <1>5, <1>6 DEF Count, Queried, C, E, Copies, Entries

\* What the log shows and the events hold is counted.
LEMMA EntriesAreCounted ==
    ASSUME TypeOK, CountInv, NEW k, NEW to \in Nat, to <= clock,
           \A t \in Entries(k, RateCut, to) : events[t] > 0
    PROVE  Queried(k, RateCut, to) \in Nat /\ Queried(k, RateCut, to) <= Count(k)
<1> DEFINE C == Copies(k)
           E == Entries(k, RateCut, to)
           g == [t \in E |-> <<t, 1>>]
<1>1. \A t \in E : t \in Logged /\ t \in Times /\ RateCut <= t /\ log[t] = k /\ t \in Nat
  BY LoggedAreTimes DEF Entries
<1>2. ASSUME NEW t \in E PROVE <<t, 1>> \in C
  <2>1. events[t] \in Nat /\ events[t] > 0
    BY <1>1 DEF CountInv
  <2>2. <<t, 1>> \in {t} \X (1..events[t])
    BY <2>1
  <2>3. t >= RateCut
    BY <1>1, Cuts
  <2> QED
    BY <1>1, <2>2, <2>3 DEF Copies
<1>3. IsFiniteSet(C)
  BY CopiesAreEntries
<1> HIDE DEF C, E
<1>4. g \in Injection(E, C)
  BY <1>2 DEF Injection, IsInjective
<1>5. IsFiniteSet(E) /\ Cardinality(E) <= Cardinality(C)
  BY <1>3, <1>4, FS_Injection
<1>6. Cardinality(E) \in Nat
  BY <1>5, FS_CardinalityType
<1> QED
  BY <1>5, <1>6 DEF Count, Queried, C, E, Copies, Entries

\* Which of the keys the log shows between two times, without counting.
LEMMA AskedIsLogged ==
    ASSUME TypeOK, NEW c, NEW b, NEW from, NEW to
    PROVE  /\ IsFiniteSet(Asked(c, b, from, to))
           /\ \A k \in Keys : k \in Asked(c, b, from, to)
                <=> Client[k] = c /\ Base[k] = b /\ Entries(k, from, to) # {}
<1> DEFINE A == Asked(c, b, from, to)
<1>1. ASSUME NEW k PROVE Queried(k, from, to) > 0 <=> Entries(k, from, to) # {}
  <2> DEFINE E == Entries(k, from, to)
  <2>1. E \subseteq Logged
    BY DEF Entries
  <2>2. IsFiniteSet(E)
    BY <2>1, LoggedAreTimes, FS_Subset
  <2>3. Queried(k, from, to) = Cardinality(E)
    BY DEF Queried, Entries
  <2> HIDE DEF E
  <2>4. Cardinality(E) \in Nat /\ (Cardinality(E) = 0 <=> E = {})
    BY <2>2, FS_CardinalityType, FS_EmptySet
  <2> QED
    BY <2>3, <2>4 DEF E
<1>2. \A k \in Keys : k \in A <=> Client[k] = c /\ Base[k] = b /\ Entries(k, from, to) # {}
  BY <1>1 DEF Asked
<1>3. IsFiniteSet(A)
  <2> DEFINE S == {t \in Logged : log[t] \in A}
             f == [t \in S |-> log[t]]
  <2>1. IsFiniteSet(S)
    BY LoggedAreTimes, FS_Subset
  <2>2. ASSUME NEW k \in A PROVE \E t \in S : log[t] = k
    <3>1. k \in Keys
      BY DEF Asked
    <3>2. PICK t : t \in Entries(k, from, to)
      BY <1>2, <3>1
    <3> QED
      BY <3>2 DEF Entries
  <2> HIDE DEF A, S
  <2>3. \A t \in S : log[t] \in A
    BY DEF S
  <2>4. f \in Surjection(S, A)
    BY <2>2, <2>3 DEF Surjection
  <2> QED
    BY <2>1, <2>4, FS_Surjection
<1> QED
  BY <1>2, <1>3

LEMMA FoundIsFlood == ASSUME TypeOK, CountInv PROVE RateFound \cup SubFound \subseteq Floods(clock)
<1>1. ASSUME NEW k \in Keys, Count(k) > MaxRequests PROVE Queried(k, RateCut, clock) > MaxRequests
  <2>1. IsFiniteSet(Entries(k, RateCut, clock))
    BY CopiesAreEntries
  <2>2. Queried(k, RateCut, clock) \in Nat
    BY <2>1, FS_CardinalityType DEF Queried, Entries
  <2> QED
    BY <1>1, <2>2, CopiesAreEntries, ParameterTypes
<1>2. ASSUME NEW c \in Clients, NEW b \in Bases, Cardinality(Subdomains(c, b)) > MaxUnique
      PROVE  Cardinality(Asked(c, b, SubCut, clock)) > MaxUnique
  <2> DEFINE S == Subdomains(c, b)
             A == Asked(c, b, SubCut, clock)
  <2>1. S \subseteq A
    <3> SUFFICES ASSUME NEW k \in S PROVE k \in A
      OBVIOUS
    <3>1. PICK t \in Logged : t >= SubCut /\ Client[log[t]] = c /\ Base[log[t]] = b /\ k = log[t]
      BY DEF Subdomains
    <3>2. t \in Nat /\ t <= clock /\ SubCut <= t /\ k \in Keys
      <4>1. t \in 1..clock /\ log[t] # Quiet
        BY LoggedAreTimes DEF Logged
      <4>2. log[t] \in Keys \cup {Quiet}
        BY <4>1 DEF TypeOK, clock
      <4> QED
        BY <3>1, <4>1, <4>2, Cuts
    <3>3. Entries(k, SubCut, clock) # {}
      BY <3>1, <3>2 DEF Entries
    <3> QED
      BY <3>1, <3>2, <3>3, AskedIsLogged
  <2>2. IsFiniteSet(A)
    BY AskedIsLogged
  <2> HIDE DEF S, A
  <2>3. IsFiniteSet(S) /\ Cardinality(S) <= Cardinality(A)
    BY <2>1, <2>2, FS_Subset
  <2>4. Cardinality(S) \in Nat /\ Cardinality(A) \in Nat
    BY <2>2, <2>3, FS_CardinalityType
  <2>5. Cardinality(S) > MaxUnique
    BY <1>2 DEF S
  <2> QED
    BY <2>3, <2>4, <2>5, ParameterTypes DEF A
<1>3. RateFound \subseteq Floods(clock)
  BY <1>1 DEF RateFound, Floods
<1>4. SubFound \subseteq Floods(clock)
  BY <1>2 DEF SubFound, Floods
<1> QED
  BY <1>3, <1>4

\* Who is banned has made more queries, or asked for more subdomains, than allowed
\* (detection.go, analyze and analyzeSubdomains).
THEOREM BansAreDeserved == Spec => NoFalseAlarm
<1>1. TypeOK /\ PollInv /\ [Next]_vars => [Analysed => verdict' \subseteq Floods(clock)]_vars
  <2> SUFFICES ASSUME TypeOK, PollInv, [Next]_vars, Analysed PROVE verdict' \subseteq Floods(clock)
    OBVIOUS
  <2>1. CASE Analyze
    <3>1. verdict' \subseteq RateFound \cup SubFound
      BY <2>1 DEF Analyze
    <3> QED
      BY <3>1, FoundIsFlood DEF PollInv
  <2>2. CASE Restart
    BY <2>2 DEF Restart
  <2>3. Analyze \/ Restart
    BY DEF Analysed, Next, Tick, PollStart, FetchPage, PageLimit, PageFails, Merge, vars
  <2> QED
    BY <2>1, <2>2, <2>3
<1> QED
  BY <1>1, InitType, TypeInductive, InitPollInv, PollInvInductive, PTL DEF Spec, NoFalseAlarm

LEMMA FloodsAreFound ==
    ASSUME TypeOK, PollInv, pc = "analyze", complete
    PROVE  Floods(begun) \subseteq RateFound \cup SubFound
<1>1. begun \in Nat /\ begun <= clock
  BY DEF TypeOK, PollInv, Sources
<1>2. CountInv
  BY DEF PollInv
<1>3. ASSUME NEW t \in Logged, NEW cut \in {RateCut, SubCut}, cut <= t, t <= begun PROVE events[t] > 0
  <2>1. t > AnalysisCutoff
    BY <1>3, Cuts, LoggedAreTimes
  <2> QED
    BY <1>3, <2>1 DEF PollInv, Memory
<1>4. ASSUME NEW k \in Keys, Queried(k, RateCut, begun) > MaxRequests PROVE Count(k) > MaxRequests
  <2>1. \A t \in Entries(k, RateCut, begun) : events[t] > 0
    BY <1>3 DEF Entries
  <2>2. Queried(k, RateCut, begun) \in Nat /\ Queried(k, RateCut, begun) <= Count(k)
    BY <1>1, <1>2, <2>1, EntriesAreCounted
  <2>3. Count(k) \in Nat
    BY <1>2, CopiesAreEntries
  <2> QED
    BY <1>4, <2>2, <2>3, ParameterTypes
<1>5. ASSUME NEW c \in Clients, NEW b \in Bases, Cardinality(Asked(c, b, SubCut, begun)) > MaxUnique
      PROVE  Cardinality(Subdomains(c, b)) > MaxUnique
  <2> DEFINE S == Subdomains(c, b)
             A == Asked(c, b, SubCut, begun)
             T == {t \in Logged : t >= SubCut /\ events[t] > 0 /\ Client[log[t]] = c /\ Base[log[t]] = b}
             f == [t \in T |-> log[t]]
  <2>1. A \subseteq S
    <3> SUFFICES ASSUME NEW k \in A PROVE k \in S
      OBVIOUS
    <3>1. k \in Keys
      BY DEF Asked
    <3>2. Client[k] = c /\ Base[k] = b /\ Entries(k, SubCut, begun) # {}
      BY <3>1, AskedIsLogged
    <3>3. PICK t \in Logged : SubCut <= t /\ t <= begun /\ log[t] = k
      BY <3>2 DEF Entries
    <3>4. t \in Nat /\ t >= SubCut /\ events[t] > 0
      BY <1>3, <3>3, LoggedAreTimes, Cuts
    <3> QED
      BY <3>2, <3>3, <3>4 DEF Subdomains
  <2>2. S = {log[t] : t \in T}
    BY DEF Subdomains
  <2>3. IsFiniteSet(T)
    BY LoggedAreTimes, FS_Subset
  <2> HIDE DEF S, A, T
  <2>4. f \in Surjection(T, S)
    BY <2>2 DEF Surjection
  <2>5. IsFiniteSet(S)
    BY <2>3, <2>4, FS_Surjection
  <2>6. IsFiniteSet(A) /\ Cardinality(A) <= Cardinality(S)
    BY <2>1, <2>5, FS_Subset
  <2>7. Cardinality(S) \in Nat /\ Cardinality(A) \in Nat /\ Cardinality(A) > MaxUnique
    BY <1>5, <2>5, <2>6, FS_CardinalityType DEF A
  <2> QED
    BY <2>6, <2>7, ParameterTypes DEF S
<1>6. ASSUME NEW v \in Floods(begun) PROVE v \in RateFound \cup SubFound
  <2>1. CASE \E k \in Keys : Queried(k, RateCut, begun) > MaxRequests /\ v = [client |-> Client[k], reason |-> k]
    BY <1>4, <2>1 DEF RateFound
  <2>2. CASE v \in [client : Clients, reason : Bases]
             /\ Cardinality(Asked(v.client, v.reason, SubCut, begun)) > MaxUnique
    BY <1>5, <2>2 DEF SubFound
  <2> QED
    BY <1>6, <2>1, <2>2 DEF Floods
<1> QED
  BY <1>6

\* Before the first entry there is no flood.
LEMMA NoFloodAtZero == ASSUME TypeOK PROVE Floods(0) = {}
<1>1. ASSUME NEW k, NEW from PROVE Queried(k, from, 0) = 0
  <2>1. {t \in Logged : from <= t /\ t <= 0 /\ log[t] = k} = {}
    <3>1. \A t \in Logged : t \in Nat /\ ~(t <= 0)
      BY LoggedAreTimes
    <3> QED
      BY <3>1
  <2> QED
    BY <2>1, FS_EmptySet DEF Queried
<1>2. ASSUME NEW c, NEW b PROVE Cardinality(Asked(c, b, SubCut, 0)) = 0
  <2>1. Asked(c, b, SubCut, 0) = {}
    BY <1>1 DEF Asked
  <2> QED
    BY <2>1, FS_EmptySet
<1> QED
  BY <1>1, <1>2, ParameterTypes DEF Floods

\* A client above a limit when a poll began is banned at its end, unless a page is
\* missing and reported.
THEOREM FloodsAreBanned == Spec => FloodIsFound
<1>1. TypeOK /\ PollInv /\ [Next]_vars =>
        [Analysed /\ begun' = begun /\ complete =>
           {v.client : v \in Floods(begun)} \subseteq {v.client : v \in verdict'}]_vars
  <2> SUFFICES ASSUME TypeOK, PollInv, [Next]_vars, Analysed, begun' = begun, complete,
                      NEW v \in Floods(begun)
               PROVE  \E w \in verdict' : w.client = v.client
    OBVIOUS
  <2>1. CASE Analyze
    <3>1. v \in RateFound \cup SubFound
      BY FloodsAreFound DEF Analysed
    <3>2. PICK first \in [{u.client : u \in RateFound \cup SubFound} -> RateFound \cup SubFound] :
             /\ \A c \in DOMAIN first : first[c].client = c
             /\ verdict' = {first[c] : c \in DOMAIN first}
      BY <2>1 DEF Analyze
    <3>3. v.client \in DOMAIN first
      BY <3>1, <3>2
    <3> QED
      BY <3>2, <3>3
  <2>2. CASE Restart
    <3>1. begun = 0
      BY <2>2 DEF Restart
    <3> QED
      BY <3>1, NoFloodAtZero
  <2>3. Analyze \/ Restart
    BY DEF Analysed, Next, Tick, PollStart, FetchPage, PageLimit, PageFails, Merge, vars
  <2> QED
    BY <2>1, <2>2, <2>3
<1> QED
  BY <1>1, InitType, TypeInductive, InitPollInv, PollInvInductive, PTL DEF Spec, FloodIsFound
=============================================================================
