---------------------------- MODULE ReportsProofs ----------------------------
(***************************************************************************)
(* Proofs about Reports for any lengths of days, weeks and months, any       *)
(* retention and any events.                                                 *)
(***************************************************************************)
EXTENDS Reports, FiniteSetTheorems, SequenceTheorems, WellFoundedInduction, TLAPS

-----------------------------------------------------------------------------
(* Days, and the first days of months.                                     *)

LEMMA Lengths ==
    /\ DayLen \in Nat \ {0} /\ WeekLen \in Nat \ {0} /\ MonthDays \in Nat \ {0}
    /\ ReportTime \in Nat /\ ReportTime < DayLen /\ FirstTick \in Nat
    /\ BusiestRange \in Nat /\ Retention \in Nat
BY ParameterAssumption

\* A product does not shrink.
LEMMA TimesMono ==
    ASSUME NEW a \in Int, NEW b \in Int, NEW n \in Nat, a <= b
    PROVE  a * n <= b * n
BY SMT

LEMMA TimesStrict ==
    ASSUME NEW a \in Int, NEW b \in Int, NEW n \in Nat \ {0}, a < b
    PROVE  a * n + n <= b * n
<1>1. (a + 1) * n <= b * n
  BY TimesMono
<1>2. (a + 1) * n = a * n + n
  BY SMT
<1> QED
  BY <1>1, <1>2

LEMMA Division ==
    ASSUME NEW t \in Nat, NEW n \in Nat \ {0}
    PROVE  t \div n \in Nat /\ t % n \in 0 .. n - 1 /\ t = (t \div n) * n + (t % n)
BY SMT

\* A quotient is the only one with its remainder.
LEMMA QuotientUnique ==
    ASSUME NEW a \in Int, NEW b \in Int, NEW n \in Nat \ {0},
           NEW r \in 0 .. n - 1, NEW s \in 0 .. n - 1, a * n + r = b * n + s
    PROVE  a = b /\ r = s
<1>1. ~(a < b)
  <2> SUFFICES ASSUME a < b PROVE FALSE
    OBVIOUS
  <2>1. a * n + n <= b * n
    BY TimesStrict
  <2>2. a * n \in Int /\ b * n \in Int
    BY SMT
  <2> QED
    BY <2>1, <2>2
<1>2. ~(b < a)
  <2> SUFFICES ASSUME b < a PROVE FALSE
    OBVIOUS
  <2>1. b * n + n <= a * n
    BY TimesStrict
  <2>2. a * n \in Int /\ b * n \in Int
    BY SMT
  <2> QED
    BY <2>1, <2>2
<1>3. a = b
  BY <1>1, <1>2
<1> QED
  BY <1>3

\* The day and the time of the day of a tick.
LEMMA DayOf ==
    ASSUME NEW d \in Nat, NEW n \in Nat \ {0}, NEW r \in 0 .. n - 1
    PROVE  d * n + r \in Nat /\ (d * n + r) \div n = d /\ (d * n + r) % n = r
<1>1. d * n \in Nat
  BY SMT
<1> DEFINE t == d * n + r
<1>2. t \in Nat
  BY <1>1
<1>3. t \div n \in Nat /\ t % n \in 0 .. n - 1 /\ t = (t \div n) * n + (t % n)
  BY <1>2, Division
<1>4. t \div n = d /\ t % n = r
  BY <1>3, QuotientUnique
<1> QED
  BY <1>2, <1>4

LEMMA DivMonotone ==
    ASSUME NEW s \in Nat, NEW t \in Nat, NEW n \in Nat \ {0}, s <= t
    PROVE  s \div n <= t \div n
<1> DEFINE a == s \div n
           b == t \div n
<1>1. /\ a \in Nat /\ s % n \in 0 .. n - 1 /\ s = a * n + (s % n)
      /\ b \in Nat /\ t % n \in 0 .. n - 1 /\ t = b * n + (t % n)
  BY Division
<1> HIDE DEF a, b
<1> SUFFICES ASSUME b < a PROVE FALSE
  BY <1>1 DEF a, b
<1>2. b * n + n <= a * n
  BY <1>1, TimesStrict
<1>3. a * n \in Int /\ b * n \in Int
  BY <1>1, SMT
<1> QED
  BY <1>1, <1>2, <1>3

LEMMA Midnight ==
    ASSUME NEW t \in Nat
    PROVE  midnight(t) \in Nat /\ midnight(t) <= t /\ t \div DayLen \in Nat
<1>1. t \div DayLen \in Nat /\ t % DayLen \in 0 .. DayLen - 1 /\ t = (t \div DayLen) * DayLen + (t % DayLen)
  BY Division, Lengths
<1>2. (t \div DayLen) * DayLen \in Nat
  BY <1>1, Lengths
<1> QED
  BY <1>1, <1>2, Lengths DEF midnight

LEMMA MidnightMonotone ==
    ASSUME NEW s \in Nat, NEW t \in Nat, s <= t
    PROVE  midnight(s) <= midnight(t)
<1>1. s \div DayLen \in Nat /\ t \div DayLen \in Nat /\ s \div DayLen <= t \div DayLen
  BY Midnight, DivMonotone, Lengths
<1> QED
  BY <1>1, TimesMono, Lengths DEF midnight

\* A set of natural numbers has a least one, and a greatest if it is bounded.
LEMMA LeastNatural == ASSUME NEW S \in SUBSET Nat, S # {} PROVE \E x \in S : \A y \in S : x <= y
<1>1. PICK x \in S : \A y \in S : <<y, x>> \notin OpToRel(<, Nat)
  BY WFMin, NatLessThanWellFounded
<1>2. \A y \in S : ~(y < x)
  BY <1>1 DEF OpToRel
<1> QED
  BY <1>2

LEMMA LeastOf ==
    ASSUME NEW S \in SUBSET Nat, S # {}
    PROVE  Min(S) \in S /\ \A y \in S : Min(S) <= y
BY LeastNatural DEF Min

LEMMA GreatestOf ==
    ASSUME NEW S \in SUBSET Nat, S # {}, NEW b \in Nat, \A x \in S : x <= b
    PROVE  Max(S) \in S /\ \A y \in S : y <= Max(S)
<1> DEFINE D == {b - x : x \in S}
<1>1. D \in SUBSET Nat /\ D # {}
  <2>1. PICK x \in S : TRUE
    OBVIOUS
  <2>2. b - x \in D
    BY <2>1
  <2>3. \A y \in S : b - y \in Nat
    OBVIOUS
  <2> QED
    BY <2>2, <2>3
<1>2. PICK e \in D : \A y \in D : e <= y
  BY <1>1, LeastNatural
<1>3. PICK x \in S : e = b - x
  BY <1>2
<1>4. \A y \in S : b - y \in D
  OBVIOUS
<1>5. ASSUME NEW y \in S
      PROVE  y <= x
  <2>1. b - y \in D
    BY <1>4, <1>5
  <2>2. b - x <= b - y
    BY <1>2, <1>3, <2>1
  <2>3. x \in Int /\ y \in Int
    OBVIOUS
  <2> HIDE DEF D
  <2> QED
    BY <2>2, <2>3
<1> QED
  BY <1>5 DEF Max

\* The first day of the month of a day.
LEMMA MonthStartOf ==
    ASSUME NEW day \in Nat, NEW e \in MonthStarts, e <= day
    PROVE  /\ MonthStart(day) \in MonthStarts /\ MonthStart(day) \in Nat /\ MonthStart(day) <= day
           /\ \A d \in MonthStarts : d <= day => d <= MonthStart(day)
<1> DEFINE S == {d \in MonthStarts : d <= day}
<1>1. S \in SUBSET Nat /\ S # {} /\ \A x \in S : x <= day
  BY ParameterAssumption
<1>2. Max(S) \in S /\ \A y \in S : y <= Max(S)
  BY <1>1, GreatestOf
<1> QED
  BY <1>1, <1>2 DEF MonthStart

\* Two months began before any time that is observed.
LEMMA MonthsBefore ==
    ASSUME NEW t \in Nat, FirstTick <= t
    PROVE  \E d \in MonthStarts : \E e \in MonthStarts : d < e /\ e <= t \div DayLen
<1>1. PICK d \in MonthStarts, e \in MonthStarts : d < e /\ e * DayLen <= FirstTick
  BY ParameterAssumption
<1>2. e \in Nat
  BY ParameterAssumption
<1>3. e * DayLen \in Nat /\ e * DayLen <= t
  BY <1>1, <1>2, Lengths
<1>4. (e * DayLen) \div DayLen <= t \div DayLen
  BY <1>3, DivMonotone, Lengths
<1>5. (e * DayLen) \div DayLen = e
  <2>1. 0 \in 0 .. DayLen - 1
    BY Lengths
  <2>2. (e * DayLen + 0) \div DayLen = e
    BY <1>2, <2>1, DayOf, Lengths
  <2>3. e * DayLen + 0 = e * DayLen
    BY <1>3
  <2> QED
    BY <2>2, <2>3
<1> QED
  BY <1>1, <1>4, <1>5

-----------------------------------------------------------------------------
(* Invariants.                                                             *)

\* Nothing bears a time to come, a report takes at most a tick, and its window
\* ends before the day it was begun.
Times ==
    /\ clock >= FirstTick
    /\ \A r \in DOMAIN made : made[r] <= clock
    /\ \A c \in DOMAIN calls : calls[c].line <= clock /\ calls[c].row <= clock
    /\ rep.pc # "idle" => /\ rep.begun <= clock
                          /\ rep.window.until < midnight(rep.begun)

\* What is in the log and in the table.
Records ==
    /\ \A c \in stored : ~calls[c].old /\ calls[c].row # None
    /\ \A c, d \in DOMAIN calls : calls[c].old /\ ~calls[d].old => calls[c].line < calls[d].line
    /\ \A c \in DOMAIN calls :
         calls[c].row # None /\ c \notin stored =>
             calls[c].row < clock /\ \A d \in stored : calls[c].row < calls[d].row

Counted == {c \in stored : Within(calls[c].row, rep.window)}
Lines == {c \in log : Within(calls[c].line, [rep.window EXCEPT !.until = logUntil])}

\* What the queries of the count have found still stands.
Counts ==
    rep.calm =>
        /\ rep.pc \in {"first", "log"} => rep.count = Cardinality(Counted)
        /\ rep.pc \in {"log", "overview", "mail"} =>
             IF rep.first = None
             THEN \A c \in stored : calls[c].row >= rep.begun
             ELSE /\ \E c \in stored : calls[c].row = rep.first
                  /\ \A c \in stored : rep.first <= calls[c].row
        /\ rep.pc \in {"overview", "mail"} => rep.count = Cardinality(Counted) + Cardinality(Lines)

\* With m the last midnight at the time of the queries, a window ends before m, or
\* it is the one of the day that began then.
Past(w, m) == w.until < m
Today(w, m) == w.since = m /\ m <= w.until

\* The windows of the past show all their rows, which stay the same; the day of
\* the report is asked for once, and first.
SeenAt(m) ==
    /\ \A s \in rep.seen :
         \/ Past(s.window, m) /\ (~s.failed => s.rows = Rows(s.window))
         \/ Today(s.window, m) /\ s.rows \subseteq {r \in DOMAIN made : Within(made[r], s.window)}
    /\ \A s, u \in rep.seen : Today(s.window, m) /\ Today(u.window, m) => s = u
    /\ \A i \in DOMAIN rep.todo :
         \/ Past(rep.todo[i], m)
         \/ i = 1 /\ Today(rep.todo[1], m) /\ \A s \in rep.seen : Past(s.window, m)
    /\ rep.pc \notin {"overview", "mail"} =>
         /\ \A s \in rep.seen : Past(s.window, m)
         /\ \A i \in DOMAIN rep.todo : Past(rep.todo[i], m)

Seen == rep.pc # "idle" /\ rep.calm => \E m \in 0 .. midnight(clock) : SeenAt(m)

Idle == rep.pc = "idle" => rep = NoReport

\* Since the last report of cron none was due.
Sent ==
    sent.at # None =>
        /\ FirstTick <= sent.at /\ sent.at <= clock
        /\ Due(sent.at)
        /\ sent.until = reportWindow(interval, sent.at).until
        /\ \A t \in sent.at + 1 .. clock - 1 : ~Due(t)

IInv == TypeOK /\ Times /\ Records /\ Counts /\ Idle /\ Seen /\ Sent

-----------------------------------------------------------------------------
(* Windows.                                                                *)

LEMMA LastDaysType ==
    ASSUME NEW n \in Nat, NEW t \in Nat
    PROVE  LastDays(n, t) \in Windows /\ LastDays(n, t).until = midnight(t) - 1
<1>1. midnight(t) \in Nat
  BY Midnight
<1>2. n * DayLen \in Nat
  BY Lengths
<1> QED
  BY <1>1, <1>2 DEF LastDays, Windows

LEMMA DaysType == ASSUME NEW i \in Intervals PROVE Days(i) \in Nat
<1>1. i \in {"daily", "weekly", "biweekly", "monthly"}
  BY ParameterAssumption
<1>2. 2 * WeekLen \in Nat
  BY Lengths
<1> QED
  BY <1>1, <1>2, Lengths DEF Days

\* The window of a report ends before its day begins.
LEMMA WindowIsPast ==
    ASSUME NEW i \in Intervals, NEW t \in Nat, FirstTick <= t
    PROVE  reportWindow(i, t) \in Windows /\ reportWindow(i, t).until < midnight(t)
<1>1. CASE i = "monthly"
  <2> DEFINE first == MonthStart(t \div DayLen)
  <2>1. t \div DayLen \in Nat
    BY Midnight
  <2>2. PICK d \in MonthStarts : \E e \in MonthStarts : d < e /\ e <= t \div DayLen
    BY MonthsBefore
  <2>3. PICK e \in MonthStarts : d < e /\ e <= t \div DayLen
    BY <2>2
  <2>4. first \in Nat /\ first <= t \div DayLen /\ e <= first
    BY <2>1, <2>3, MonthStartOf
  <2>5. d \in Nat /\ e \in Nat
    BY ParameterAssumption
  <2> HIDE DEF first
  <2>6. first - 1 \in Nat /\ d <= first - 1
    BY <2>3, <2>4, <2>5
  <2>7. MonthStart(first - 1) \in Nat
    BY <2>6, MonthStartOf
  <2>8. first * DayLen \in Nat /\ MonthStart(first - 1) * DayLen \in Nat
    BY <2>4, <2>7, Lengths
  <2>9. first * DayLen <= midnight(t)
    BY <2>1, <2>4, TimesMono, Lengths DEF midnight
  <2>10. midnight(t) \in Nat
    BY Midnight
  <2>11. reportWindow(i, t) = [since |-> MonthStart(first - 1) * DayLen, until |-> first * DayLen - 1]
    BY <1>1 DEF reportWindow, first
  <2> QED
    BY <2>8, <2>9, <2>10, <2>11 DEF Windows
<1>2. CASE i # "monthly"
  <2>1. midnight(t) \in Nat
    BY Midnight
  <2> QED
    BY <1>2, <2>1, DaysType, LastDaysType DEF reportWindow
<1> QED
  BY <1>1, <1>2

LEMMA StatsWindowsType ==
    ASSUME NEW w \in Windows, NEW t \in Nat
    PROVE  /\ StatsWindows(w, t) \in Seq(Windows)
           /\ \A i \in DOMAIN StatsWindows(w, t) : StatsWindows(w, t)[i].until = w.until
<1> DEFINE b == IF BusiestRange = 0 THEN w ELSE [w EXCEPT !.since = LastDays(BusiestRange, t).since]
<1>1. LastDays(BusiestRange, t).since \in Int
  BY LastDaysType, Lengths DEF Windows
<1>2. b \in Windows /\ b.until = w.until
  BY <1>1 DEF Windows
<1>3. StatsWindows(w, t) = <<w, w, b>>
  BY DEF StatsWindows
<1> HIDE DEF b
<1> QED
  BY <1>2, <1>3

\* The windows of the overview are past, but for the day itself, asked for first.
LEMMA OverviewType ==
    ASSUME NEW t \in Nat
    PROVE  /\ Overview(t) \in Seq(Windows)
           /\ \A i \in DOMAIN Overview(t) :
                \/ Past(Overview(t)[i], midnight(t))
                \/ i = 1 /\ Today(Overview(t)[1], midnight(t))
<1> DEFINE today == IF t % DayLen = DayLen - 1 THEN <<[since |-> midnight(t), until |-> t]>> ELSE <<>>
           before == [k \in 1 .. 4 |-> LastDays(<<1, WeekLen, 2 * WeekLen, MonthDays>>[k], t)]
<1>1. midnight(t) \in Nat /\ midnight(t) <= t
  BY Midnight
<1>2. /\ today \in Seq(Windows) /\ Len(today) <= 1
      /\ \A i \in 1 .. Len(today) : i = 1 /\ Today(today[1], midnight(t))
  <2>1. CASE today = <<>>
    BY <2>1
  <2>2. CASE today = <<[since |-> midnight(t), until |-> t]>>
    <3> DEFINE w == [since |-> midnight(t), until |-> t]
    <3>1. w \in Windows /\ Today(w, midnight(t))
      BY <1>1 DEF Windows, Today
    <3> HIDE DEF w
    <3>2. today = <<w>>
      BY <2>2 DEF w
    <3> QED
      BY <3>1, <3>2
  <2> QED
    BY <2>1, <2>2
<1>3. /\ before \in Seq(Windows) /\ Len(before) = 4
      /\ \A k \in 1 .. 4 : Past(before[k], midnight(t))
  <2>1. \A k \in 1 .. 4 : <<1, WeekLen, 2 * WeekLen, MonthDays>>[k] \in Nat
    <3>1. 2 * WeekLen \in Nat
      BY Lengths
    <3> QED
      BY <3>1, Lengths
  <2>2. \A k \in 1 .. 4 : before[k] \in Windows /\ before[k].until = midnight(t) - 1
    BY <2>1, LastDaysType
  <2> QED
    BY <1>1, <2>2 DEF Past
<1> HIDE DEF today, before
<1>4. Overview(t) = today \o before
  BY DEF Overview, today, before
<1>5. /\ today \o before \in Seq(Windows) /\ DOMAIN (today \o before) = 1 .. Len(today) + 4
      /\ \A i \in 1 .. Len(today) + 4 :
           (today \o before)[i] = IF i <= Len(today) THEN today[i] ELSE before[i - Len(today)]
  <2>1. /\ today \o before \in Seq(Windows)
        /\ Len(today \o before) = Len(today) + Len(before)
        /\ \A i \in 1 .. Len(today) + Len(before) :
             (today \o before)[i] = IF i <= Len(today) THEN today[i] ELSE before[i - Len(today)]
    BY <1>2, <1>3, ConcatProperties
  <2>2. DOMAIN (today \o before) = 1 .. Len(today \o before)
    BY <2>1
  <2> QED
    BY <1>3, <2>1, <2>2
<1>6. ASSUME NEW i \in 1 .. Len(today) + 4
      PROVE  \/ Past((today \o before)[i], midnight(t))
             \/ i = 1 /\ Today((today \o before)[1], midnight(t))
  <2>1. CASE i <= Len(today)
    <3>1. i \in 1 .. Len(today) /\ i = 1 /\ (today \o before)[1] = today[1]
      BY <1>2, <1>5, <2>1
    <3> QED
      BY <1>2, <3>1
  <2>2. CASE i > Len(today)
    <3>1. i - Len(today) \in 1 .. 4
      BY <1>2, <2>2
    <3>2. (today \o before)[i] = before[i - Len(today)]
      BY <1>2, <1>5, <2>2
    <3>3. Past(before[i - Len(today)], midnight(t))
      BY <1>3, <3>1
    <3> QED
      BY <3>2, <3>3
  <2>3. i \in Int /\ Len(today) \in Int
    BY <1>2
  <2>4. i <= Len(today) \/ i > Len(today)
    BY <2>3
  <2> QED
    BY <2>1, <2>2, <2>4, Zenon
<1> QED
  BY <1>4, <1>5, <1>6

-----------------------------------------------------------------------------
(* Types.                                                                  *)

States == [pc : {"idle", "stats", "count", "first", "log", "overview", "mail"},
           begun : Nat, window : Windows, todo : Seq(Windows),
           seen : SUBSET [window : Windows, failed : BOOLEAN, rows : SUBSET Nat],
           count : Nat, first : Nat \cup {None}, calm : BOOLEAN]

LEMMA DomainsFinite ==
    ASSUME TypeOK
    PROVE  IsFiniteSet(stored) /\ IsFiniteSet(log)
<1>1. DOMAIN calls = 1 .. Len(calls) /\ Len(calls) \in Nat
  BY DEF TypeOK
<1>2. IsFiniteSet(DOMAIN calls)
  BY <1>1, FS_Interval
<1> QED
  BY <1>2, FS_Subset DEF TypeOK

Calls == [line : Nat, row : Nat \cup {None}, old : BOOLEAN]

LEMMA CallType == ASSUME TypeOK, NEW c \in DOMAIN calls PROVE calls[c] \in Calls
<1>1. calls \in Seq(Calls)
  BY DEF TypeOK, Calls
<1>2. DOMAIN calls = 1 .. Len(calls)
  BY <1>1
<1> QED
  BY <1>1, <1>2, ElementOfSeq

LEMMA StoredRows ==
    ASSUME TypeOK, Records
    PROVE  /\ {calls[c].row : c \in stored} \in SUBSET Nat
           /\ stored # {} => {calls[c].row : c \in stored} # {}
<1>1. ASSUME NEW c \in stored PROVE calls[c].row \in Nat
  <2>1. c \in DOMAIN calls
    BY DEF TypeOK
  <2>2. calls[c].row \in Nat \cup {None}
    BY <2>1, CallType DEF Calls
  <2> QED
    BY <2>2 DEF Records
<1> QED
  BY <1>1

LEMMA NoReportType == NoReport \in States
BY EmptySeq DEF NoReport, States, Windows, None

LEMMA DisturbType ==
    ASSUME rep \in States, NEW b \in BOOLEAN, Disturb(b)
    PROVE  rep' \in States
BY DEF Disturb, States

LEMMA BeginType ==
    ASSUME TypeOK, Times, Begin
    PROVE  rep' \in States
<1> DEFINE w == reportWindow(interval, clock)
<1>1. w \in Windows
  BY WindowIsPast DEF TypeOK, Times
<1> HIDE DEF w
<1>2. StatsWindows(w, clock) \in Seq(Windows)
  BY <1>1, StatsWindowsType DEF TypeOK
<1>3. rep' = [NoReport EXCEPT !.pc = "stats", !.begun = clock, !.window = w, !.todo = StatsWindows(w, clock)]
  BY DEF Begin, w
<1> QED
  BY <1>1, <1>2, <1>3, NoReportType DEF States, TypeOK

LEMMA QueryType ==
    ASSUME TypeOK, NEW pc, NEW next \in {"count", "mail"}, NEW failed \in BOOLEAN, Query(pc, next, failed)
    PROVE  rep' \in States
<1>1. rep \in States
  BY DEF TypeOK, States
<1>2. Head(rep.todo) \in Windows /\ Tail(rep.todo) \in Seq(Windows)
  BY <1>1 DEF Query, States
<1>3. Rows(Head(rep.todo)) \in SUBSET Nat
  BY DEF Rows, TypeOK
<1>4. Shown(Head(rep.todo), failed) \in [window : Windows, failed : BOOLEAN, rows : SUBSET Nat]
  BY <1>2, <1>3 DEF Shown
<1> QED
  BY <1>1, <1>2, <1>4 DEF Query, States

LEMMA TypeInductive == TypeOK /\ Times /\ Records /\ [Next]_vars => TypeOK'
<1> SUFFICES ASSUME TypeOK, Times, Records, [Next]_vars PROVE TypeOK'
  OBVIOUS
<1> USE DEF historyVars, abuseVars
<1>1. rep \in States
  BY DEF TypeOK, States
<1> DEFINE Rest == /\ interval \in Intervals /\ clock \in Nat
                   /\ made \in Seq(Nat) /\ writing \cup table \subseteq DOMAIN made
                   /\ calls \in Seq(Calls)
                   /\ log \cup stored \subseteq DOMAIN calls
                   /\ sent \in [at : Nat \cup {None}, until : Int]
<1>2. Rest
  BY DEF TypeOK, Calls
<1>3. rep' \in States /\ Rest' => TypeOK'
  BY DEF TypeOK, States, Calls
<1>4. CASE HistoryBegin
  <2>1. DOMAIN Append(made, clock) = 1 .. Len(made) + 1 /\ Append(made, clock) \in Seq(Nat)
    BY <1>2
  <2>2. DOMAIN made = 1 .. Len(made) /\ Len(made) \in Nat
    BY <1>2
  <2> QED
    BY <1>1, <1>2, <1>3, <1>4, <2>1, <2>2 DEF HistoryBegin
<1>5. ASSUME NEW r \in 1 .. MaxEvents[interval], HistoryInsert(r) PROVE TypeOK'
  <2>1. rep' \in States
    BY <1>1, <1>5, DisturbType DEF HistoryInsert
  <2> QED
    BY <1>2, <1>3, <1>5, <2>1 DEF HistoryInsert
<1>6. ASSUME NEW old \in BOOLEAN, AbuseReported(old) PROVE TypeOK'
  <2> DEFINE c == [line |-> clock, row |-> None, old |-> old]
  <2>1. c \in Calls
    BY <1>2 DEF Calls
  <2> HIDE DEF c
  <2>2. DOMAIN Append(calls, c) = 1 .. Len(calls) + 1
        /\ Append(calls, c) \in Seq(Calls)
    BY <1>2, <2>1
  <2>3. DOMAIN calls = 1 .. Len(calls) /\ Len(calls) \in Nat
    BY <1>2
  <2>4. calls' = Append(calls, c)
    BY <1>6 DEF AbuseReported, c
  <2> QED
    BY <1>1, <1>2, <1>3, <1>6, <2>2, <2>3, <2>4 DEF AbuseReported
<1>7. ASSUME NEW c \in 1 .. MaxEvents[interval], AbuseRecorded(c) PROVE TypeOK'
  <2>1. calls' = [calls EXCEPT ![c].row = clock] /\ c \in DOMAIN calls
    BY <1>7 DEF AbuseRecorded
  <2> DEFINE d == [calls[c] EXCEPT !.row = clock]
  <2>2. calls[c] \in Calls
    BY <2>1, CallType
  <2>3. d \in Calls
    BY <1>2, <2>2 DEF Calls
  <2>4. calls' = [calls EXCEPT ![c] = d]
    BY <2>1
  <2> HIDE DEF d
  <2>5. /\ calls' \in Seq(Calls)
        /\ DOMAIN calls' = DOMAIN calls
    <3>1. calls \in Seq(Calls) /\ c \in 1 .. Len(calls)
      BY <1>2, <2>1
    <3> QED
      BY ONLY <2>3, <2>4, <3>1, ExceptSeq
  <2> QED
    BY <1>1, <1>2, <1>3, <1>7, <2>1, <2>5 DEF AbuseRecorded
<1>8. CASE Rotate
  <2>1. rep' \in States
    BY <1>1, <1>8, DisturbType DEF Rotate
  <2> QED
    BY <1>2, <1>3, <1>8, <2>1 DEF Rotate
<1>9. CASE PruneHistory
  <2>1. rep' \in States
    BY <1>1, <1>9, DisturbType DEF PruneHistory
  <2> QED
    BY <1>2, <1>3, <1>9, <2>1 DEF PruneHistory
<1>10. CASE CronFires
  <2>1. rep' \in States
    BY <1>10, BeginType DEF CronFires
  <2>2. rep'.window.until \in Int
    BY <2>1 DEF States, Windows
  <2> QED
    BY <1>2, <1>3, <1>10, <2>1, <2>2 DEF CronFires
<1>11. CASE Generate
  <2>1. rep' \in States
    BY <1>11, BeginType DEF Generate
  <2> QED
    BY <1>2, <1>3, <1>11, <2>1 DEF Generate
<1>12. CASE StatsQuery \/ OverviewQuery
  <2>1. rep' \in States /\ UNCHANGED <<interval, clock, made, writing, table, calls, log, stored, sent>>
    BY <1>12, QueryType DEF StatsQuery, OverviewQuery, Query
  <2> QED
    BY <1>2, <1>3, <2>1
<1>13. CASE AbuseCount
  <2> DEFINE S == {c \in stored : Within(calls[c].row, rep.window)}
  <2>1. Cardinality(S) \in Nat
    BY DomainsFinite, FS_Subset, FS_CardinalityType
  <2> HIDE DEF S
  <2>2. rep' = [rep EXCEPT !.pc = "first", !.count = Cardinality(S)]
    BY <1>13 DEF AbuseCount, S
  <2>3. rep' \in States
    BY <1>1, <2>1, <2>2 DEF States
  <2> QED
    BY <1>2, <1>3, <1>13, <2>3 DEF AbuseCount
<1>14. CASE AbuseFirst
  <2> DEFINE S == {calls[c].row : c \in stored}
  <2>1. S \in SUBSET Nat /\ (stored # {} => S # {})
    BY StoredRows
  <2>2. stored # {} => Min(S) \in Nat
    BY <2>1, LeastOf
  <2> HIDE DEF S
  <2> DEFINE v == IF stored = {} THEN None ELSE Min(S)
  <2>3. v \in Nat \cup {None}
    BY <2>2
  <2>4. rep' = [rep EXCEPT !.pc = "log", !.first = v]
    BY <1>14 DEF AbuseFirst, S
  <2> HIDE DEF v
  <2>5. rep' \in States
    <3>1. ASSUME NEW x \in Nat \cup {None} PROVE [rep EXCEPT !.pc = "log", !.first = x] \in States
      BY <1>1 DEF States
    <3> QED
      BY <2>4, <2>3, <3>1, Zenon
  <2> QED
    BY <1>2, <1>3, <1>14, <2>5 DEF AbuseFirst
<1>15. CASE AbuseLog
  <2> DEFINE L == {c \in log : Within(calls[c].line, [rep.window EXCEPT !.until = logUntil])}
  <2>1. Cardinality(L) \in Nat
    BY DomainsFinite, FS_Subset, FS_CardinalityType
  <2> HIDE DEF L
  <2>2. rep' = [rep EXCEPT !.pc = "overview", !.count = @ + Cardinality(L), !.todo = Overview(clock)]
    BY <1>15 DEF AbuseLog, L
  <2>3. Overview(clock) \in Seq(Windows)
    BY <1>2, OverviewType
  <2>4. rep' \in States
    <3>1. ASSUME NEW n \in Nat, NEW q \in Seq(Windows)
          PROVE  [rep EXCEPT !.pc = "overview", !.count = n, !.todo = q] \in States
      BY <1>1 DEF States
    <3>2. rep.count + Cardinality(L) \in Nat
      BY <1>1, <2>1 DEF States
    <3>3. rep' = [rep EXCEPT !.pc = "overview", !.count = rep.count + Cardinality(L), !.todo = Overview(clock)]
      BY <2>2
    <3> QED
      BY <2>3, <3>1, <3>2, <3>3, Zenon
  <2> QED
    BY <1>2, <1>3, <1>15, <2>4 DEF AbuseLog
<1>16. CASE Mail \/ QueryFails
  <2>1. rep' \in States
    BY <1>16, NoReportType DEF Mail, QueryFails, End
  <2>2. NotSent \in [at : Nat \cup {None}, until : Int]
    BY DEF NotSent, None
  <2> QED
    BY <1>2, <1>3, <1>16, <2>1, <2>2 DEF Mail, QueryFails, End
<1>19. CASE LogUnread
  <2>1. Overview(clock) \in Seq(Windows)
    BY <1>2, OverviewType
  <2>2. rep' \in States
    BY <1>1, <1>19, <2>1 DEF LogUnread, States
  <2> QED
    BY <1>2, <1>3, <1>19, <2>2 DEF LogUnread
<1>17. CASE Tick
  <2>1. NotSent \in [at : Nat \cup {None}, until : Int]
    BY DEF NotSent, None
  <2>2. clock' \in Nat /\ sent' \in [at : Nat \cup {None}, until : Int]
    BY <1>2, <1>17, <2>1 DEF Tick
  <2> QED
    BY <1>1, <1>2, <1>3, <1>17, <2>2 DEF Tick
<1>18. CASE UNCHANGED vars
  BY <1>1, <1>2, <1>3, <1>18 DEF vars
<1> QED
  BY <1>4, <1>5, <1>6, <1>7, <1>8, <1>9, <1>10, <1>11, <1>12, <1>13, <1>14, <1>15, <1>16, <1>17, <1>18, <1>19
     DEF Next

-----------------------------------------------------------------------------
(* Times and records.                                                      *)

\* A report keeps its beginning and its window until it is mailed.
LEMMA ReportKept ==
    ASSUME TypeOK, [Next]_vars
    PROVE  \/ Begin /\ clock' = clock
           \/ rep' = NoReport
           \/ /\ rep'.pc # "idle" => rep.pc # "idle"
              /\ rep'.begun = rep.begun /\ rep'.window = rep.window
<1>1. rep \in States
  BY DEF TypeOK, States
<1>2. \/ Begin /\ clock' = clock
      \/ rep' = NoReport
      \/ rep' = rep
      \/ \E b \in BOOLEAN : Disturb(b)
      \/ Query("stats", "count", FALSE) \/ OverviewQuery
      \/ AbuseCount \/ AbuseFirst \/ AbuseLog \/ LogUnread
  BY DEF Next, HistoryBegin, HistoryInsert, AbuseReported, AbuseRecorded, Rotate, PruneHistory,
         CronFires, Generate, StatsQuery, OverviewQuery,
         LogUnread, Mail, QueryFails, End, Tick, vars
<1>3. ASSUME NEW b \in BOOLEAN, Disturb(b)
      PROVE  rep'.pc = rep.pc /\ rep'.begun = rep.begun /\ rep'.window = rep.window
  BY <1>1, <1>3 DEF Disturb, States
<1>4. ASSUME Query("stats", "count", FALSE) \/ OverviewQuery \/ AbuseCount \/ AbuseFirst \/ AbuseLog \/ LogUnread
      PROVE  rep.pc # "idle" /\ rep'.begun = rep.begun /\ rep'.window = rep.window
  BY <1>1, <1>4 DEF OverviewQuery, Query, AbuseCount, AbuseFirst, AbuseLog, LogUnread, States
<1> QED
  BY <1>2, <1>3, <1>4

\* What the steps do to the calls.
LEMMA CallsKept ==
    ASSUME TypeOK, [Next]_vars
    PROVE  \/ UNCHANGED <<calls, stored>> /\ clock' \in {clock, clock + 1}
           \/ \E old \in BOOLEAN : AbuseReported(old)
           \/ \E c \in 1 .. MaxEvents[interval] : AbuseRecorded(c)
           \/ PruneHistory
BY DEF Next, HistoryBegin, HistoryInsert, Rotate, CronFires, Generate, StatsQuery, OverviewQuery,
       Query, AbuseCount, AbuseFirst, AbuseLog, LogUnread, Mail, QueryFails, End, Tick, vars,
       historyVars, abuseVars

\* The new call comes last, without a row.
LEMMA ReportedCalls ==
    ASSUME TypeOK, NEW old \in BOOLEAN, AbuseReported(old)
    PROVE  /\ Len(calls) \in Nat /\ DOMAIN calls = 1 .. Len(calls)
           /\ DOMAIN calls' = 1 .. Len(calls) + 1
           /\ \A c \in DOMAIN calls : calls'[c] = calls[c]
           /\ calls'[Len(calls) + 1] = [line |-> clock, row |-> None, old |-> old]
<1> DEFINE d == [line |-> clock, row |-> None, old |-> old]
<1>1. calls \in Seq(Calls) /\ d \in Calls
  BY DEF TypeOK, Calls
<1>2. calls' = Append(calls, d)
  BY DEF AbuseReported
<1> HIDE DEF d
<1>3. /\ Len(calls) \in Nat /\ DOMAIN calls = 1 .. Len(calls)
      /\ DOMAIN calls' = 1 .. Len(calls) + 1
      /\ \A c \in DOMAIN calls : calls'[c] = calls[c]
      /\ calls'[Len(calls) + 1] = d
  BY <1>1, <1>2
<1> QED
  BY <1>3 DEF d

\* A call gets its row and changes in nothing else.
LEMMA RecordedCalls ==
    ASSUME TypeOK, NEW c, AbuseRecorded(c)
    PROVE  /\ DOMAIN calls' = DOMAIN calls /\ c \in DOMAIN calls
           /\ calls'[c].line = calls[c].line /\ calls'[c].old = calls[c].old /\ calls'[c].row = clock
           /\ \A d \in DOMAIN calls : d # c => calls'[d] = calls[d]
<1>1. c \in DOMAIN calls /\ calls' = [calls EXCEPT ![c].row = clock] /\ calls[c] \in Calls
  BY CallType DEF AbuseRecorded
<1>2. calls' = [calls EXCEPT ![c] = [calls[c] EXCEPT !.row = clock]]
  BY <1>1
<1>3. calls'[c] = [calls[c] EXCEPT !.row = clock]
  BY <1>1, <1>2
<1> QED
  BY <1>1, <1>2, <1>3 DEF Calls

LEMMA TimesInductive == TypeOK /\ Times /\ [Next]_vars => Times'
<1> SUFFICES ASSUME TypeOK, Times, [Next]_vars PROVE Times'
  OBVIOUS
<1> USE DEF historyVars, abuseVars
<1>1. clock \in Nat /\ clock' \in {clock, clock + 1} /\ FirstTick \in Nat
  BY Lengths DEF Next, HistoryBegin, HistoryInsert, AbuseReported, AbuseRecorded, Rotate, PruneHistory,
         CronFires, Generate, StatsQuery, OverviewQuery, Query, AbuseCount, AbuseFirst, AbuseLog, LogUnread,
         Mail, QueryFails, End, Tick, vars, TypeOK
<1>2. clock' >= FirstTick /\ clock <= clock'
  BY <1>1 DEF Times
<1>3. \A r \in DOMAIN made' : made'[r] <= clock'
  <2>1. /\ made \in Seq(Nat) /\ Len(made) \in Nat /\ DOMAIN made = 1 .. Len(made)
        /\ \A r \in DOMAIN made : made[r] \in Nat /\ made[r] <= clock
    BY DEF TypeOK, Times
  <2>2. made' = made \/ made' = Append(made, clock)
    BY DEF Next, HistoryBegin, HistoryInsert, AbuseReported, AbuseRecorded, Rotate, PruneHistory,
           CronFires, Generate, StatsQuery, OverviewQuery, Query, AbuseCount, AbuseFirst, AbuseLog, LogUnread,
           Mail, QueryFails, End, Tick, vars
  <2>3. \A r \in DOMAIN made' : made'[r] \in Nat /\ made'[r] <= clock
    <3>1. CASE made' = made
      BY <2>1, <3>1
    <3>2. CASE made' = Append(made, clock)
      <4>1. /\ DOMAIN made' = 1 .. Len(made) + 1
            /\ \A r \in 1 .. Len(made) : made'[r] = made[r]
            /\ made'[Len(made) + 1] = clock
        BY <1>1, <2>1, <3>2
      <4> QED
        BY <1>1, <2>1, <4>1
    <3> QED
      BY <2>2, <3>1, <3>2
  <2> QED
    BY <1>1, <1>2, <2>3
<1>4. \A c \in DOMAIN calls' : calls'[c].line <= clock' /\ calls'[c].row <= clock'
  <2>1. \A c \in DOMAIN calls : /\ calls[c].line \in Nat /\ calls[c].row \in Int
                                /\ calls[c].line <= clock /\ calls[c].row <= clock
    BY CallType DEF Times, Calls, None
  <2>2. CASE UNCHANGED calls
    BY <1>1, <1>2, <2>1, <2>2
  <2>3. ASSUME NEW old \in BOOLEAN, AbuseReported(old)
        PROVE  \A c \in DOMAIN calls' : calls'[c].line <= clock' /\ calls'[c].row <= clock'
    <3>1. /\ Len(calls) \in Nat /\ DOMAIN calls = 1 .. Len(calls)
          /\ DOMAIN calls' = 1 .. Len(calls) + 1
          /\ \A c \in DOMAIN calls : calls'[c] = calls[c]
          /\ calls'[Len(calls) + 1] = [line |-> clock, row |-> None, old |-> old]
      BY <2>3, ReportedCalls
    <3>2. \A c \in DOMAIN calls' : c = Len(calls) + 1 \/ c \in DOMAIN calls
      BY <3>1
    <3> QED
      BY <1>1, <1>2, <2>1, <3>1, <3>2 DEF None
  <2>4. ASSUME NEW d \in 1 .. MaxEvents[interval], AbuseRecorded(d)
        PROVE  \A c \in DOMAIN calls' : calls'[c].line <= clock' /\ calls'[c].row <= clock'
    BY <1>1, <1>2, <2>1, <2>4, RecordedCalls
  <2>5. PruneHistory => UNCHANGED calls
    BY DEF PruneHistory
  <2> QED
    BY <2>2, <2>3, <2>4, <2>5, CallsKept
<1>5. rep'.pc # "idle" => rep'.begun <= clock' /\ rep'.window.until < midnight(rep'.begun)
  <2>1. CASE Begin
    <3>1. rep'.begun = clock /\ rep'.window = reportWindow(interval, clock)
      BY <2>1, NoReportType DEF Begin, States
    <3>2. rep'.window.until < midnight(clock)
      BY <1>1, <3>1, WindowIsPast DEF TypeOK, Times
    <3> QED
      BY <1>2, <3>1, <3>2
  <2>2. CASE rep' = NoReport
    BY <2>2 DEF NoReport
  <2>3. CASE /\ rep'.pc # "idle" => rep.pc # "idle"
             /\ rep'.begun = rep.begun /\ rep'.window = rep.window
    <3>1. rep.begun \in Nat
      BY DEF TypeOK
    <3> QED
      BY <1>1, <2>3, <3>1 DEF Times
  <2> QED
    BY <2>1, <2>2, <2>3, ReportKept
<1>6. midnight(rep'.begun) = midnight(rep.begun)'
  BY DEF midnight
<1> QED
  BY <1>2, <1>3, <1>4, <1>5, <1>6 DEF Times

\* Deleting takes the oldest.
LEMMA PruneKeepsRecords ==
    ASSUME TypeOK, Times, Records, PruneHistory
    PROVE  Records'
<1> DEFINE before == clock - Retention * DayLen
<1>1. Retention \in Nat \ {0} /\ DayLen \in Nat \ {0} /\ clock \in Nat
  BY Lengths DEF PruneHistory, TypeOK
<1>2. 1 * DayLen <= Retention * DayLen
  BY <1>1, TimesMono
<1>3. before \in Int /\ before < clock
  BY <1>1, <1>2
<1> HIDE DEF before
<1>4. /\ stored' = stored \ {c \in stored : calls[c].row < before}
      /\ calls' = calls /\ clock' = clock
  BY DEF PruneHistory, before
<1>5. \A c \in DOMAIN calls : calls[c].row \in Int
  BY CallType DEF Calls, None
<1>6. stored \subseteq DOMAIN calls
  BY DEF TypeOK
<1> QED
  BY <1>1, <1>3, <1>4, <1>5, <1>6 DEF Records

LEMMA RecordsInductive == TypeOK /\ Times /\ Records /\ [Next]_vars => Records'
<1> SUFFICES ASSUME TypeOK, Times, Records, [Next]_vars PROVE Records'
  OBVIOUS
<1> USE DEF historyVars, abuseVars
<1>1. /\ clock \in Nat /\ stored \subseteq DOMAIN calls
      /\ \A c \in DOMAIN calls : /\ calls[c].line \in Nat /\ calls[c].row \in Int /\ calls[c].old \in BOOLEAN
                                 /\ calls[c].line <= clock /\ calls[c].row <= clock
  BY CallType DEF TypeOK, Times, Calls, None
<1>2. CASE UNCHANGED <<calls, stored>> /\ clock' \in {clock, clock + 1}
  BY <1>1, <1>2 DEF Records
<1>3. ASSUME NEW old \in BOOLEAN, AbuseReported(old) PROVE Records'
  <2>1. stored' = stored /\ clock' = clock
    BY <1>3 DEF AbuseReported
  <2>2. \A c \in DOMAIN calls : IF old THEN calls[c].old ELSE calls[c].old => calls[c].line < clock
    BY <1>3 DEF AbuseReported
  <2> DEFINE n == Len(calls) + 1
  <2>3. /\ DOMAIN calls' = DOMAIN calls \cup {n} /\ n \notin DOMAIN calls
        /\ \A c \in DOMAIN calls : calls'[c] = calls[c]
        /\ calls'[n].line = clock /\ calls'[n].row = None /\ calls'[n].old = old
    <3>1. /\ Len(calls) \in Nat /\ DOMAIN calls = 1 .. Len(calls)
          /\ DOMAIN calls' = 1 .. Len(calls) + 1
          /\ \A c \in DOMAIN calls : calls'[c] = calls[c]
          /\ calls'[n] = [line |-> clock, row |-> None, old |-> old]
      BY <1>3, ReportedCalls
    <3> QED
      BY <3>1
  <2> HIDE DEF n
  <2>4. \A c \in stored : calls'[c] = calls[c]
    BY <1>1, <2>3
  <2>5. \A c, d \in DOMAIN calls' : calls'[c].old /\ ~calls'[d].old => calls'[c].line < calls'[d].line
    BY <1>1, <2>2, <2>3 DEF Records
  <2> QED
    BY <1>1, <2>1, <2>3, <2>4, <2>5 DEF Records
<1>4. ASSUME NEW c \in 1 .. MaxEvents[interval], AbuseRecorded(c) PROVE Records'
  <2>1. stored' = stored \cup {c} /\ clock' = clock /\ calls[c].row = None /\ ~calls[c].old
    BY <1>4 DEF AbuseRecorded
  <2>2. clock # None
    BY <1>1 DEF None
  <2>3. \A d \in DOMAIN calls : calls'[d].line = calls[d].line /\ calls'[d].old = calls[d].old
    BY <1>4, RecordedCalls
  <2>4. \A d \in DOMAIN calls : calls'[d].row = IF d = c THEN clock ELSE calls[d].row
    BY <1>4, RecordedCalls
  <2>5. DOMAIN calls' = DOMAIN calls /\ c \in DOMAIN calls
    BY <1>4, RecordedCalls
  <2>6. c \notin stored
    BY <2>1 DEF Records
  <2>7. \A d \in stored' : ~calls'[d].old /\ calls'[d].row # None
    BY <1>1, <2>1, <2>2, <2>3, <2>4, <2>5 DEF Records
  <2>8. \A a, d \in DOMAIN calls' : calls'[a].old /\ ~calls'[d].old => calls'[a].line < calls'[d].line
    BY <2>3, <2>5 DEF Records
  <2>9. ASSUME NEW a \in DOMAIN calls, calls'[a].row # None, a \notin stored'
        PROVE  calls'[a].row < clock /\ \A d \in stored' : calls'[a].row < calls'[d].row
    <3>1. a # c /\ calls'[a].row = calls[a].row /\ a \notin stored
      BY <2>1, <2>4, <2>9
    <3>2. calls[a].row < clock /\ \A d \in stored : calls[a].row < calls[d].row
      BY <2>9, <3>1 DEF Records
    <3>3. \A d \in stored : calls'[d].row = calls[d].row
      BY <1>1, <2>4, <2>6
    <3>4. calls'[c].row = clock
      BY <2>4, <2>5
    <3> QED
      BY <2>1, <3>1, <3>2, <3>3, <3>4
  <2> QED
    BY <2>1, <2>5, <2>7, <2>8, <2>9 DEF Records
<1> QED
  BY <1>2, <1>3, <1>4, CallsKept, PruneKeepsRecords

-----------------------------------------------------------------------------
(* The count of the reports to AbuseIPDB.                                  *)

LEMMA RepType ==
    ASSUME TypeOK
    PROVE  /\ rep \in States
           /\ rep.window.since \in Int /\ rep.window.until \in Int
           /\ rep.begun \in Nat /\ rep.first \in Int
BY DEF TypeOK, States, Windows, None

\* The lines are taken up to the end of the window at most.
LEMMA LogUntilBound ==
    ASSUME TypeOK
    PROVE  logUntil \in Int /\ logUntil <= rep.window.until
BY RepType DEF logUntil

LEMMA LinesIs ==
    ASSUME TypeOK
    PROVE  Lines = {c \in log : rep.window.since <= calls[c].line /\ calls[c].line <= logUntil}
<1>1. /\ [rep.window EXCEPT !.until = logUntil].since = rep.window.since
      /\ [rep.window EXCEPT !.until = logUntil].until = logUntil
  BY RepType DEF States, Windows
<1> QED
  BY <1>1 DEF Lines, Within

LEMMA IdleInductive == TypeOK /\ Idle /\ [Next]_vars => Idle'
<1> SUFFICES ASSUME TypeOK, Idle, [Next]_vars PROVE Idle'
  OBVIOUS
<1>1. rep \in States
  BY RepType
<1>2. ASSUME Query("stats", "count", FALSE) \/ OverviewQuery PROVE rep'.pc # "idle"
  BY <1>1, <1>2 DEF OverviewQuery, Query, States
<1>3. ASSUME AbuseCount \/ AbuseFirst \/ AbuseLog \/ LogUnread PROVE rep'.pc # "idle"
  BY <1>1, <1>3 DEF AbuseCount, AbuseFirst, AbuseLog, LogUnread, States
<1>4. ASSUME Begin PROVE rep'.pc # "idle"
  BY <1>4, NoReportType DEF Begin, States
<1>5. ASSUME NEW b \in BOOLEAN, Disturb(b), b => rep.pc # "idle" PROVE Idle'
  BY <1>1, <1>5 DEF Disturb, States, Idle
<1>6. \/ Query("stats", "count", FALSE) \/ OverviewQuery \/ AbuseCount \/ AbuseFirst \/ AbuseLog
      \/ LogUnread \/ Begin
      \/ \E b \in BOOLEAN : Disturb(b) /\ (b => rep.pc # "idle")
      \/ rep' = rep \/ rep' = NoReport
  BY DEF Next, HistoryBegin, HistoryInsert, AbuseReported, AbuseRecorded, Rotate, PruneHistory,
         CronFires, Generate, StatsQuery, OverviewQuery,
         LogUnread, Mail, QueryFails, End, Tick, vars
<1> QED
  BY <1>2, <1>3, <1>4, <1>5, <1>6 DEF Idle

\* What a call adds lies after the window of a report in progress.
LEMMA AfterWindow ==
    ASSUME TypeOK, Times, rep.pc # "idle"
    PROVE  rep.window.until < clock /\ rep.begun <= clock
<1>1. midnight(rep.begun) \in Nat /\ midnight(rep.begun) <= rep.begun
  BY RepType, Midnight
<1> QED
  BY <1>1, RepType DEF Times, TypeOK

\* The daemon reports: one more line, after the window.
LEMMA ReportedKeepsCounts ==
    ASSUME TypeOK, Times, Counts, NEW old \in BOOLEAN, AbuseReported(old)
    PROVE  Counts'
<1> DEFINE n == Len(calls) + 1
           w == [rep.window EXCEPT !.until = logUntil]
<1>1. stored' = stored /\ rep' = rep /\ log' = log \cup {n}
  BY DEF AbuseReported
<1>2. stored \subseteq DOMAIN calls /\ log \subseteq DOMAIN calls
  BY DEF TypeOK
<1>3. /\ \A c \in DOMAIN calls : calls'[c] = calls[c]
      /\ n \notin DOMAIN calls
      /\ calls'[n].line = clock
  <2>1. /\ Len(calls) \in Nat /\ DOMAIN calls = 1 .. Len(calls)
        /\ \A c \in DOMAIN calls : calls'[c] = calls[c]
        /\ calls'[n] = [line |-> clock, row |-> None, old |-> old]
    BY ReportedCalls
  <2> QED
    BY <2>1
<1> HIDE DEF n
<1>4. Counted' = Counted
  BY <1>1, <1>2, <1>3 DEF Counted
<1>5. rep.pc # "idle" => Lines' = Lines
  <2> SUFFICES ASSUME rep.pc # "idle" PROVE Lines' = Lines
    OBVIOUS
  <2>1. logUntil' = logUntil
    BY <1>1 DEF logUntil
  <2>2. Lines' = {c \in log' : Within(calls'[c].line, w)} /\ Lines = {c \in log : Within(calls[c].line, w)}
    BY <1>1, <2>1 DEF Lines, Within
  <2>3. w.until < clock
    BY RepType, LogUntilBound, AfterWindow DEF States, Windows, TypeOK
  <2>4. w.until \in Int /\ clock \in Int
    BY RepType, LogUntilBound DEF States, Windows, TypeOK
  <2> HIDE DEF w
  <2>5. ~Within(clock, w)
    BY <2>3, <2>4 DEF Within
  <2> QED
    BY <1>1, <1>2, <1>3, <2>2, <2>5
<1>6. \A c \in stored : calls'[c].row = calls[c].row
  BY <1>2, <1>3
<1> QED
  BY <1>1, <1>4, <1>5, <1>6 DEF Counts

\* The daemon stores a row: it lies after the window and after every other row.
LEMMA RecordedKeepsCounts ==
    ASSUME TypeOK, Times, Records, Counts, NEW c \in 1 .. MaxEvents[interval], AbuseRecorded(c)
    PROVE  Counts'
<1> DEFINE w == rep.window
<1>1. stored' = stored \cup {c} /\ rep' = rep /\ log' = log /\ c \notin stored
  BY DEF AbuseRecorded, Records
<1>2. /\ DOMAIN calls' = DOMAIN calls /\ c \in DOMAIN calls
      /\ \A d \in DOMAIN calls : /\ calls'[d].line = calls[d].line
                                 /\ calls'[d].row = IF d = c THEN clock ELSE calls[d].row
  BY RecordedCalls
<1>3. stored \subseteq DOMAIN calls /\ log \subseteq DOMAIN calls /\ clock \in Nat
  BY DEF TypeOK
<1>4. \A d \in stored : calls[d].row \in Int /\ calls[d].row <= clock
  <2>1. \A d \in DOMAIN calls : calls[d].row \in Int
    BY CallType DEF Calls, None
  <2> QED
    BY <1>3, <2>1 DEF Times
<1>5. Lines' = Lines
  <2>1. logUntil' = logUntil
    BY <1>1 DEF logUntil
  <2> QED
    BY <1>1, <1>2, <1>3, <2>1 DEF Lines
<1>6. rep.pc # "idle" => Counted' = Counted
  <2> SUFFICES ASSUME rep.pc # "idle" PROVE Counted' = Counted
    OBVIOUS
  <2>1. ~Within(clock, w)
    BY <1>3, RepType, AfterWindow DEF Within
  <2>2. Counted' = {d \in stored' : Within(calls'[d].row, w)} /\ Counted = {d \in stored : Within(calls[d].row, w)}
    BY <1>1 DEF Counted, Within
  <2> HIDE DEF w
  <2> QED
    BY <1>1, <1>2, <1>3, <2>1, <2>2
<1>7. rep.calm /\ rep.pc \in {"log", "overview", "mail"} =>
        IF rep.first = None
        THEN \A d \in stored' : calls'[d].row >= rep.begun
        ELSE /\ \E d \in stored' : calls'[d].row = rep.first
             /\ \A d \in stored' : rep.first <= calls'[d].row
  <2> SUFFICES ASSUME rep.calm, rep.pc \in {"log", "overview", "mail"}
               PROVE  IF rep.first = None
                      THEN \A d \in stored' : calls'[d].row >= rep.begun
                      ELSE /\ \E d \in stored' : calls'[d].row = rep.first
                           /\ \A d \in stored' : rep.first <= calls'[d].row
    OBVIOUS
  <2>1. rep.begun <= clock
    BY AfterWindow
  <2>2. \A d \in stored : calls'[d].row = calls[d].row
    BY <1>1, <1>2, <1>3
  <2>3. calls'[c].row = clock
    BY <1>2
  <2>4. CASE rep.first = None
    <3>1. \A d \in stored : calls[d].row >= rep.begun
      BY <2>4 DEF Counts
    <3> QED
      BY <1>1, <1>3, <2>1, <2>2, <2>3, <2>4, <3>1
  <2>5. CASE rep.first # None
    <3>1. PICK e \in stored : calls[e].row = rep.first
      BY <2>5 DEF Counts
    <3>2. \A d \in stored : rep.first <= calls[d].row
      BY <2>5 DEF Counts
    <3>3. rep.first <= clock
      BY <1>4, <3>1
    <3> QED
      BY <1>1, <2>2, <2>3, <2>5, <3>1, <3>2, <3>3
  <2> QED
    BY <2>4, <2>5
<1> QED
  BY <1>1, <1>5, <1>6, <1>7 DEF Counts

\* The queries of the count.
LEMMA QueriesKeepCounts ==
    ASSUME TypeOK, Times, Records, Counts, AbuseCount \/ AbuseFirst \/ AbuseLog
    PROVE  Counts'
<1> USE DEF historyVars, abuseVars
<1>1. rep \in States
  BY RepType
<1>2. stored' = stored /\ calls' = calls /\ log' = log
  BY DEF AbuseCount, AbuseFirst, AbuseLog
<1>3. rep'.window = rep.window /\ rep'.calm = rep.calm /\ rep'.begun = rep.begun
  BY <1>1 DEF AbuseCount, AbuseFirst, AbuseLog, States
<1>4. Counted' = Counted
  BY <1>2, <1>3 DEF Counted
<1>5. CASE AbuseCount
  <2>1. rep' = [rep EXCEPT !.pc = "first", !.count = Cardinality(Counted)]
    BY <1>5 DEF AbuseCount, Counted
  <2>2. rep'.pc = "first" /\ rep'.count = Cardinality(Counted)
    BY <1>1, <2>1 DEF States
  <2> QED
    BY <1>4, <2>2 DEF Counts
<1>6. CASE AbuseFirst
  <2> DEFINE S == {calls[c].row : c \in stored}
  <2>1. S \in SUBSET Nat /\ (stored # {} => S # {})
    BY StoredRows
  <2>2. stored # {} => Min(S) \in S /\ \A y \in S : Min(S) <= y
    BY <2>1, LeastOf
  <2>3. rep'.pc = "log" /\ rep'.count = rep.count /\ rep'.first = IF stored = {} THEN None ELSE Min(S)
    BY <1>1, <1>6 DEF AbuseFirst, States
  <2>4. rep.calm => rep'.count = Cardinality(Counted)
    BY <1>6, <2>3 DEF Counts, AbuseFirst
  <2>5. CASE stored = {}
    BY <1>2, <1>4, <2>3, <2>4, <2>5, <1>3 DEF Counts
  <2>6. CASE stored # {}
    <3>1. rep'.first = Min(S) /\ Min(S) \in Nat
      BY <2>1, <2>2, <2>3, <2>6
    <3>2. rep'.first # None
      BY <3>1 DEF None
    <3>3. (\E c \in stored : calls[c].row = rep'.first) /\ \A c \in stored : rep'.first <= calls[c].row
      BY <2>2, <2>6, <3>1
    <3> QED
      BY <1>2, <1>3, <1>4, <2>3, <2>4, <3>2, <3>3 DEF Counts
  <2> QED
    BY <2>5, <2>6
<1>7. CASE AbuseLog
  <2>1. rep' = [rep EXCEPT !.pc = "overview", !.count = @ + Cardinality(Lines), !.todo = Overview(clock)]
    BY <1>7 DEF AbuseLog, Lines
  <2>2. rep'.pc = "overview" /\ rep'.count = rep.count + Cardinality(Lines) /\ rep'.first = rep.first
    BY <1>1, <2>1 DEF States
  <2>3. Lines' = Lines
    <3>1. logUntil' = logUntil
      BY <1>3, <2>2 DEF logUntil
    <3> QED
      BY <1>2, <1>3, <3>1 DEF Lines
  <2>4. rep.pc = "log"
    BY <1>7 DEF AbuseLog
  <2> QED
    BY <1>2, <1>3, <1>4, <2>2, <2>3, <2>4 DEF Counts
<1> QED
  BY <1>5, <1>6, <1>7

LEMMA CountsInductive == TypeOK /\ Times /\ Records /\ Counts /\ Idle /\ [Next]_vars => Counts'
<1> SUFFICES ASSUME TypeOK, Times, Records, Counts, Idle, [Next]_vars PROVE Counts'
  OBVIOUS
<1> USE DEF historyVars, abuseVars
<1>1. rep \in States
  BY RepType
<1>2. CASE Begin
  <2>1. rep'.pc = "stats"
    BY <1>2, NoReportType DEF Begin, States
  <2> QED
    BY <2>1 DEF Counts
<1>3. CASE rep' = NoReport
  <2>1. rep'.pc = "idle"
    BY <1>3 DEF NoReport
  <2> QED
    BY <2>1 DEF Counts
<1>4. CASE rep'.calm = FALSE
  BY <1>4 DEF Counts
<1>5. CASE StatsQuery
  <2>1. rep'.pc \in {"stats", "count"}
    BY <1>1, <1>5 DEF StatsQuery, Query, States
  <2> QED
    BY <2>1 DEF Counts
<1>6. CASE OverviewQuery
  <2>1. /\ rep.pc = "overview" /\ rep'.pc \in {"overview", "mail"}
        /\ rep'.count = rep.count /\ rep'.first = rep.first /\ rep'.window = rep.window
        /\ rep'.calm = rep.calm /\ rep'.begun = rep.begun
        /\ stored' = stored /\ calls' = calls /\ log' = log
    BY <1>1, <1>6 DEF OverviewQuery, Query, States
  <2>2. Counted' = Counted /\ Lines' = Lines
    <3>1. logUntil' = logUntil
      BY <2>1 DEF logUntil
    <3> QED
      BY <2>1, <3>1 DEF Counted, Lines
  <2> QED
    BY <2>1, <2>2 DEF Counts
<1>7. CASE UNCHANGED <<rep, stored, calls, log>>
  <2>1. Counted' = Counted /\ Lines' = Lines
    <3>1. logUntil' = logUntil
      BY <1>7 DEF logUntil
    <3> QED
      BY <1>7, <3>1 DEF Counted, Lines
  <2> QED
    BY <1>7, <2>1 DEF Counts
<1>8. ASSUME NEW b \in BOOLEAN, Disturb(b) PROVE rep' = rep \/ rep'.calm = FALSE
  BY <1>1, <1>8 DEF Disturb, States
<1>12. ASSUME LogUnread PROVE rep'.calm = FALSE
  BY <1>1, <1>12 DEF LogUnread, States
<1>9. ASSUME Rotate \/ PruneHistory PROVE rep' = NoReport \/ rep'.calm = FALSE
  <2>1. Disturb(rep.pc # "idle")
    BY <1>9 DEF Rotate, PruneHistory
  <2>2. CASE rep.pc = "idle"
    BY <2>1, <2>2 DEF Disturb, Idle
  <2>3. CASE rep.pc # "idle"
    BY <1>1, <2>1, <2>3 DEF Disturb, States
  <2> QED
    BY <2>2, <2>3
<1>10. ASSUME NEW r \in 1 .. MaxEvents[interval], HistoryInsert(r)
       PROVE  UNCHANGED <<rep, stored, calls, log>> \/ rep'.calm = FALSE
  BY <1>8, <1>10 DEF HistoryInsert
<1>11. \/ Begin \/ rep' = NoReport \/ StatsQuery \/ OverviewQuery
       \/ UNCHANGED <<rep, stored, calls, log>>
       \/ AbuseCount \/ AbuseFirst \/ AbuseLog \/ LogUnread \/ Rotate \/ PruneHistory
       \/ \E r \in 1 .. MaxEvents[interval] : HistoryInsert(r)
       \/ \E old \in BOOLEAN : AbuseReported(old)
       \/ \E c \in 1 .. MaxEvents[interval] : AbuseRecorded(c)
  BY DEF Next, HistoryBegin, CronFires, Generate, Mail, QueryFails, End, Tick, vars
<1> QED
  BY <1>2, <1>3, <1>4, <1>5, <1>6, <1>7, <1>9, <1>10, <1>11, <1>12,
     ReportedKeepsCounts, RecordedKeepsCounts, QueriesKeepCounts

\* The rows within the window and the lines up to the first row are the reports
\* within the window, each once.
LEMMA CountedOnce ==
    ASSUME TypeOK, Times, Records, Counts
    PROVE  AbuseCountedOnce
<1> SUFFICES ASSUME rep.pc = "mail", rep.calm, Straight
             PROVE  rep.count = Cardinality({c \in log \cup stored : Within(calls[c].line, rep.window)})
  BY DEF AbuseCountedOnce
<1> DEFINE All == {c \in log \cup stored : Within(calls[c].line, rep.window)}
           until == rep.window.until
           first == rep.first
<1>1. /\ rep.window.since \in Int /\ until \in Int /\ first \in Int /\ rep.begun \in Nat
      /\ until < clock /\ rep.begun <= clock /\ until < rep.begun
  <2>1. midnight(rep.begun) \in Nat /\ midnight(rep.begun) <= rep.begun /\ until < midnight(rep.begun)
    BY RepType, Midnight DEF Times
  <2> QED
    BY <2>1, RepType, AfterWindow
<1>2. log \subseteq DOMAIN calls /\ stored \subseteq DOMAIN calls
  BY DEF TypeOK
<1>3. \A c \in DOMAIN calls : calls[c].line \in Nat /\ calls[c].row \in Nat \cup {None} /\ calls[c].old \in BOOLEAN
  BY CallType DEF Calls
<1>4. \A c \in stored : ~calls[c].old /\ calls[c].row \in Nat /\ calls[c].row = calls[c].line
  BY <1>2, <1>3 DEF Records, Straight
<1>5. Counted = {c \in stored : rep.window.since <= calls[c].line /\ calls[c].line <= until}
  BY <1>4 DEF Counted, Within
<1>6. Lines = {c \in log : rep.window.since <= calls[c].line /\ calls[c].line <= logUntil}
  BY LinesIs
<1>7. logUntil = IF first # None /\ first - 1 < until THEN first - 1 ELSE until
  BY DEF logUntil
<1>8. IF first = None
      THEN \A c \in stored : calls[c].row >= rep.begun
      ELSE /\ \E c \in stored : calls[c].row = first
           /\ \A c \in stored : first <= calls[c].row
  BY DEF Counts
<1>9. ASSUME NEW c \in stored, calls[c].line <= until PROVE logUntil < calls[c].line
  <2>1. calls[c].row = calls[c].line /\ calls[c].line \in Nat
    BY <1>4
  <2>2. CASE first = None
    BY <1>1, <1>8, <1>9, <2>1, <2>2
  <2>3. CASE first # None
    <3>1. first <= calls[c].line
      BY <1>8, <2>1, <2>3
    <3> QED
      BY <1>1, <1>7, <1>9, <2>1, <2>3, <3>1
  <2> QED
    BY <2>2, <2>3
<1>10. Counted \cap Lines = {}
  <2> SUFFICES ASSUME NEW c \in Counted, c \in Lines PROVE FALSE
    OBVIOUS
  <2>1. c \in stored /\ calls[c].line <= until /\ calls[c].line <= logUntil
    BY <1>5, <1>6
  <2>2. logUntil < calls[c].line
    BY <1>9, <2>1
  <2>3. calls[c].line \in Nat /\ logUntil \in Int
    BY <1>4, <2>1, LogUntilBound
  <2> QED
    BY <2>1, <2>2, <2>3
<1>11. ASSUME NEW c \in log, c \notin stored, calls[c].line <= until PROVE calls[c].line <= logUntil
  <2>1. c \in DOMAIN calls /\ calls[c].line \in Nat
    BY <1>2, <1>3
  <2>2. CASE first = None \/ first - 1 >= until
    BY <1>1, <1>7, <1>11, <2>1, <2>2
  <2>3. CASE first # None /\ first - 1 < until
    <3>1. PICK d \in stored : calls[d].row = first
      BY <1>8, <2>3
    <3>2. /\ d \in DOMAIN calls /\ ~calls[d].old /\ calls[d].line = first
      BY <1>2, <1>4, <3>1
    <3>3. calls[c].line < first
      <4>1. CASE calls[c].old
        BY <2>1, <3>2, <4>1 DEF Records
      <4>2. CASE ~calls[c].old
        <5>1. calls[c].row = calls[c].line
          BY <2>1, <4>2 DEF Straight
        <5>2. calls[c].row # None
          BY <2>1, <5>1 DEF None
        <5>3. calls[c].row < calls[d].row
          BY <1>11, <2>1, <5>2 DEF Records
        <5> QED
          BY <3>1, <5>1, <5>3
      <4> QED
        BY <4>1, <4>2
    <3> QED
      BY <1>1, <1>7, <2>1, <2>3, <3>3
  <2> QED
    BY <1>1, <2>2, <2>3
<1>12. All = Counted \cup Lines
  <2>1. \A c \in DOMAIN calls :
          Within(calls[c].line, rep.window) <=> rep.window.since <= calls[c].line /\ calls[c].line <= until
    BY DEF Within
  <2>2. \A c \in log : calls[c].line <= logUntil => calls[c].line <= until
    BY <1>1, <1>2, <1>3, LogUntilBound
  <2> HIDE DEF until, first
  <2> QED
    BY <1>2, <1>5, <1>6, <1>11, <2>1, <2>2
<1>13. IsFiniteSet(Counted) /\ IsFiniteSet(Lines)
  BY <1>5, <1>6, DomainsFinite, FS_Subset
<1>14. Cardinality(All) = Cardinality(Counted) + Cardinality(Lines)
  <2>1. Cardinality(Counted \cup Lines) =
          Cardinality(Counted) + Cardinality(Lines) - Cardinality(Counted \cap Lines)
    BY <1>13, FS_Union
  <2>2. Cardinality(Counted \cap Lines) = 0
    BY <1>10, FS_EmptySet
  <2>3. Cardinality(Counted) \in Nat /\ Cardinality(Lines) \in Nat
    BY <1>13, FS_CardinalityType
  <2> HIDE DEF All
  <2> QED
    BY <1>12, <2>1, <2>2, <2>3
<1>15. rep.count = Cardinality(Counted) + Cardinality(Lines)
  BY DEF Counts
<1> QED
  BY <1>14, <1>15

-----------------------------------------------------------------------------
(* What the queries of a report have seen.                                 *)

LEMMA SeenTypes ==
    ASSUME TypeOK
    PROVE  /\ \A s \in rep.seen : s.window \in Windows /\ s.window.since \in Int /\ s.window.until \in Int
           /\ rep.todo \in Seq(Windows) /\ Len(rep.todo) \in Nat /\ DOMAIN rep.todo = 1 .. Len(rep.todo)
           /\ \A i \in DOMAIN rep.todo : rep.todo[i].since \in Int /\ rep.todo[i].until \in Int
           /\ \A r \in DOMAIN made : made[r] \in Nat
           /\ table \subseteq DOMAIN made /\ clock \in Nat /\ midnight(clock) \in Nat
<1>1. rep.todo \in Seq(Windows) /\ rep.seen \in SUBSET [window : Windows, failed : BOOLEAN, rows : SUBSET Nat]
  BY RepType DEF States
<1>2. \A s \in rep.seen : s.window \in Windows
  BY <1>1
<1>3. Len(rep.todo) \in Nat /\ DOMAIN rep.todo = 1 .. Len(rep.todo)
  BY <1>1
<1>4. \A i \in DOMAIN rep.todo : rep.todo[i] \in Windows
  BY <1>1, <1>3, ElementOfSeq
<1>5. clock \in Nat /\ midnight(clock) \in Nat
  BY Midnight DEF TypeOK
<1>6. (\A r \in DOMAIN made : made[r] \in Nat) /\ table \subseteq DOMAIN made
  BY DEF TypeOK
<1> QED
  BY <1>1, <1>2, <1>3, <1>4, <1>5, <1>6 DEF Windows

\* A report begins.
LEMMA BeginSeen ==
    ASSUME TypeOK, Times, Begin, clock' = clock
    PROVE  Seen'
<1> DEFINE w == reportWindow(interval, clock)
<1>1. PICK m \in Nat : m = midnight(clock)
  BY Midnight DEF TypeOK
<1>2. w \in Windows /\ w.until < m
  BY <1>1, WindowIsPast DEF TypeOK, Times
<1>3. /\ StatsWindows(w, clock) \in Seq(Windows)
      /\ \A i \in DOMAIN StatsWindows(w, clock) : StatsWindows(w, clock)[i].until = w.until
  BY <1>2, StatsWindowsType DEF TypeOK
<1> HIDE DEF w
<1>4. rep'.seen = {} /\ rep'.todo = StatsWindows(w, clock) /\ rep'.pc = "stats"
  BY NoReportType DEF Begin, NoReport, States, w
<1>5. \A i \in DOMAIN rep'.todo : rep'.todo[i].until < m
  BY <1>2, <1>3, <1>4
<1>6. SeenAt(m)'
  BY <1>4, <1>5 DEF SeenAt, Past
<1>7. midnight(clock)' = m
  BY <1>1 DEF midnight
<1>8. m \in 0 .. midnight(clock)'
  BY <1>7
<1> QED
  BY <1>6, <1>8 DEF Seen

\* A query takes the first window, and what it finds is added.
LEMMA QuerySeen ==
    ASSUME TypeOK, Seen, StatsQuery \/ OverviewQuery
    PROVE  Seen'
<1> USE DEF historyVars, abuseVars
<1> SUFFICES ASSUME rep'.calm PROVE Seen'
  BY DEF Seen
<1> DEFINE w == Head(rep.todo)
<1>0. PICK failed \in BOOLEAN : Query("stats", "count", failed) \/ Query("overview", "mail", failed)
  BY DEF StatsQuery, OverviewQuery
<1> DEFINE new == Shown(w, failed)
<1>1. rep \in States
  BY RepType
<1>2. /\ rep.pc \in {"stats", "overview"}
      /\ rep.pc = "overview" => rep'.pc \in {"overview", "mail"}
  BY <1>0, <1>1 DEF Query, States
<1>3. /\ rep.calm /\ rep.todo # <<>>
      /\ rep'.seen = rep.seen \cup {new} /\ rep'.todo = Tail(rep.todo)
      /\ made' = made /\ table' = table /\ clock' = clock
  BY <1>0, <1>1 DEF Query, States
<1>4. PICK m \in 0 .. midnight(clock) : SeenAt(m)
  BY <1>2, <1>3 DEF Seen
<1>5. /\ 1 \in DOMAIN rep.todo /\ w = rep.todo[1]
      /\ DOMAIN rep'.todo = 1 .. Len(rep.todo) - 1
      /\ \A i \in 1 .. Len(rep.todo) - 1 : rep'.todo[i] = rep.todo[i + 1] /\ i + 1 \in DOMAIN rep.todo /\ i + 1 # 1
  BY <1>3, SeenTypes
<1>6. new.window = w /\ new.failed = failed /\ new.rows = IF failed THEN {} ELSE Rows(w)
  BY DEF Shown
<1>7. new.rows \subseteq {r \in DOMAIN made : Within(made[r], w)}
  BY <1>6, SeenTypes DEF Rows
<1>8. \A x : Rows(x)' = Rows(x)
  BY <1>3 DEF Rows
<1>9. m \in Int /\ w.until \in Int /\ \A s \in rep.seen : s.window.until \in Int
  BY <1>5, SeenTypes
<1>10. Past(w, m) \/ (Today(w, m) /\ \A s \in rep.seen : Past(s.window, m))
  <2>1. \A i \in DOMAIN rep.todo :
           \/ Past(rep.todo[i], m)
           \/ i = 1 /\ Today(rep.todo[1], m) /\ \A s \in rep.seen : Past(s.window, m)
    BY <1>4 DEF SeenAt
  <2>2. Past(rep.todo[1], m) \/ (Today(rep.todo[1], m) /\ \A s \in rep.seen : Past(s.window, m))
    <3>1. 1 \in DOMAIN rep.todo
      BY <1>5
    <3> QED
      BY <2>1, <3>1, Zenon
  <2> QED
    BY <1>5, <2>2
<1> HIDE DEF w, new
<1>11. \A i \in DOMAIN rep'.todo : Past(rep'.todo[i], m)
  BY <1>4, <1>5 DEF SeenAt
<1>12. \A x, y \in rep'.seen : Today(x.window, m) /\ Today(y.window, m) => x = y
  BY <1>3, <1>4, <1>6, <1>9, <1>10 DEF SeenAt, Past, Today
<1>13. \A s \in rep'.seen :
         \/ Past(s.window, m) /\ (~s.failed => s.rows = Rows(s.window))
         \/ Today(s.window, m) /\ s.rows \subseteq {r \in DOMAIN made : Within(made[r], s.window)}
  BY <1>3, <1>4, <1>6, <1>7, <1>10 DEF SeenAt
<1>14. rep'.pc \notin {"overview", "mail"} => \A s \in rep'.seen : Past(s.window, m)
  <2> SUFFICES ASSUME rep'.pc \notin {"overview", "mail"} PROVE \A s \in rep'.seen : Past(s.window, m)
    OBVIOUS
  <2>1. rep.pc = "stats"
    BY <1>2, <1>3
  <2>2. (\A s \in rep.seen : Past(s.window, m)) /\ Past(w, m)
    BY <1>4, <1>5, <2>1 DEF SeenAt
  <2> QED
    BY <1>3, <1>6, <2>2
<1>15. SeenAt(m)'
  BY <1>3, <1>8, <1>11, <1>12, <1>13, <1>14 DEF SeenAt
<1>16. midnight(clock)' = midnight(clock)
  BY <1>3 DEF midnight
<1> QED
  BY <1>15, <1>16 DEF Seen

\* The overview has a midnight of its own; what was seen before is past.
LEMMA LogSeen ==
    ASSUME TypeOK, Seen, AbuseLog
    PROVE  Seen'
<1> USE DEF historyVars, abuseVars
<1> SUFFICES ASSUME rep'.calm PROVE Seen'
  BY DEF Seen
<1>1. rep \in States
  BY RepType
<1>2. /\ rep.pc = "log" /\ rep.calm /\ rep'.pc = "overview"
      /\ rep'.seen = rep.seen /\ rep'.todo = Overview(clock)
      /\ made' = made /\ table' = table /\ clock' = clock
  BY <1>1 DEF AbuseLog, States
<1>3. PICK m \in 0 .. midnight(clock) : SeenAt(m)
  BY <1>2 DEF Seen
<1>4. PICK n \in Nat : n = midnight(clock)
  BY SeenTypes
<1>5. \A i \in DOMAIN rep'.todo : Past(rep'.todo[i], n) \/ (i = 1 /\ Today(rep'.todo[1], n))
  <2>1. \A i \in DOMAIN Overview(clock) :
          Past(Overview(clock)[i], midnight(clock)) \/ (i = 1 /\ Today(Overview(clock)[1], midnight(clock)))
    <3>1. clock \in Nat
      BY SeenTypes
    <3> QED
      BY <3>1, OverviewType, Zenon
  <2> QED
    BY <1>2, <1>4, <2>1
<1>6. \A s \in rep.seen : s.window.until < m /\ (~s.failed => s.rows = Rows(s.window))
  <2>1. \A s \in rep.seen : s.window.until < m
    BY <1>2, <1>3 DEF SeenAt, Past
  <2> QED
    BY <1>3, <2>1, SeenTypes DEF SeenAt, Today
<1>7. m \in Int /\ m <= n
  BY <1>3, <1>4
<1>8. \A s \in rep.seen : s.window.until < n
  BY <1>6, <1>7, SeenTypes
<1>9. \A x : Rows(x)' = Rows(x)
  BY <1>2 DEF Rows
<1>10. \A x \in rep.seen : ~Today(x.window, n)
  BY <1>8, SeenTypes DEF Today
<1>11. SeenAt(n)'
  BY <1>2, <1>5, <1>6, <1>8, <1>9, <1>10 DEF SeenAt, Past
<1>12. n \in 0 .. midnight(clock)'
  <2>1. midnight(clock)' = n
    BY <1>2, <1>4 DEF midnight
  <2> QED
    BY <2>1
<1> QED
  BY <1>11, <1>12 DEF Seen

\* The daemon goes on: a window of the past keeps its rows, for else the report
\* would be disturbed.
LEMMA DaemonSeen ==
    ASSUME TypeOK, Times, Seen, rep.pc # "idle",
           rep'.pc = rep.pc, rep'.calm = rep.calm, rep'.seen = rep.seen, rep'.todo = rep.todo,
           clock' \in {clock, clock + 1},
           \A r \in DOMAIN made : r \in DOMAIN made' /\ made'[r] = made[r],
           \/ table' = table
           \/ \E r \in DOMAIN made : made[r] >= midnight(clock) /\ table' = table \cup {r}
    PROVE  Seen'
<1> SUFFICES ASSUME rep'.calm PROVE Seen'
  BY DEF Seen
<1>1. PICK m \in 0 .. midnight(clock) : SeenAt(m)
  BY DEF Seen
<1>2. clock' \in Nat /\ clock <= clock' /\ midnight(clock) \in Nat /\ m \in Nat
  BY SeenTypes
<1>3. midnight(clock') \in Nat /\ midnight(clock) <= midnight(clock')
  BY <1>2, Midnight, MidnightMonotone, SeenTypes
<1>4. m \in 0 .. midnight(clock')
  BY <1>1, <1>2, <1>3
<1>5. ASSUME NEW w \in Windows, Past(w, m) PROVE Rows(w)' = Rows(w)
  <2>1. w.until \in Int /\ w.until < midnight(clock)
    BY <1>1, <1>2, <1>5 DEF Past, Windows
  <2>2. \A r \in DOMAIN made : made[r] >= midnight(clock) => ~Within(made[r], w)
    BY <2>1, SeenTypes DEF Within
  <2>3. \A r \in table : r \in DOMAIN made /\ made'[r] = made[r]
    BY SeenTypes
  <2> QED
    BY <2>2, <2>3 DEF Rows
<1>6. \A s \in rep.seen :
         \/ Past(s.window, m) /\ (~s.failed => s.rows = Rows(s.window)')
         \/ Today(s.window, m) /\ s.rows \subseteq {r \in DOMAIN made' : Within(made'[r], s.window)}
  BY <1>1, <1>5, SeenTypes DEF SeenAt
<1>7. SeenAt(m)'
  <2>1. /\ \A s, u \in rep.seen : Today(s.window, m) /\ Today(u.window, m) => s = u
        /\ \A i \in DOMAIN rep.todo :
             \/ Past(rep.todo[i], m)
             \/ i = 1 /\ Today(rep.todo[1], m) /\ \A s \in rep.seen : Past(s.window, m)
        /\ rep.pc \notin {"overview", "mail"} =>
             /\ \A s \in rep.seen : Past(s.window, m)
             /\ \A i \in DOMAIN rep.todo : Past(rep.todo[i], m)
    BY <1>1 DEF SeenAt
  <2> QED
    BY <1>6, <2>1 DEF SeenAt
<1>8. midnight(clock)' = midnight(clock')
  BY DEF midnight
<1> QED
  BY <1>4, <1>7, <1>8 DEF Seen

LEMMA SeenInductive == TypeOK /\ Times /\ Idle /\ Seen /\ [Next]_vars => Seen'
<1> SUFFICES ASSUME TypeOK, Times, Idle, Seen, [Next]_vars PROVE Seen'
  OBVIOUS
<1> USE DEF historyVars, abuseVars
<1>1. rep \in States /\ made \in Seq(Nat) /\ clock \in Nat
  BY RepType DEF TypeOK
<1>2. CASE rep'.pc = "idle" \/ rep'.calm = FALSE
  BY <1>2 DEF Seen
<1>3. CASE AbuseCount \/ AbuseFirst
  <2>1. /\ rep.pc \in {"count", "first"} /\ rep'.pc \in {"first", "log"}
        /\ rep'.calm = rep.calm /\ rep'.seen = rep.seen /\ rep'.todo = rep.todo
        /\ clock' = clock /\ made' = made /\ table' = table
    BY <1>1, <1>3 DEF AbuseCount, AbuseFirst, States
  <2> SUFFICES ASSUME rep.calm PROVE Seen'
    BY <2>1 DEF Seen
  <2>2. PICK m \in 0 .. midnight(clock) : SeenAt(m)
    BY <2>1 DEF Seen
  <2>3. \A x : Rows(x)' = Rows(x)
    BY <2>1 DEF Rows
  <2>4. SeenAt(m)'
    BY <2>1, <2>2, <2>3 DEF SeenAt
  <2>5. midnight(clock)' = midnight(clock)
    BY <2>1 DEF midnight
  <2> QED
    BY <2>2, <2>4, <2>5 DEF Seen
<1>4. ASSUME UNCHANGED <<rep, table>>, clock' \in {clock, clock + 1}, made' \in {made, Append(made, clock)}
      PROVE  Seen'
  <2>1. \A r \in DOMAIN made : r \in DOMAIN made' /\ made'[r] = made[r]
    BY <1>1, <1>4
  <2> QED
    BY <1>2, <1>4, <2>1, DaemonSeen
<1>5. ASSUME NEW r \in 1 .. MaxEvents[interval], HistoryInsert(r) PROVE Seen'
  <2>1. made' = made /\ clock' = clock /\ r \in DOMAIN made
    BY <1>5 DEF HistoryInsert, TypeOK
  <2>2. CASE UNCHANGED <<table, rep>>
    BY <1>4, <2>1, <2>2
  <2>3. CASE table' = table \cup {r} /\ Disturb(made[r] < midnight(clock) /\ rep.pc # "idle")
    <3>1. CASE made[r] < midnight(clock) /\ rep.pc # "idle"
      <4>1. rep'.calm = FALSE
        BY <1>1, <2>3, <3>1 DEF Disturb, States
      <4> QED
        BY <1>2, <4>1
    <3>2. CASE rep.pc = "idle"
      <4>1. rep' = rep
        BY <2>3, <3>2 DEF Disturb
      <4> QED
        BY <1>2, <3>2, <4>1
    <3>3. CASE ~(made[r] < midnight(clock)) /\ rep.pc # "idle"
      <4>1. rep' = rep
        BY <2>3, <3>3 DEF Disturb
      <4>2. made[r] >= midnight(clock)
        BY <2>1, <3>3, SeenTypes
      <4> QED
        BY <2>1, <2>3, <3>3, <4>1, <4>2, DaemonSeen
    <3> QED
      BY <3>1, <3>2, <3>3
  <2> QED
    BY <1>5, <2>2, <2>3 DEF HistoryInsert
<1>6. ASSUME Rotate \/ PruneHistory PROVE rep'.pc = "idle" \/ rep'.calm = FALSE
  <2>1. Disturb(rep.pc # "idle")
    BY <1>6 DEF Rotate, PruneHistory
  <2> QED
    BY <1>1, <2>1 DEF Disturb, States
<1>7. ASSUME Mail \/ QueryFails PROVE rep'.pc = "idle"
  BY <1>7 DEF Mail, QueryFails, End, NoReport
<1>9. ASSUME LogUnread PROVE rep'.calm = FALSE
  BY <1>1, <1>9 DEF LogUnread, States
<1>8. \/ Begin /\ clock' = clock
      \/ StatsQuery \/ OverviewQuery \/ AbuseCount \/ AbuseFirst \/ AbuseLog \/ LogUnread
      \/ Mail \/ QueryFails \/ Rotate \/ PruneHistory
      \/ \E r \in 1 .. MaxEvents[interval] : HistoryInsert(r)
      \/ UNCHANGED <<rep, table>> /\ clock' \in {clock, clock + 1} /\ made' \in {made, Append(made, clock)}
  BY DEF Next, HistoryBegin, AbuseReported, AbuseRecorded, CronFires, Generate, Tick, vars
<1> QED
  BY <1>2, <1>3, <1>4, <1>5, <1>6, <1>7, <1>8, <1>9, BeginSeen, QuerySeen, LogSeen

\* Equal windows have seen equal rows, and a wider one the rows of a narrower one.
LEMMA SeenAgrees ==
    ASSUME TypeOK, Idle, Seen
    PROVE  NumbersAgree
<1> SUFFICES ASSUME rep.calm, NEW a \in rep.seen, NEW b \in rep.seen, ~a.failed, ~b.failed,
                    b.window.since <= a.window.since, a.window.until <= b.window.until
             PROVE  a.rows = {r \in b.rows : Within(made[r], a.window)}
  BY DEF NumbersAgree
<1>1. rep.pc # "idle"
  BY DEF Idle, NoReport
<1>2. PICK m \in 0 .. midnight(clock) : SeenAt(m)
  BY <1>1 DEF Seen
<1>3. /\ m \in Int /\ a.window.since \in Int /\ a.window.until \in Int
      /\ b.window.since \in Int /\ b.window.until \in Int
  BY <1>2, SeenTypes
<1>4. \A r \in DOMAIN made : made[r] \in Int
  BY SeenTypes
<1>5. CASE Past(a.window, m) /\ Past(b.window, m)
  <2>1. a.rows = Rows(a.window) /\ b.rows = Rows(b.window)
    BY <1>2, <1>3, <1>5 DEF SeenAt, Past, Today
  <2>2. \A r \in table : Within(made[r], a.window) => Within(made[r], b.window)
    BY <1>3, <1>4, SeenTypes DEF Within
  <2> QED
    BY <2>1, <2>2 DEF Rows
<1>6. CASE Past(a.window, m) /\ Today(b.window, m)
  <2>1. a.rows = Rows(a.window) /\ b.rows \subseteq DOMAIN made
    BY <1>2, <1>3, <1>6 DEF SeenAt, Past, Today
  <2>2. \A r \in DOMAIN made : ~Within(made[r], a.window)
    BY <1>3, <1>4, <1>6 DEF Within, Past, Today
  <2> QED
    BY <2>1, <2>2, SeenTypes DEF Rows
<1>7. CASE Today(a.window, m) /\ Past(b.window, m)
  BY <1>3, <1>7 DEF Past, Today
<1>8. CASE Today(a.window, m) /\ Today(b.window, m)
  <2>1. a = b
    BY <1>2, <1>8 DEF SeenAt
  <2>2. a.rows \subseteq {r \in DOMAIN made : Within(made[r], a.window)}
    BY <1>2, <1>3, <1>8 DEF SeenAt, Past, Today
  <2> QED
    BY <2>1, <2>2
<1> QED
  BY <1>2, <1>5, <1>6, <1>7, <1>8 DEF SeenAt

-----------------------------------------------------------------------------
(* Windows that tile.                                                      *)

\* Due by the day alone.
DayDue(day) ==
    CASE interval = "daily" -> TRUE
      [] interval = "weekly" -> day % WeekLen = 0
      [] interval = "biweekly" -> day % WeekLen = 0 /\ isoWeek(day \div WeekLen) % 2 = 1
      [] interval = "monthly" -> day \in MonthStarts

LEMMA DueByDay == \A t : Due(t) <=> t % DayLen = ReportTime /\ DayDue(t \div DayLen)
BY DEF Due, DayDue

LEMMA IntervalKnown == ASSUME TypeOK PROVE interval \in {"daily", "weekly", "biweekly", "monthly"}
BY ParameterAssumption DEF TypeOK

\* A week day that is due is a multiple of the week.
LEMMA WeekOf ==
    ASSUME NEW d \in Nat, d % WeekLen = 0
    PROVE  d \div WeekLen \in Nat /\ d = (d \div WeekLen) * WeekLen
<1>1. d \div WeekLen \in Nat /\ d = (d \div WeekLen) * WeekLen + (d % WeekLen)
  BY Division, Lengths
<1>2. (d \div WeekLen) * WeekLen \in Nat
  BY <1>1, Lengths
<1> QED
  BY <1>1, <1>2

LEMMA WeekStart ==
    ASSUME NEW k \in Nat
    PROVE  k * WeekLen \in Nat /\ (k * WeekLen) % WeekLen = 0 /\ (k * WeekLen) \div WeekLen = k
<1>1. k * WeekLen \in Nat /\ 0 \in 0 .. WeekLen - 1
  BY Lengths
<1>2. k * WeekLen + 0 = k * WeekLen
  BY <1>1
<1>3. (k * WeekLen + 0) \div WeekLen = k /\ (k * WeekLen + 0) % WeekLen = 0
  BY <1>1, DayOf, Lengths
<1> QED
  BY <1>1, <1>2, <1>3

LEMMA WeekOrder ==
    ASSUME NEW j \in Nat, NEW k \in Nat, j * WeekLen < k * WeekLen
    PROVE  j < k
<1> SUFFICES ASSUME k <= j PROVE FALSE
  OBVIOUS
<1>1. k * WeekLen <= j * WeekLen
  BY TimesMono, Lengths
<1>2. k * WeekLen \in Nat /\ j * WeekLen \in Nat
  BY Lengths
<1> QED
  BY <1>1, <1>2

\* An ISO year began before any time that is observed.
LEMMA YearBefore ==
    ASSUME NEW t \in Nat, FirstTick <= t
    PROVE  \E y \in YearStarts : y <= (t \div DayLen) \div WeekLen
<1>1. PICK y \in YearStarts : y * WeekLen * DayLen <= FirstTick
  BY ParameterAssumption
<1>2. y \in Nat
  BY ParameterAssumption
<1> DEFINE d == y * WeekLen
<1>3. d \in Nat /\ d % WeekLen = 0 /\ d \div WeekLen = y
  BY <1>2, WeekStart
<1> HIDE DEF d
<1>4. d * DayLen \in Nat /\ d * DayLen <= t
  BY <1>1, <1>3, Lengths DEF d
<1>5. (d * DayLen) \div DayLen <= t \div DayLen
  BY <1>4, DivMonotone, Lengths
<1>6. (d * DayLen) \div DayLen = d
  <2>1. 0 \in 0 .. DayLen - 1 /\ d * DayLen + 0 = d * DayLen
    BY <1>4, Lengths
  <2>2. (d * DayLen + 0) \div DayLen = d
    BY <1>3, <2>1, DayOf, Lengths
  <2> QED
    BY <2>1, <2>2
<1>7. d \div WeekLen <= (t \div DayLen) \div WeekLen
  <2>1. t \div DayLen \in Nat
    BY Midnight
  <2> QED
    BY <1>3, <1>5, <1>6, <2>1, DivMonotone, Lengths
<1> QED
  BY <1>3, <1>7

\* A week has the next number, or the first if a year begins with it.
LEMMA NextIsoWeek ==
    ASSUME NEW w \in Nat, NEW e \in YearStarts, e <= w
    PROVE  /\ isoWeek(w) \in Nat
           /\ isoWeek(w + 1) = IF w + 1 \in YearStarts THEN 1 ELSE isoWeek(w) + 1
<1> DEFINE S(v) == {y \in YearStarts : y <= v}
<1>1. YearStarts \subseteq Nat
  BY ParameterAssumption
<1>2. ASSUME NEW v \in Nat, e <= v
      PROVE  /\ Max(S(v)) \in YearStarts /\ Max(S(v)) \in Nat /\ Max(S(v)) <= v
             /\ \A y \in YearStarts : y <= v => y <= Max(S(v))
  <2>1. S(v) \in SUBSET Nat /\ S(v) # {} /\ \A x \in S(v) : x <= v
    BY <1>1, <1>2
  <2>2. Max(S(v)) \in S(v) /\ \A y \in S(v) : y <= Max(S(v))
    BY <2>1, GreatestOf
  <2> QED
    BY <1>1, <2>2
<1> DEFINE a == Max(S(w))
           b == Max(S(w + 1))
<1>3. e <= w + 1 /\ e \in Nat /\ w + 1 \in Nat
  BY <1>1
<1>4. a \in YearStarts /\ a \in Nat /\ a <= w /\ \A y \in YearStarts : y <= w => y <= a
  BY <1>2
<1>5. b \in YearStarts /\ b \in Nat /\ b <= w + 1 /\ \A y \in YearStarts : y <= w + 1 => y <= b
  BY <1>2, <1>3
<1>6. isoWeek(w) = w - a + 1 /\ isoWeek(w + 1) = (w + 1) - b + 1
  BY DEF isoWeek
<1> HIDE DEF S, a, b
<1>7. CASE w + 1 \in YearStarts
  <2>1. b = w + 1
    BY <1>3, <1>5, <1>7
  <2> QED
    BY <1>4, <1>6, <1>7, <2>1
<1>8. CASE w + 1 \notin YearStarts
  <2>1. b # w + 1
    BY <1>5, <1>8
  <2>2. b <= w
    BY <1>5, <2>1
  <2>3. b = a
    BY <1>4, <1>5, <2>2
  <2> QED
    BY <1>4, <1>6, <1>8, <2>3
<1> QED
  BY <1>7, <1>8

\* A year of 53 weeks ended before this week, for a biweekly report.
Again(week) == interval = "biweekly" /\ week \in YearStarts /\ isoWeek(week - 1) % 2 = 1

LEMMA AgainIs == \A t : Again((t \div DayLen) \div WeekLen) <=> interval = "biweekly" /\ AfterLongYear(t)
BY DEF Again, AfterLongYear

\* Of two biweekly weeks that are due, with none between, the later is the next after
\* a year of 53 weeks and else the next but one.
LEMMA NextOddWeek ==
    ASSUME NEW j \in Nat, NEW k \in Nat, j < k, NEW e \in YearStarts, e <= j,
           interval = "biweekly", isoWeek(j) % 2 = 1, isoWeek(k) % 2 = 1,
           \A n \in Nat : j < n /\ n < k => isoWeek(n) % 2 # 1
    PROVE  k = IF Again(k) THEN j + 1 ELSE j + 2
<1>1. e \in Nat /\ e <= j + 1 /\ j + 1 \in Nat /\ j + 2 \in Nat /\ (j + 1) + 1 = j + 2
  BY ParameterAssumption
<1>2. isoWeek(j) \in Nat /\ isoWeek(j + 1) = IF j + 1 \in YearStarts THEN 1 ELSE isoWeek(j) + 1
  BY NextIsoWeek
<1>3. isoWeek(j + 1) \in Nat /\ isoWeek(j + 2) = IF j + 2 \in YearStarts THEN 1 ELSE isoWeek(j + 1) + 1
  BY <1>1, NextIsoWeek
<1>4. CASE j + 1 \in YearStarts
  <2>1. isoWeek(j + 1) % 2 = 1
    BY <1>2, <1>4
  <2>2. k = j + 1
    BY <1>1, <2>1
  <2>3. k - 1 = j
    BY <2>2
  <2>4. Again(k)
    BY <1>4, <2>2, <2>3 DEF Again
  <2> QED
    BY <2>2, <2>4
<1>5. CASE j + 1 \notin YearStarts
  <2>1. isoWeek(j + 1) % 2 = 0
    BY <1>2, <1>5
  <2>2. isoWeek(j + 2) % 2 = 1
    BY <1>2, <1>3, <1>5
  <2>3. k # j + 1
    BY <2>1
  <2>4. k = j + 2
    BY <1>1, <2>2, <2>3
  <2>5. k - 1 = j + 1
    BY <2>4
  <2>6. ~Again(k)
    BY <2>1, <2>5 DEF Again
  <2> QED
    BY <2>4, <2>6
<1> QED
  BY <1>4, <1>5

\* The next day that is due, for the intervals of a fixed length.
LEMMA NextDay ==
    ASSUME TypeOK, interval # "monthly", NEW x \in Nat, NEW y \in Nat, x < y,
           NEW e \in YearStarts, e <= x \div WeekLen,
           DayDue(x), DayDue(y), \A d \in x + 1 .. y - 1 : ~DayDue(d)
    PROVE  y - Days(interval) = x - (IF Again(y \div WeekLen) THEN WeekLen ELSE 0)
<1>1. CASE interval = "daily"
  <2>1. Days(interval) = 1 /\ ~Again(y \div WeekLen)
    BY <1>1 DEF Days, Again
  <2>2. DayDue(x + 1)
    BY <1>1 DEF DayDue
  <2>3. x + 1 \notin x + 1 .. y - 1
    BY <2>2
  <2> QED
    BY <2>1, <2>3
<1>2. CASE interval \in {"weekly", "biweekly"}
  <2> DEFINE j == x \div WeekLen
             k == y \div WeekLen
  <2>1. x % WeekLen = 0 /\ y % WeekLen = 0
    BY <1>2 DEF DayDue
  <2>2. j \in Nat /\ k \in Nat /\ x = j * WeekLen /\ y = k * WeekLen
    BY <2>1, WeekOf
  <2>3. interval = "biweekly" => isoWeek(j) % 2 = 1 /\ isoWeek(k) % 2 = 1
    BY DEF DayDue
  <2>8. e <= j /\ y \div WeekLen = k
    OBVIOUS
  <2> HIDE DEF j, k
  <2>4. j < k
    BY <2>2, WeekOrder
  <2>5. ASSUME NEW n \in Nat, j < n, n < k PROVE ~DayDue(n * WeekLen)
    <3>1. j * WeekLen + WeekLen <= n * WeekLen /\ n * WeekLen + WeekLen <= k * WeekLen
      BY <2>2, <2>5, TimesStrict, Lengths
    <3>2. n * WeekLen \in Nat
      BY Lengths
    <3>3. n * WeekLen \in x + 1 .. y - 1
      BY <2>2, <3>1, <3>2, Lengths
    <3> QED
      BY <3>3
  <2>6. CASE interval = "weekly"
    <3>1. DayDue((j + 1) * WeekLen)
      <4>1. ((j + 1) * WeekLen) % WeekLen = 0
        BY <2>2, WeekStart
      <4> QED
        BY <2>6, <4>1 DEF DayDue
    <3>2. k = j + 1
      BY <2>2, <2>4, <2>5, <3>1
    <3>3. y = j * WeekLen + WeekLen
      BY <2>2, <3>2, Lengths
    <3>4. j * WeekLen \in Nat /\ ~Again(k)
      BY <2>2, <2>6 DEF Again
    <3>5. y - WeekLen = x
      BY <2>2, <3>3, <3>4, Lengths
    <3> QED
      BY <2>6, <2>8, <3>4, <3>5, Lengths DEF Days
  <2>7. CASE interval = "biweekly"
    <3>1. ASSUME NEW n \in Nat, j < n, n < k PROVE isoWeek(n) % 2 # 1
      <4>1. (n * WeekLen) % WeekLen = 0 /\ (n * WeekLen) \div WeekLen = n
        BY WeekStart
      <4> QED
        BY <2>5, <2>7, <3>1, <4>1 DEF DayDue
    <3>2. k = IF Again(k) THEN j + 1 ELSE j + 2
      BY <2>2, <2>3, <2>4, <2>7, <2>8, <3>1, NextOddWeek
    <3>3. j * WeekLen \in Nat /\ 2 * WeekLen \in Nat
      BY <2>2, Lengths
    <3>4. CASE Again(k)
      <4>1. y = j * WeekLen + WeekLen
        BY <2>2, <3>2, <3>4, Lengths
      <4>2. y - 2 * WeekLen = x - WeekLen
        BY <2>2, <3>3, <4>1, Lengths
      <4> QED
        BY <2>7, <2>8, <3>4, <4>2 DEF Days
    <3>5. CASE ~Again(k)
      <4>1. y = j * WeekLen + 2 * WeekLen
        BY <2>2, <3>2, <3>5, Lengths
      <4>2. y - 2 * WeekLen = x - 0
        BY <2>2, <3>3, <4>1, Lengths
      <4> QED
        BY <2>7, <2>8, <3>5, <4>2 DEF Days
    <3> QED
      BY <3>4, <3>5
  <2> QED
    BY <1>2, <2>6, <2>7
<1> QED
  BY <1>1, <1>2, IntervalKnown

\* What a biweekly report repeats after a year of 53 weeks.
Repeated(t) == IF interval = "biweekly" /\ AfterLongYear(t) THEN WeekLen * DayLen ELSE 0

\* Of two reports with none due between, the later begins where the earlier ends, or
\* a week before it.
LEMMA Tiles ==
    ASSUME TypeOK, NEW a \in Nat, NEW c \in Nat, FirstTick <= a, a < c, Due(a), Due(c),
           \A t \in a + 1 .. c - 1 : ~Due(t)
    PROVE  reportWindow(interval, c).since = reportWindow(interval, a).until + 1 - Repeated(c)
<1> DEFINE x == a \div DayLen
           y == c \div DayLen
<1>1. /\ x \in Nat /\ a = x * DayLen + (a % DayLen)
      /\ y \in Nat /\ c = y * DayLen + (c % DayLen)
  BY Division, Lengths
<1>2. a % DayLen = ReportTime /\ c % DayLen = ReportTime /\ DayDue(x) /\ DayDue(y)
  BY DueByDay
<1>3. midnight(a) = x * DayLen /\ midnight(c) = y * DayLen
  BY DEF midnight
<1>4. a = x * DayLen + ReportTime /\ c = y * DayLen + ReportTime
  BY <1>1, <1>2
<1>5. interval = "monthly" =>
        /\ reportWindow(interval, c) =
             [since |-> MonthStart(MonthStart(y) - 1) * DayLen, until |-> MonthStart(y) * DayLen - 1]
        /\ reportWindow(interval, a) =
             [since |-> MonthStart(MonthStart(x) - 1) * DayLen, until |-> MonthStart(x) * DayLen - 1]
  BY DEF reportWindow
<1>6. interval # "monthly" =>
        /\ reportWindow(interval, c).since = midnight(c) - Days(interval) * DayLen
        /\ reportWindow(interval, a).until = midnight(a) - 1
  BY DEF reportWindow, LastDays
<1>11. PICK e \in YearStarts : e <= x \div WeekLen
  BY YearBefore
<1>12. /\ interval = "monthly" => Repeated(c) = 0
       /\ Repeated(c) = IF Again(y \div WeekLen) THEN WeekLen * DayLen ELSE 0
  BY AgainIs DEF Repeated
<1> HIDE DEF x, y
<1>7. x < y
  <2> SUFFICES ASSUME y <= x PROVE FALSE
    BY <1>1
  <2>1. y * DayLen <= x * DayLen
    BY <1>1, TimesMono, Lengths
  <2>2. y * DayLen \in Nat /\ x * DayLen \in Nat
    BY <1>1, Lengths
  <2> QED
    BY <1>4, <2>1, <2>2, Lengths
<1>8. ASSUME NEW d \in x + 1 .. y - 1 PROVE ~DayDue(d)
  <2> DEFINE t == d * DayLen + ReportTime
  <2>1. d \in Nat /\ x < d /\ d < y
    BY <1>1
  <2>2. x * DayLen + DayLen <= d * DayLen /\ d * DayLen + DayLen <= y * DayLen
    BY <1>1, <2>1, TimesStrict, Lengths
  <2>3. d * DayLen \in Nat /\ x * DayLen \in Nat /\ y * DayLen \in Nat
    BY <1>1, <2>1, Lengths
  <2>4. t \in a + 1 .. c - 1
    BY <1>4, <2>2, <2>3, Lengths
  <2>5. t \div DayLen = d /\ t % DayLen = ReportTime
    <3>1. ReportTime \in 0 .. DayLen - 1
      BY Lengths
    <3> QED
      BY <2>1, <3>1, DayOf, Lengths
  <2> QED
    BY <2>4, <2>5, DueByDay
<1>9. CASE interval = "monthly"
  <2>1. x \in MonthStarts /\ y \in MonthStarts
    BY <1>2, <1>9 DEF DayDue
  <2>2. MonthStart(x) = x /\ MonthStart(y) = y
    <3>1. ASSUME NEW d \in MonthStarts, d \in Nat PROVE MonthStart(d) = d
      <4>1. MonthStart(d) \in Nat /\ MonthStart(d) <= d /\ d <= MonthStart(d)
        BY <3>1, MonthStartOf
      <4> QED
        BY <3>1, <4>1
    <3> QED
      BY <1>1, <2>1, <3>1
  <2>3. MonthStart(y - 1) = x
    <3>1. y - 1 \in Nat /\ x <= y - 1
      BY <1>1, <1>7
    <3>2. /\ MonthStart(y - 1) \in MonthStarts /\ MonthStart(y - 1) \in Nat
          /\ MonthStart(y - 1) <= y - 1 /\ x <= MonthStart(y - 1)
      BY <2>1, <3>1, MonthStartOf
    <3>3. MonthStart(y - 1) \notin x + 1 .. y - 1
      BY <1>8, <1>9, <3>2 DEF DayDue
    <3> QED
      BY <1>1, <3>2, <3>3
  <2>4. x * DayLen \in Nat
    BY <1>1, Lengths
  <2> QED
    BY <1>5, <1>9, <1>12, <2>2, <2>3, <2>4
<1>10. CASE interval # "monthly"
  <2> DEFINE z == IF Again(y \div WeekLen) THEN WeekLen ELSE 0
  <2>1. y - Days(interval) = x - z
    BY <1>1, <1>2, <1>7, <1>8, <1>10, <1>11, NextDay
  <2>2. Days(interval) \in Nat /\ z \in Nat
    BY DaysType, Lengths DEF TypeOK
  <2>5. Repeated(c) = z * DayLen
    BY <1>12, Lengths
  <2> HIDE DEF z
  <2>3. y * DayLen - Days(interval) * DayLen = x * DayLen - z * DayLen
    <3>1. y + z = x + Days(interval)
      BY <1>1, <2>1, <2>2
    <3>2. /\ (x + Days(interval)) * DayLen = x * DayLen + Days(interval) * DayLen
          /\ (y + z) * DayLen = y * DayLen + z * DayLen
      BY <1>1, <2>2, Lengths
    <3>3. /\ x * DayLen \in Nat /\ Days(interval) * DayLen \in Nat
          /\ y * DayLen \in Nat /\ z * DayLen \in Nat
      BY <1>1, <2>2, Lengths
    <3> QED
      BY <3>1, <3>2, <3>3
  <2>4. x * DayLen \in Nat /\ z * DayLen \in Nat
    BY <1>1, <2>2, Lengths
  <2> QED
    BY <1>3, <1>6, <1>10, <2>3, <2>4, <2>5
<1> QED
  BY <1>9, <1>10

LEMMA SentInductive == TypeOK /\ Times /\ Sent /\ [Next]_vars => Sent'
<1> SUFFICES ASSUME TypeOK, Times, Sent, [Next]_vars PROVE Sent'
  OBVIOUS
<1> USE DEF historyVars, abuseVars
<1>1. interval' = interval /\ clock \in Nat /\ FirstTick \in Nat /\ sent.at \in Nat \cup {None}
  BY Lengths DEF Next, HistoryBegin, HistoryInsert, AbuseReported, AbuseRecorded, Rotate, PruneHistory,
         CronFires, Generate, StatsQuery, OverviewQuery, Query, AbuseCount, AbuseFirst, AbuseLog, LogUnread,
         Mail, QueryFails, End, Tick, vars, TypeOK
<1>2. \A t : Due(t)' <=> Due(t)
  BY <1>1 DEF Due
<1> DEFINE SentAt(s, now) == /\ FirstTick <= s.at /\ s.at <= now
                             /\ Due(s.at)
                             /\ s.until = reportWindow(interval, s.at).until
                             /\ \A t \in s.at + 1 .. now - 1 : ~Due(t)
<1>3. ASSUME NEW s, NEW now, s = sent', now = clock', s.at # None => SentAt(s, now)
      PROVE  Sent'
  <2>1. s.at # None => /\ FirstTick <= s.at /\ s.at <= now
                       /\ Due(s.at)'
                       /\ s.until = reportWindow(interval', s.at).until
                       /\ \A t \in s.at + 1 .. now - 1 : ~(Due(t)')
    BY <1>1, <1>2, <1>3
  <2> QED
    BY <1>3, <2>1 DEF Sent
<1>4. PICK s, now : s = sent' /\ now = clock'
  OBVIOUS
<1>5. CASE CronFires
  <2>1. now = clock /\ Due(clock) /\ s.at = clock
    BY <1>4, <1>5 DEF CronFires
  <2>2. rep'.window = reportWindow(interval, clock)
    BY <1>5, NoReportType DEF CronFires, Begin, States
  <2>3. s.until = reportWindow(interval, clock).until
    BY <1>4, <1>5, <2>2 DEF CronFires
  <2>4. SentAt(s, now)
    BY <1>1, <2>1, <2>3 DEF Times
  <2> QED
    BY <1>3, <1>4, <2>4
<1>6. CASE sent' = NotSent
  BY <1>6 DEF Sent, NotSent
<1>7. CASE UNCHANGED <<sent, clock>>
  <2>1. s = sent /\ now = clock
    BY <1>4, <1>7
  <2>2. s.at # None => SentAt(s, now)
    BY <2>1 DEF Sent
  <2> QED
    BY <1>3, <1>4, <2>2
<1>8. CASE Tick /\ sent' # NotSent
  <2>1. s = sent /\ now = clock + 1 /\ ~(Due(clock) /\ sent.at # clock)
    BY <1>4, <1>8 DEF Tick
  <2>2. s.at # None => SentAt(s, now)
    <3> SUFFICES ASSUME s.at # None PROVE SentAt(s, now)
      OBVIOUS
    <3>1. s.at \in Nat /\ SentAt(s, clock)
      BY <1>1, <2>1 DEF Sent
    <3>2. ASSUME NEW t \in s.at + 1 .. now - 1 PROVE ~Due(t)
      <4>1. CASE t = clock
        BY <1>1, <2>1, <3>1, <3>2, <4>1
      <4>2. CASE t # clock
        <5>1. t \in s.at + 1 .. clock - 1
          BY <1>1, <2>1, <3>1, <3>2, <4>2
        <5> QED
          BY <3>1, <5>1
      <4> QED
        BY <4>1, <4>2
    <3>3. s.at <= now
      BY <1>1, <2>1, <3>1
    <3> QED
      BY <3>1, <3>2, <3>3
  <2> QED
    BY <1>3, <1>4, <2>2
<1>9. CronFires \/ sent' = NotSent \/ UNCHANGED <<sent, clock>> \/ Tick
  BY DEF Next, HistoryBegin, HistoryInsert, AbuseReported, AbuseRecorded, Rotate, PruneHistory,
         Generate, StatsQuery, OverviewQuery, Query, AbuseCount, AbuseFirst, AbuseLog, LogUnread,
         Mail, QueryFails, End, vars
<1> QED
  BY <1>5, <1>6, <1>7, <1>8, <1>9

-----------------------------------------------------------------------------
(* The theorems.                                                           *)

LEMMA InitIInv == Init => IInv
<1> SUFFICES ASSUME Init PROVE IInv
  OBVIOUS
<1> USE DEF Init
<1>1. rep \in States /\ rep.pc = "idle" /\ rep.calm
  BY NoReportType DEF NoReport
<1>2. DOMAIN made = {} /\ DOMAIN calls = {}
  OBVIOUS
<1>3. TypeOK
  <2>1. made \in Seq(Nat) /\ calls \in Seq(Calls)
    BY EmptySeq
  <2>2. sent \in [at : Nat \cup {None}, until : Int]
    BY DEF NotSent, None
  <2>3. clock \in Nat
    BY Lengths
  <2> QED
    BY <1>1, <2>1, <2>2, <2>3 DEF TypeOK, States, Calls
<1>4. Times
  BY <1>1, <1>2, Lengths DEF Times
<1>5. Records
  BY <1>2 DEF Records
<1>6. Counts /\ Idle /\ Seen
  BY <1>1 DEF Counts, Idle, Seen
<1>7. Sent
  BY DEF Sent, NotSent
<1> QED
  BY <1>3, <1>4, <1>5, <1>6, <1>7 DEF IInv

LEMMA NextIInv == IInv /\ [Next]_vars => IInv'
BY TypeInductive, TimesInductive, RecordsInductive, CountsInductive, IdleInductive, SeenInductive,
   SentInductive DEF IInv

LEMMA InvHolds == Spec => []IInv
BY InitIInv, NextIInv, PTL DEF Spec

\* Every variable keeps its type.
THEOREM TypeCorrect == Spec => []TypeOK
<1>1. IInv => TypeOK
  BY DEF IInv
<1> QED
  BY InvHolds, <1>1, PTL

\* The numbers of a report agree with each other, whatever the daemon writes
\* between the queries, and whether the day of the report is shown or not.
THEOREM NumbersOfAReportAgree == Spec => []NumbersAgree
<1>1. IInv => NumbersAgree
  BY SeenAgrees DEF IInv
<1> QED
  BY InvHolds, <1>1, PTL

\* A report to AbuseIPDB counts by its row or by its line and never by both,
\* whatever was stored, deleted or written by an old version.
THEOREM ReportsCountOnce == Spec => []AbuseCountedOnce
<1>1. IInv => AbuseCountedOnce
  BY CountedOnce DEF IInv
<1> QED
  BY InvHolds, <1>1, PTL

\* The windows of consecutive reports of cron leave out no day and repeat none, for
\* each interval, any length of a week and any calendar of months; a biweekly report
\* repeats exactly one week after each ISO year with an odd number of weeks.
THEOREM ReportsTile == Spec => WindowsTile
<1>1. IInv /\ [Next]_vars =>
        [CronFires /\ sent.at # None => rep'.window.since = sent.until + 1 - Repeated(clock)]_vars
  <2> SUFFICES ASSUME IInv, CronFires, sent.at # None
               PROVE  rep'.window.since = sent.until + 1 - Repeated(clock)
    OBVIOUS
  <2>1. TypeOK /\ Times /\ Sent
    BY DEF IInv
  <2>2. /\ sent.at \in Nat /\ FirstTick <= sent.at
        /\ clock \in Nat /\ sent.at < clock /\ Due(clock)
    BY <2>1 DEF CronFires, Sent, TypeOK
  <2>3. rep'.window = reportWindow(interval, clock)
    BY NoReportType DEF CronFires, Begin, States
  <2>4. reportWindow(interval, clock).since = reportWindow(interval, sent.at).until + 1 - Repeated(clock)
    BY <2>1, <2>2, Tiles DEF Sent
  <2> QED
    BY <2>1, <2>3, <2>4 DEF Sent
<1> QED
  BY InvHolds, <1>1, PTL DEF Spec, WindowsTile, Repeated
=============================================================================
