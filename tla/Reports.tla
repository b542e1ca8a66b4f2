-------------------------------- MODULE Reports --------------------------------
(***************************************************************************)
(* Reports over the history.  cron sends one per interval; it is put together *)
(* from many queries outside a transaction, while the daemon writes history,  *)
(* records its AbuseIPDB reports in the log and in the database, and deletes  *)
(* what is too old.  A row is known by its number, a day has DayLen ticks, and *)
(* weeks and months may be short.                                            *)
(***************************************************************************)
EXTENDS Integers, Sequences, FiniteSets, FiniteSetsExt

CONSTANTS
    Intervals,      \* REPORT_INTERVAL
    DayLen,         \* ticks of a day
    ReportTime,     \* REPORT_TIME: a tick of the day
    WeekLen,        \* 7; week 0 starts on day 0
    MonthDays,      \* 30
    MonthStarts,    \* days that are the first of a month, two of them before the start
    YearStarts,     \* weeks that are week 1 of an ISO year, one of them before the start
    BusiestRange,   \* REPORT_BUSIEST_DAY_RANGE, 0 for the window of the report
    Retention,      \* BAN_HISTORY_RETENTION_DAYS
    FirstTick,      \* bound: the time the system is observed, and for each interval
    LastTick,       \* bound: up to when
    MaxEvents       \* bound, for each interval: bans written to the history and reports to AbuseIPDB

ASSUME ParameterAssumption ==
    /\ Intervals \subseteq {"daily", "weekly", "biweekly", "monthly"}
    /\ {DayLen, WeekLen, MonthDays} \subseteq Nat \ {0}
    /\ {ReportTime, BusiestRange, Retention, FirstTick} \subseteq Nat
    /\ ReportTime < DayLen
    /\ MonthStarts \subseteq Nat
    /\ \E d, e \in MonthStarts : d < e /\ e * DayLen <= FirstTick
    /\ YearStarts \subseteq Nat
    /\ \E y \in YearStarts : y * WeekLen * DayLen <= FirstTick
    /\ {LastTick, MaxEvents} \subseteq [Intervals -> Nat]

VARIABLES
    interval, clock,
    made,           \* history: the time of every row of a ban, in order
    writing,        \* rows that have their time and are not inserted yet
    table,          \* rows of ban_history
    calls,          \* history: successful reports, their times in the log and in the table
    log,            \* reports with a line in LOG_FILE
    stored,         \* reports with a row in abuseipdb_reports
    rep,            \* the report in progress
    sent            \* history: the last report cron sent; none if one was missed since

historyVars == <<made, writing, table>>
abuseVars == <<calls, log, stored>>
vars == <<interval, clock, historyVars, abuseVars, rep, sent>>

None == -100
Windows == [since : Int, until : Int]
Within(t, w) == w.since <= t /\ t <= w.until

-----------------------------------------------------------------------------
(* Windows and schedules.                                                  *)

midnight(t) == (t \div DayLen) * DayLen
MonthStart(day) == Max({d \in MonthStarts : d <= day})

\* The full days before the day of t.
LastDays(n, t) == [since |-> midnight(t) - n * DayLen, until |-> midnight(t) - 1]

Days(i) == [daily |-> 1, weekly |-> WeekLen, biweekly |-> 2 * WeekLen, monthly |-> MonthDays][i]

\* Faulty variant: a month has thirty days.
FixedMonth(i, t) == LastDays(Days(i), t)

\* Faulty variant: the window reaches up to now.
WindowToNow(i, t) == [LastDays(Days(i), t) EXCEPT !.until = t]

\* reportWindow; a month is the calendar month before.
reportWindow(i, t) ==
    IF i = "monthly"
    THEN LET first == MonthStart(t \div DayLen)
         IN  [since |-> MonthStart(first - 1) * DayLen, until |-> first * DayLen - 1]
    ELSE LastDays(Days(i), t)

\* date +%V, the number of a week in its ISO year, which begins anew after 52 or 53.
isoWeek(week) == week - Max({y \in YearStarts : y <= week}) + 1

\* cronSchedule, and the test of the week in the command of cron.
Due(t) ==
    LET day == t \div DayLen
    IN  /\ t % DayLen = ReportTime
        /\ CASE interval = "daily" -> TRUE
             [] interval = "weekly" -> day % WeekLen = 0
             [] interval = "biweekly" -> day % WeekLen = 0 /\ isoWeek(day \div WeekLen) % 2 = 1
             [] interval = "monthly" -> day \in MonthStarts

\* The windows of the queries of ReportStats: bans, attack types, busiest day; the
\* further ones are like the second.
StatsWindows(w, t) ==
    <<w, w, IF BusiestRange = 0 THEN w ELSE [w EXCEPT !.since = LastDays(BusiestRange, t).since]>>

\* periodOverviewRows: today is shown in the evening, the last tick of a day.
Overview(t) ==
    (IF t % DayLen = DayLen - 1 THEN <<[since |-> midnight(t), until |-> t]>> ELSE <<>>)
    \o [k \in 1 .. 4 |-> LastDays(<<1, WeekLen, 2 * WeekLen, MonthDays>>[k], t)]

NotSent == [at |-> None, until |-> None]
NoReport == [pc |-> "idle", begun |-> 0, window |-> [since |-> 0, until |-> 0], todo |-> <<>>, seen |-> {},
             count |-> 0, first |-> None, calm |-> TRUE]

-----------------------------------------------------------------------------
(* The daemon.                                                             *)

\* A report in progress may see half of it: what it has read is forgotten.
Disturb(b) == rep' = IF b THEN [rep EXCEPT !.calm = FALSE, !.seen = {}, !.count = 0] ELSE rep

\* History takes the time, then inserts, or fails.
HistoryBegin ==
    /\ Len(made) + Len(calls) < MaxEvents[interval]
    /\ made' = Append(made, clock)
    /\ writing' = writing \cup {Len(made) + 1}
    /\ UNCHANGED <<interval, clock, table, abuseVars, rep, sent>>

HistoryInsert(r) ==
    /\ r \in writing
    /\ writing' = writing \ {r}
    /\ \/ table' = table \cup {r} /\ Disturb(made[r] < midnight(clock) /\ rep.pc # "idle")
       \/ UNCHANGED <<table, rep>>
    /\ UNCHANGED <<interval, clock, made, abuseVars, sent>>

\* reportAbuseIPDB: AbuseIPDB accepted, the line is written.  An old version of the
\* daemon stores no row; the update takes longer than a second.
AbuseReported(old) ==
    /\ Len(made) + Len(calls) < MaxEvents[interval]
    /\ \A c \in DOMAIN calls : IF old THEN calls[c].old ELSE calls[c].old => calls[c].line < clock
    /\ calls' = Append(calls, [line |-> clock, row |-> None, old |-> old])
    /\ log' = log \cup {Len(calls) + 1}
    /\ UNCHANGED <<interval, clock, historyVars, stored, rep, sent>>

\* RecordAbuseIPDBReport; it may fail, which leaves the line alone.
AbuseRecorded(c) ==
    /\ c \in DOMAIN calls /\ calls[c].row = None /\ ~calls[c].old
    /\ calls' = [calls EXCEPT ![c].row = clock]
    /\ stored' = stored \cup {c}
    /\ UNCHANGED <<interval, clock, historyVars, log, rep, sent>>

\* The log is rotated away.
Rotate ==
    /\ log # {}
    /\ log' = {}
    /\ Disturb(rep.pc # "idle")
    /\ UNCHANGED <<interval, clock, historyVars, calls, stored, sent>>

\* runRetention, PruneHistory: both tables in one transaction.
PruneHistory ==
    LET before == clock - Retention * DayLen
        rows == {r \in table : made[r] < before}
        reports == {c \in stored : calls[c].row < before}
    IN  /\ Retention > 0
        /\ rows \cup reports # {}
        /\ table' = table \ rows
        /\ stored' = stored \ reports
        /\ Disturb(rep.pc # "idle")
        /\ UNCHANGED <<interval, clock, made, writing, calls, log, sent>>

-----------------------------------------------------------------------------
(* A report, in a process of its own.                                      *)

Begin ==
    /\ rep.pc = "idle"
    /\ LET w == reportWindow(interval, clock)
       IN  rep' = [NoReport EXCEPT !.pc = "stats", !.begun = clock, !.window = w, !.todo = StatsWindows(w, clock)]

\* report-send by cron, once.
CronFires ==
    /\ Due(clock) /\ sent.at # clock
    /\ Begin
    /\ sent' = [at |-> clock, until |-> rep'.window.until]
    /\ UNCHANGED <<interval, clock, historyVars, abuseVars>>

\* report-generate, at any time.
Generate ==
    /\ Begin
    /\ UNCHANGED <<interval, clock, historyVars, abuseVars, sent>>

Rows(w) == {r \in table : Within(made[r], w)}

\* What a query shows: the rows of its window, zeros if it failed.
Shown(w, failed) == [window |-> w, failed |-> failed, rows |-> IF failed THEN {} ELSE Rows(w)]

Query(pc, next, failed) ==
    /\ rep.pc = pc /\ rep.todo # <<>>
    /\ rep' = [rep EXCEPT !.seen = IF rep.calm THEN @ \cup {Shown(Head(rep.todo), failed)} ELSE @,
                          !.todo = Tail(@),
                          !.pc = IF Len(rep.todo) = 1 THEN next ELSE pc]
    /\ UNCHANGED <<interval, clock, historyVars, abuseVars, sent>>

StatsQuery == Query("stats", "count", FALSE)

\* AbuseIPDBReportStats: two queries.
AbuseCount ==
    /\ rep.pc = "count"
    /\ rep' = [rep EXCEPT !.pc = "first",
                          !.count = Cardinality({c \in stored : Within(calls[c].row, rep.window)})]
    /\ UNCHANGED <<interval, clock, historyVars, abuseVars, sent>>

AbuseFirst ==
    /\ rep.pc = "first"
    /\ rep' = [rep EXCEPT !.pc = "log",
                          !.first = IF stored = {} THEN None ELSE Min({calls[c].row : c \in stored})]
    /\ UNCHANGED <<interval, clock, historyVars, abuseVars, sent>>

\* Faulty variant: lines of the same second as the first row count as well.
UpToFirst == IF rep.first # None /\ rep.first < rep.window.until THEN rep.first ELSE rep.window.until

\* abuseReports: the log serves up to the first row.
logUntil == IF rep.first # None /\ rep.first - 1 < rep.window.until THEN rep.first - 1 ELSE rep.window.until

\* countAbuseReports; then the overview with a time of its own.
AbuseLog ==
    LET lines == {c \in log : Within(calls[c].line, [rep.window EXCEPT !.until = logUntil])}
    IN  /\ rep.pc = "log"
        /\ rep' = [rep EXCEPT !.pc = "overview", !.count = @ + Cardinality(lines), !.todo = Overview(clock)]
        /\ UNCHANGED <<interval, clock, historyVars, abuseVars, sent>>

\* A log that cannot be opened counts as if it were rotated away.
LogUnread ==
    /\ rep.pc = "log"
    /\ rep' = [rep EXCEPT !.pc = "overview", !.calm = FALSE, !.seen = {}, !.count = 0,
                          !.todo = Overview(clock)]
    /\ UNCHANGED <<interval, clock, historyVars, abuseVars, sent>>

\* PeriodSummary of each row of the overview; the report goes on without one that fails.
OverviewQuery == \E failed \in BOOLEAN : Query("overview", "mail", failed)

\* The report ends; if it was the last of cron and failed, that one is missed.
End ==
    /\ rep' = NoReport
    /\ \/ UNCHANGED sent
       \/ sent.at = rep.begun /\ sent' = NotSent
    /\ UNCHANGED <<interval, clock, historyVars, abuseVars>>

\* sendMail, or the output of report-generate; a mail that fails is not tried again.
Mail == rep.pc = "mail" /\ End

\* Any query before the overview that fails ends the report.
QueryFails == rep.pc \in {"stats", "count", "first"} /\ End

\* A report that cron did not start at its time is missed.  Bound: a report takes at
\* most one tick.
Tick ==
    /\ clock < LastTick[interval]
    /\ rep.pc = "idle" \/ clock = rep.begun
    /\ clock' = clock + 1
    /\ sent' = IF Due(clock) /\ sent.at # clock THEN NotSent ELSE sent
    /\ UNCHANGED <<interval, historyVars, abuseVars, rep>>

Init ==
    /\ interval \in Intervals
    /\ clock = FirstTick
    /\ made = <<>> /\ writing = {} /\ table = {}
    /\ calls = <<>> /\ log = {} /\ stored = {}
    /\ rep = NoReport
    /\ sent = NotSent

Next ==
    \/ HistoryBegin
    \/ \E r \in 1 .. MaxEvents[interval] : HistoryInsert(r)
    \/ \E old \in BOOLEAN : AbuseReported(old)
    \/ \E c \in 1 .. MaxEvents[interval] : AbuseRecorded(c)
    \/ Rotate \/ PruneHistory
    \/ CronFires \/ Generate
    \/ StatsQuery \/ AbuseCount \/ AbuseFirst \/ AbuseLog \/ LogUnread \/ OverviewQuery
    \/ Mail \/ QueryFails
    \/ Tick

Spec == Init /\ [][Next]_vars

-----------------------------------------------------------------------------
(* Properties.                                                             *)

\* Every variable has its type.
TypeOK ==
    /\ interval \in Intervals /\ clock \in Nat
    /\ made \in Seq(Nat) /\ writing \cup table \subseteq DOMAIN made
    /\ calls \in Seq([line : Nat, row : Nat \cup {None}, old : BOOLEAN])
    /\ log \cup stored \subseteq DOMAIN calls
    /\ rep \in [pc : {"idle", "stats", "count", "first", "log", "overview", "mail"},
                begun : Nat, window : Windows, todo : Seq(Windows),
                seen : SUBSET [window : Windows, failed : BOOLEAN, rows : SUBSET Nat],
                count : Nat, first : Nat \cup {None}, calm : BOOLEAN]
    /\ sent \in [at : Nat \cup {None}, until : Int]

\* A Monday that begins an ISO year, after a week with an odd number: the year had
\* 53 weeks, and 53 and 1 are both odd.
AfterLongYear(t) ==
    LET week == (t \div DayLen) \div WeekLen
    IN  week \in YearStarts /\ isoWeek(week - 1) % 2 = 1

\* Reports of cron that follow each other without a miss leave out no day, and repeat
\* none but for a biweekly one after a year of 53 weeks, which repeats exactly one week
\* (report.go, cronSchedule, the command of cron, and reportWindow: "Immer der
\* vollstaendige Vormonat").
WindowsTile ==
    [][CronFires /\ sent.at # None =>
         rep'.window.since = sent.until + 1
             - IF interval = "biweekly" /\ AfterLongYear(clock) THEN WeekLen * DayLen ELSE 0]_vars

\* The numbers of a report agree, though the daemon goes on banning between the
\* queries: equal windows show equal rows, a wider window shows the rows of a
\* narrower one (db.go, reportAttackTypes: "damit die Summe der Angriffsarten
\* immer der Gesamtzahl der Sperren entspricht").  Excepted are a row of the overview
\* whose query failed, which shows zeros, and a report during which the retention
\* runs, a row of the day before comes late or the log is rotated or unreadable.
NumbersAgree ==
    rep.calm =>
        \A a, b \in rep.seen :
            /\ ~a.failed /\ ~b.failed
            /\ b.window.since <= a.window.since /\ a.window.until <= b.window.until
            => a.rows = {r \in b.rows : Within(made[r], a.window)}

\* Every report was stored in the second of its line, or comes from an old version.
Straight == \A c \in DOMAIN calls : calls[c].old \/ calls[c].row = calls[c].line

\* A report to AbuseIPDB counts once, by its row or by its line, before and after
\* an update of the daemon and whatever the retention has deleted (report.go,
\* abuseReports), if every report was recorded in the second of its line, and neither
\* rotation nor retention runs during the report, which can read the log.
AbuseCountedOnce ==
    rep.pc = "mail" /\ rep.calm /\ Straight =>
        rep.count = Cardinality({c \in log \cup stored : Within(calls[c].line, rep.window)})
================================================================================
