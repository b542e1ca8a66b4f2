------------------------------- MODULE MCReports -------------------------------
(* Reports over short days: weeks of two days, months of two and three, years   *)
(* of three weeks, each interval as long as it takes to send two reports, the   *)
(* biweekly one the third after a long year.                                  *)
EXTENDS Reports

MCMonthStarts == {0, 2, 5}
\* Week 1 is observed first; the years have an odd number of weeks.
MCYearStarts == {1, 4}
MCMaxEvents == [daily |-> 2, weekly |-> 2, biweekly |-> 1, monthly |-> 2]
MCLastTick == [daily |-> 7, weekly |-> 8, biweekly |-> 16, monthly |-> 10]
=============================================================================
