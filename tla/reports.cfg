CONSTANTS
    Intervals = {"daily", "weekly", "biweekly", "monthly"}
    DayLen = 2
    ReportTime = 0
    WeekLen = 2
    MonthDays = 2
    MonthStarts <- MCMonthStarts
    YearStarts <- MCYearStarts
    BusiestRange = 3
    Retention = 2
    FirstTick = 4
    LastTick <- MCLastTick
    MaxEvents <- MCMaxEvents
SPECIFICATION Spec
PROPERTY WindowsTile
INVARIANT NumbersAgree
INVARIANT AbuseCountedOnce
CHECK_DEADLOCK FALSE
