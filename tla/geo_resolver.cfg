CONSTANTS
    a1 = a1
    a2 = a2
    w1 = w1
    w2 = w2
    IPs = {a1}
    Lookups = {w1, w2}
    Modes = {"auto", "manual"}
    Expires = TRUE
    MaxVersion = 2
    MaxStops = 1
SPECIFICATION FairSpec
INVARIANT AnswersCurrent
INVARIANT RowsMatchTag
INVARIANT NoReadAfterClose
PROPERTY NewDatabaseIsUsed
