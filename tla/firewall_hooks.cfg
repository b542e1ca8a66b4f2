CONSTANTS
    p1 = p1
    p2 = p2
    Ports = {p1, p2}
    Confs <- MCConfs
    Foreign <- MCForeign
    MaxCalls = 3
    MaxFaults = 1
SPECIFICATION Spec
INVARIANT SetupEstablishes
INVARIANT NoGapOnChange
INVARIANT RemoveLeavesNothing
PROPERTY ForeignKept
CHECK_DEADLOCK FALSE
