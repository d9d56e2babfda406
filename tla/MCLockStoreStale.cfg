SPECIFICATION Spec
CONSTANTS
    None = None
    p1 = p1
    p2 = p2
    w1 = w1
    w2 = w2
    w3 = w3
    i1 = i1
    i2 = i2
    i3 = i3
    Procs = {p1, p2}
    Workers = {w1, w2, w3}
    ProcOf <- MCProcOf
    Paths = {"a", "b"}
    Owners <- MCOwners
    Fold <- MCFold
    Ids = {i1, i2, i3}
    Requests <- ReplaceRequests
    MtimeAdvances = FALSE
    MaxOps = 4
    MaxCrashes = 0
PROPERTIES ListIsCurrent
CHECK_DEADLOCK FALSE
