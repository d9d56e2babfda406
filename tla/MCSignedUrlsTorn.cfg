SPECIFICATION Spec
CONSTANTS
    None = None
    Missing = Missing
    Short = Short
    Zero = Zero
    Accepted = Accepted
    Refused = Refused
    p1 = p1
    h1 = h1
    k1 = k1
    k2 = k2
    k3 = k3
    g1 = g1
    g2 = g2
    Procs <- OneProc
    Handlers <- OneHandler
    Keys <- ThreeKeys
    Grants <- TwoGrants
    ConfiguredKey = None
    Expiry = 1
    MaxTime = 2
    MaxStarts = 3
INVARIANT StartsUnaided
CHECK_DEADLOCK FALSE
