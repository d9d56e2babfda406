SPECIFICATION Spec
CONSTANTS
    None = None
    p1 = p1
    p2 = p2
    u1 = u1
    u2 = u2
    t1 = t1
    t2 = t2
    Procs = {p1, p2}
    Uploads = {u1, u2}
    ProcOf <- MCProcOf
    Temps = {t1, t2}
    Chunks = {"x"}
    MaxLen = 1
    Digest <- MCDigest
    OidTexts = {"AA"}
    Lower <- OneObject
    MaxAge = 2
    MaxStall = 1
    MaxElapsed = 1
    MaxOps = 2
    MaxCrashes = 1
    MaxPowerLosses = 0
INVARIANTS ObjectsIntact AckedStored LiveTempsKept
SYMMETRY TempNames
