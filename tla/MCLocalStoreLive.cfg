SPECIFICATION FairSpec
CONSTANTS
    None = None
    p1 = p1
    p2 = p2
    u1 = u1
    u2 = u2
    t1 = t1
    t2 = t2
    Procs = {p1}
    Uploads = {u1, u2}
    ProcOf <- SameProcess
    Temps = {t1, t2}
    Chunks = {"x"}
    MaxLen = 1
    Digest <- MCDigest
    OidTexts = {"AA"}
    Lower <- OneObject
    MaxAge = 1
    MaxStall = 2
    MaxElapsed = 0
    MaxOps = 2
    MaxCrashes = 0
    MaxPowerLosses = 1
INVARIANTS ObjectsIntact
PROPERTIES OwnTempsKept OrphansSwept UploadsEnd
