SPECIFICATION ServiceSpec
CONSTANTS
    None = None
    Nobody = Nobody
    Letters <- MCLetters
    Lower <- MCLower
    Probes = {p1, p2, p3}
    TTL = 2
    CheckTimeout = 2
    HealthcheckTimeout = 4
    Inputs <- MCInputs
INVARIANTS DirectoriesApart RefusedForCause AuthenticatorsOwn CheckPrintsWhatServes AnswersRecent ProbesInTime
SYMMETRY MCSymmetry
CHECK_DEADLOCK FALSE
