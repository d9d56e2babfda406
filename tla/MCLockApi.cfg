SPECIFICATION ApiSpec
SYMMETRY MCSymmetry
CONSTANTS
    None = None
    ann = ann
    Ann = Ann
    bob = bob
    pathA = pathA
    pathB = pathB
    pathC = pathC
    Ids = {1, 2, 3}
    Paths = {pathA, pathB, pathC}
    Limits <- MCLimits
    DefaultLimit = 1
    MaxLimit = 2
    MaxClock = 1
    Names = {ann, Ann, bob}
    Fold <- MCFold
INVARIANTS NothingMissed PagesAscend VerifyAgreesWithUnlock
