SPECIFICATION Spec
CONSTANTS
    None = None
    c1 = c1
    c2 = c2
    Callers = {c1, c2}
    Grants <- AllGrants
    TTL = 3
    InvalidTTL = 1
    MaxFlight = 1
    MaxChanges = 1
    MaxLeaves = 1
INVARIANTS RevocationBounded RefusalBounded RejectedWithoutLeavers ErrorsFromGitHub NobodyForgotten
SYMMETRY Symmetry
