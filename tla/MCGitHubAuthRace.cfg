SPECIFICATION Spec
CONSTANTS
    None = None
    c1 = c1
    c2 = c2
    Callers = {c1, c2}
    Grants <- FewGrants
    TTL = 2
    InvalidTTL = 1
    MaxFlight = 1
    MaxChanges = 0
    MaxLeaves = 1
INVARIANTS RejectedOnlyIfInvalid
