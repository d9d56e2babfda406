SPECIFICATION FairSpec
CONSTANTS
    None = None
    r1 = r1
    a = a
    b = b
    bad = bad
    Requests = {r1}
    Oids = {a, b}
    BadOid = bad
    LengthOf <- MCLengthOf
    Inputs <- MCInputs
    MaxObjects = 3
    Concurrency = 2
    MaxUploadSize = 5
    Presigned = TRUE
    MaxPresigned = 4
    MaxUint64 = 7
    Spaces <- AllSpaces
    MaxRequests = 1
INVARIANTS RepliesComplete AnswersTrue GrantsFit
PROPERTY EveryBatchEnds
CHECK_DEADLOCK FALSE
