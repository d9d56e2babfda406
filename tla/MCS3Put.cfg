SPECIFICATION Spec
CONSTANTS
    None = None
    u1 = u1
    u2 = u2
    PartSize = 2
    MaxParts = 3
    MaxPartSize = 3
    Uploads = {u1, u2}
    Bodies <- MCBodies
    Contents <- MCContents
    MaxUploadSize = 11
    MaxOps = 2
    MaxCrashes = 1
INVARIANTS ObjectWhole AckedStored PartsAcceptable PartsCleared EnoughParts
CHECK_DEADLOCK FALSE
