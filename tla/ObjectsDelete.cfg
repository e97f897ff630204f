SPECIFICATION Spec
CONSTANTS
    None = None
    x = x
    y = y
    w1 = w1
    w2 = w2
    w3 = w3
    Procs = {w1, w2}
    Names = {x, y}
    Contents = {a, b, c}
    Versionings = {TRUE, FALSE}
    FreshUploads = TRUE
    Requests <- DeleteRequests
    MaxRequests = 3
    MaxNow = 2
    MaxGeneration = 5
    MaxWriteAttempts = 2
    MaxResolveAttempts = 2
SYMMETRY ContentSymmetry
INVARIANTS ContentCounted NamedIsReadable
CHECK_DEADLOCK FALSE
