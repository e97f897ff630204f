SPECIFICATION Spec
CONSTANTS
    None = None
    x = x
    y = y
    w1 = w1
    w2 = w2
    w3 = w3
    Procs = {w1, w2}
    Names = {x}
    Contents = {a, b}
    Versionings = {FALSE}
    FreshUploads = TRUE
    Requests <- RacingRequests
    MaxRequests = 1
    MaxNow = 1
    MaxGeneration = 4
    MaxWriteAttempts = 2
    MaxResolveAttempts = 2
INVARIANTS CountNamesFile
CHECK_DEADLOCK FALSE
