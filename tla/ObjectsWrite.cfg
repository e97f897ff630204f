SPECIFICATION Spec
CONSTANTS
    None = None
    x = x
    y = y
    w1 = w1
    w2 = w2
    w3 = w3
    Procs = {w1, w2, w3}
    Names = {x}
    Contents = {a, b, c}
    Versionings = {FALSE}
    FreshUploads = TRUE
    Requests <- WriteRequests
    MaxRequests = 2
    MaxNow = 1
    MaxGeneration = 4
    MaxWriteAttempts = 2
    MaxResolveAttempts = 2
SYMMETRY ContentSymmetry
PROPERTIES GenerationsIncrease ConditionalWriteIsAtomic UpdatesAreSerial
CHECK_DEADLOCK FALSE
