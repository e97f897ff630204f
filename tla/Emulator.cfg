SPECIFICATION SceneSpec
CONSTANTS
    None = None
    Clients = {a, b}
    Durations = {0, 1, 2}
    Delays = {0, 1, 2}
    RestoreTimes = {0, 1, 2}
    RestoreAhead = FALSE
    MaxNow = 3
    MaxTimers = 3
    Goroutines = {g1, g2}
    Callers = {k1, k2}
    Nobody = Nobody
    c1 = c1
    c2 = c2
    p1 = p1
    p2 = p2
    Admin = admin
    Readers = {r1}
    Tokens = {t1, t2}
    Reuse = FALSE
INVARIANTS NothingOverdue EachRouteReached   ServesOneVersion OneRevisionServes  NoOutputLost ServesItsUpload
PROPERTIES FiredInOrder TravelDrains
CHECK_DEADLOCK FALSE
