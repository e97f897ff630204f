SPECIFICATION MCSpec
CONSTANTS
    None = None
    Topics = {t}
    Subs = {s}
    Procs = {p, q}
    Streams = {c, d}
    Mixes <- AllMixes
    AckDeadline = 1
    Extensions = {1, 2}
    MaxMessages = 2
    MaxDeliveries = 3
    MaxNow = 3
SYMMETRY RequestSymmetry
INVARIANTS HeldAsOwed LeaseOnTime NoLostWakeup
PROPERTIES AckIDsFresh
