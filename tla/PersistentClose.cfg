SPECIFICATION Spec
CONSTANTS
    Writers = {w1}
    Callbacks = {f1, f2}
    MaxWrites = 2
    MaxRestarts = 0
INVARIANTS FinalSnapshot
CHECK_DEADLOCK FALSE
