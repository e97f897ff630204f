SPECIFICATION Spec
CONSTANTS
    None = None
    Writers = {w1, w2}
    Callbacks = {f1, f2}
    Jobs = {j1}
    Topics = {t1}
    Subs = {s1}
    Procs = {p1}
    Tasks = {a1}
INVARIANTS FiresEachTime
PROPERTIES WritesAreCopied LeasesEnd TasksFinish
CHECK_DEADLOCK FALSE
