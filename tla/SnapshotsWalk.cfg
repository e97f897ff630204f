SPECIFICATION Spec
CONSTANTS
    Names = {n1, n2}
    a = a
    b = b
    c = c
    Contents = {a, b, c}
    None = None
    Dirs <- DirSeq
    DirOf <- DirMap
    MaxWrites = 4
INVARIANTS UntouchedSurvive
CHECK_DEADLOCK FALSE
