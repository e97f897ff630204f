SPECIFICATION Spec
CONSTANTS
    None = None
    Tasks = {a}
    Mixes <- TaskMixes
    Delays = {0, 1}
    MinBackoff = 1
    MaxBackoff = 2
    WordBits = 8
    MaxNow = 4
INVARIANTS NeverStuck
PROPERTIES  RetryWaits
CHECK_DEADLOCK FALSE
