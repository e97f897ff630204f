SPECIFICATION FairSpec
CONSTANTS
    MaxWork = 2
    MaxPasses = 3
    MaxAttempts = 2
    MaxJumps = 1
PROPERTY AdvanceReturns
CHECK_DEADLOCK FALSE
