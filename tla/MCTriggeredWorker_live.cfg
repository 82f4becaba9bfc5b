SPECIFICATION FairSpec
CONSTANTS
    Processors = 1
    InitFaults = {}
    RingBudget = 1
    MaxTime = 1
    MaxSegments = 1
    MaxDumps = 2
    Requests <- OneForward
    DebounceWindow = 0
    RetryBudget = 1
PROPERTIES
    EveryRequestAnswered
    ShutdownEnds
