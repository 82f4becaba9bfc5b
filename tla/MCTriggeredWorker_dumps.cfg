\* Three requests at two instants, windows open on both sides, two segments, one retry.
SPECIFICATION Spec
CONSTANTS
    Processors = 1
    InitFaults = {}
    RingBudget = 2
    MaxTime = 1
    MaxSegments = 2
    MaxDumps = 3
    Requests <- BothWays
    DebounceWindow = 1
    RetryBudget = 1
INVARIANTS
    
    OnlyWhatWasAskedFor
    SettlesWhatTheRingHeld
    RateLimited
