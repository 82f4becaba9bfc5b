\* A ring of four bytes, segments of one or three, two stages, one retry.
SPECIFICATION FairSpec
CONSTANTS
    Processors = 2
    InitFaults = {"error", "disabling", "panic", "hook"}
    RingBudget = 4
    MaxSegments = 3
    SegSizes = {1, 3}
    RetryBudget = 1
INVARIANTS
    
    RingInv
    DrainLeavesNothing
    StoppedMeansStopped
PROPERTIES
    ImplementsDelivery
    ShutdownEnds
