\* Two threads, a full collector, a drain on a timer and a stop; no rotation.
SPECIFICATION FairSpec
CONSTANTS
    t1 = t1
    t2 = t2
    Threads = {t1, t2}
    Flusher = flusher
    MaxRecorders = 1
    Capacity = 2
    BatchSize = 2
    MaxEvents = 2
    MayPanic = FALSE
    HasPipeline = FALSE
    HasSources = FALSE
    MaxDrains = 1
    MaxFileSize = 100
    MaxTotalSize = 100
    Header = 0
    IsDisk = TRUE
    IoFaults = {}
CHECK_DEADLOCK FALSE
INVARIANTS
    TypeOK
    EventInOnePlace
    DrainBarrier
    ThreadOrder
PROPERTIES
    DueDrainHappens
    StopReturns
