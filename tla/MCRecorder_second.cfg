SPECIFICATION Spec
CONSTANTS
    t1 = t1
    t2 = t2
    Threads = {t1, t2}
    Flusher = flusher
    MaxRecorders = 2
    Capacity = 2
    BatchSize = 2
    MaxEvents = 2
    MayPanic = FALSE
    HasPipeline = FALSE
    HasSources = FALSE
    MaxDrains = 0
    MaxFileSize = 100
    MaxTotalSize = 100
    Header = 0
    IsDisk = TRUE
    IoFaults = {}
SYMMETRY ThreadSymmetry
CHECK_DEADLOCK FALSE
INVARIANTS
    LaterRecorderDrains
