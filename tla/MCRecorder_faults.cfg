\* One thread, two recorders in turn, sources, panics, writes and files that fail.
SPECIFICATION Spec
CONSTANTS
    t1 = t1
    Threads = {t1}
    Flusher = flusher
    MaxRecorders = 2
    Capacity = 1
    BatchSize = 1
    MaxEvents = 2
    MayPanic = TRUE
    HasPipeline = TRUE
    HasSources = TRUE
    MaxDrains = 1
    MaxFileSize = 2
    MaxTotalSize = 3
    Header = 1
    IsDisk = TRUE
    IoFaults = {"write", "create_err"}
CHECK_DEADLOCK FALSE
PROPERTIES
    ImplementsTraceLog
    LifecycleMonotone
