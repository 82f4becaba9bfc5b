\* Two segments, room for one, uploaded or written back, a crash and a restart.
SPECIFICATION FairSpec
CONSTANTS
    Processors = 1
    InitFaults = {}
    MaxBackoff = 1
    MaxSegments = 2
    Retain = 1
    Destinations = {"upload", "writeback"}
    Faults = {"scan", "gzip", "write", "answer", "fatal", "unlink"}
    MaxRestarts = 1
INVARIANTS
    WorkerInv
    DataSurvives
PROPERTIES
    
    ImplementsDelivery
    UploadsResume
