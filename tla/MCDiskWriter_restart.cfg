SPECIFICATION Spec
CONSTANTS
    MaxFileSize = 2
    MaxTotalSize = 6
    Header = 1
    IsDisk = TRUE
    IoFaults = {"write", "seal_notfound", "seal_err", "create_err"}
    MaxBatches = 4
    BatchSizes = {1, 2}
    MaxRestarts = 1
CHECK_DEADLOCK FALSE
INVARIANTS
    
    OverflowTaintsTwo

    
