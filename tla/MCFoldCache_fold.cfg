\* Three requests for one file, one of which reads the polls; every fault; one client leaves.
SPECIFICATION FairSpec
CONSTANTS
    Requests = {r1, r2, r3}
    SeedOnly = {}
    PollsReaders = {r2}
    NumFiles = 1
    OtherParts = {"spans"}
    Cap <- MCCap
    Deep = {}
    BatchSize = 1
    InflightPermits = 1
    FetchPermits = 1
    CpuPermits = 1
    Faults = {"list", "get", "decode", "put"}
    Leavers = {r1}
INVARIANTS
    MarkerMeansComplete
    FetchedOnce
    

    
