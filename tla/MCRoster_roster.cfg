\* Two nodes with clocks as far apart as allowed; three writes; one reads late.
SPECIFICATION Spec
CONSTANTS
    a = a
    b = b
    p = p
    q = q
    Nodes = {a, b}
    Policies = {p, q}
    Deployments <- UniformOrMixed
    Lease = 1
    MaxSkew = 1
    Offsets <- Apart
    Operation = 0
    Readers = {b}
    MaxTime = 2
    MaxWrites = 3
    Faults = {"crash", "read"}
\* Every process may exit.
CHECK_DEADLOCK FALSE
INVARIANTS
    RosterInv
    
PROPERTIES
    LeaseHonoured
    NothingPublishedIsLost
    CacheFollows
