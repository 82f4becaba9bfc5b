CONSTANTS
    p1 = p1
    p2 = p2
    p3 = p3
    Procs = {p1, p2, p3}
    Collects = {p1, p2}
    MaxSegments = 1
    Strangers = TRUE
SYMMETRY Alike
SPECIFICATION Spec
\* Every process may die.
CHECK_DEADLOCK FALSE
INVARIANTS
    LockProtects
PROPERTIES
    CollectionIsExact
