SPECIFICATION Spec
CONSTANTS
    n1 = n1
    n2 = n2
    t1 = t1
    t2 = t2
    k1 = k1
    k2 = k2
    None = None
    Nodes <- OneNode
    Threads <- OneThread
    Keys <- TwoKeys
    Capacity = 1
    TTL = 1
    MaxTime = 3
    MaxPuts = 3
    MaxDeletes = 1
    MaxRestarts = 1
    MaxOutages = 1
SYMMETRY SymmetricKeys
INVARIANTS
    TypeOK
    Coherent
CHECK_DEADLOCK FALSE
