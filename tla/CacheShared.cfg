SPECIFICATION Spec
CONSTANTS
    n1 = n1
    n2 = n2
    t1 = t1
    t2 = t2
    k1 = k1
    k2 = k2
    None = None
    Nodes <- TwoNodes
    Threads <- TwoThreads
    Keys <- TwoKeys
    Capacity = 1
    TTL = 1
    MaxTime = 2
    MaxPuts = 2
    MaxDeletes = 0
    MaxRestarts = 1
    MaxOutages = 0
SYMMETRY SymmetricAll
INVARIANTS
    SafeResultStays
PROPERTIES
    AnswersAreCurrent
CHECK_DEADLOCK FALSE
