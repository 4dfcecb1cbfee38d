SPECIFICATION Spec
CONSTANTS
    n1 = n1
    n2 = n2
    l1 = l1
    l2 = l2
    CacheNodes <- TwoNodes
    Layers <- TwoLayers
    Replicas = 2
    Size = 8
    PointOf <- SmallPoints
    HashOf <- SmallHashes
    Checks = {1, 2}
    MaxCalls = 3
    MaxDowns = 2
    None = None
INVARIANTS TypeOK RingMatches NeverBlocked AbsentHasCause StoredIsHit
CHECK_DEADLOCK FALSE
