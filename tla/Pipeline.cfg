SPECIFICATION FairSpec
CONSTANTS
    Containers = {c1, c2}
    Images = {i1, i2}
    None = None
    Outcomes = {"scan_complete", "scan_failed"}
    MaxRetries = 1
    MaxCacheFaults = 1
    MaxIpcFaults = 1
INVARIANTS TypeOK NothingForgotten
PROPERTY EveryStartResolved
CHECK_DEADLOCK FALSE
