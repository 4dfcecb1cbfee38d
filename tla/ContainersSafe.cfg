SPECIFICATION Spec
CONSTANTS
    Originals = 1
    MaxContainers = 3
    PoolSize = 3
    MaxPolls = 1
    MaxRuns = 3
    MaxCrashes = 1
    MaxStops = 1
    MaxSignals = 0
    MaxDisconnects = 1
    MaxFaults = 1
INVARIANTS TypeOK ReplicaProtected RunningIsMonitored
CHECK_DEADLOCK FALSE
