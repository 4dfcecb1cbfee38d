SPECIFICATION FairSpec
CONSTANTS
    Originals = 1
    MaxContainers = 3
    PoolSize = 5
    MaxPolls = 2
    MaxRuns = 1
    MaxCrashes = 2
    MaxStops = 0
    MaxSignals = 1
    MaxDisconnects = 0
    MaxFaults = 1
PROPERTIES FailoverCompletes
CHECK_DEADLOCK FALSE
