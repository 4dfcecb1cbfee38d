SPECIFICATION Spec
CONSTANTS
    Originals = 1
    MaxContainers = 3
    PoolSize = 3
    MaxPolls = 1
    MaxRuns = 1
    MaxCrashes = 2
    MaxStops = 0
    MaxSignals = 0
    MaxDisconnects = 0
    MaxFaults = 0
INVARIANT CascadingProtection
CHECK_DEADLOCK FALSE
