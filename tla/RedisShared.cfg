SPECIFICATION Spec
CONSTANTS
    p1 = p1
    p2 = p2
    Procs <- TwoProcs
    None = None
    MaxJobs = 2
    MaxCrashes = 0
    MaxOutages = 0
    MaxDeaths = 0
    MaxFaults = 1
SYMMETRY Symmetric
PROPERTY ServiceSpec
CHECK_DEADLOCK FALSE
