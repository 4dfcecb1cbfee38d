SPECIFICATION FairSpec
CONSTANTS
    p1 = p1
    p2 = p2
    Procs <- OneProc
    None = None
    MaxJobs = 2
    MaxCrashes = 2
    MaxOutages = 1
    MaxDeaths = 1
    MaxFaults = 1
INVARIANTS
    TypeOK
    InflightIsLive
    LossBounded
    CopiesBounded
PROPERTIES
    EveryJobRecordedOrLost
CHECK_DEADLOCK FALSE
