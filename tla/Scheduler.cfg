SPECIFICATION FairSpec
CONSTANTS
    MaxJobs = 2
    InitialWorkers = 2
    MaxWorkers = 3
    MaxScaled = 1
    MaxDeaths = 1
    MaxFaults = 1
    MaxSpawns = 4
INVARIANTS
    TypeOK
    NoJobLost
    UnfinishedRunIsReclaimable
    InflightHasRun
    NoOvertaking
    PoolBounded
    DeficitCovered
    LoadMatchesRuns
PROPERTIES
    EveryJobFinishes
    PoolRepaired
    ServiceSpec
