SPECIFICATION FairSpec
CONSTANTS
    Containers = {c1}
    Workers = {w1}
    Corrupt = Corrupt
    StandbyRuns = TRUE
    FailureThreshold = 2
    ChecksPerMirror = 1
    MaxEvents = 2
    MaxCrashes = 1
    MaxSlow = 2
INVARIANTS RivalHasCause TypeOK
PROPERTIES TakesOver MirrorCatchesUp SurvivesRestart
