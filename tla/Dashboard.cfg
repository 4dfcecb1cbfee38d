SPECIFICATION FairSpec
CONSTANTS
    Settings <- SmallSettings
    MaxPages = 2
    MaxBuffer = 1
    MaxSending = 2
INVARIANT MissedBounded
PROPERTY Converges
