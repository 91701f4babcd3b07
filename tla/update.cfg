SPECIFICATION FairSpec
CONSTANTS
    Images = {1, 2, 3}
    Factory = 1
    WifiRetries = 1
    Attempts = 2
    Moves = 4
    Faults = 4
INVARIANT Quiet
INVARIANT NothingDangles
PROPERTY Atomic
PROPERTY StagedAsOffered
PROPERTY Updates
