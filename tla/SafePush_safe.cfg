SPECIFICATION FairSpec
CONSTANTS
    Base = 0
    Commits <- ThreeCommits
    MaxAttempts = 3
    MaxForeign = 1
    NoopPushes = FALSE
    RefFaults = TRUE
INVARIANTS
    TypeOK
    PublishedLanded
    TransferredUnsent
PROPERTIES
    OverwritesOnlyKnown
    HandoffSettles
CHECK_DEADLOCK FALSE
