CONSTANTS
    Intents <- Four
    Kind <- Mixed
    Target <- MixedTargets
    NoTarget = 0
    Mine <- Four
    Late = TRUE
    MaxFaults = 2
SPECIFICATION OutboxFairSpec
INVARIANT ForkReplayedOnce
PROPERTY Settles
CHECK_DEADLOCK FALSE
