CONSTANTS
    Intents <- Four
    Kind <- OnePr
    Target <- Same
    NoTarget = 0
    Mine <- Four
    Late = TRUE
    MaxFaults = 2
SPECIFICATION OutboxSpec
INVARIANTS PublishedIsApplied AppliedOnce
PROPERTY DrainKeepsOrder
CHECK_DEADLOCK FALSE
