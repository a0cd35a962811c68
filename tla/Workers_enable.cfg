SPECIFICATION FairSpec
CONSTANTS
    Slots = {1, 2}
    Gens = {1, 2, 3}
    Soft <- MCSoft
    Policies = {"on-failure"}
    MaxActs = 2
    MaxFaults = 0
    MaxCount = 1
PROPERTIES
    EnableRuns
CHECK_DEADLOCK FALSE
