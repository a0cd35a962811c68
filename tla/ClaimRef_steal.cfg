SPECIFICATION Spec
CONSTANTS
    w1 = w1
    w2 = w2
    Workers <- Pair
    NoWorker = NoWorker
    Oids <- Commits
    NoOid = NoOid
    TTL = 2
    MaxOrphans = 1
    MayCrash <- Pair
    ListFaults = FALSE
    FetchFaults = TRUE
    PushFaults = FALSE
PROPERTY
    HeldByAnotherRefused
