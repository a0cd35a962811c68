SPECIFICATION FairSpec
CONSTANTS
    w1 = w1
    w2 = w2
    Workers <- Pair
    NoWorker = NoWorker
    Oids <- Commits
    NoOid = NoOid
    TTL = 1
    MaxOrphans = 1
    MayCrash <- JustW1
    ListFaults = FALSE
    FetchFaults = FALSE
    PushFaults = FALSE
PROPERTIES
    TakeoverNoticed
    DeadHolderNeverBlocks
