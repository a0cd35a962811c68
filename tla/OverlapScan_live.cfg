SPECIFICATION FairSpec
CONSTANTS
    w1 = w1
    w2 = w2
    Workers <- Pair
    Sessions <- FewSessions
    NoSession = NoSession
    Oids <- FewOids
    NoOid = NoOid
    TTL = 1
    FirstPin = 2
    LastPin = 2
    Batch = 1
    Findings <- Second
    MaxFaults = 2
    Timely = TRUE
    Unlabels = TRUE
PROPERTIES
    CatchesUp
    NotReopened
    CursorForward
