SPECIFICATION Spec
CONSTANTS
    w1 = w1
    w2 = w2
    Workers <- Pair
    Sessions <- FewSessions
    NoSession = NoSession
    Oids <- FewOids
    NoOid = NoOid
    TTL = 1
    FirstPin = 0
    LastPin = 1
    Batch = 1
    Findings <- First
    MaxFaults = 2
    Timely = FALSE
    Unlabels = FALSE
INVARIANTS
    TypeOK
    CursorCovered
    DuplicatesExcused
PROPERTIES
    RefinesRegister
SYMMETRY Alike
