SPECIFICATION FairSpec
CONSTANTS
    Deep = FALSE
    a = a
    b = b
    one = one
    j1 = j1
    j2 = j2
    w1 = w1
    w2 = w2
    Nothing = Nothing
PROPERTIES
    WorkGoesOn
    NothingStaysShut
    EndsForGood
CHECK_DEADLOCK FALSE
