SPECIFICATION FairSpec
CONSTANTS
    Builders = {p1, p2}
    Nil = Nil
    MaxRev = 1
INVARIANTS
    TypeOK
    PartsInOrder
    InvalidationHolds
PROPERTIES
    CatchesUp
CHECK_DEADLOCK TRUE
