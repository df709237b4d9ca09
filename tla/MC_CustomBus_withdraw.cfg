SPECIFICATION StackSpec
CONSTANTS
    Writers = {w1, w2}
    MaxAdded = 3
    MaxEarly = 0
    SemMax = 1
    Profiles <- DooyaOnly
    RetransMax = 3
    TimeoutMax = 2
    UnsignedMod = 8
INVARIANTS
    DeletesListedElements
CHECK_DEADLOCK FALSE
