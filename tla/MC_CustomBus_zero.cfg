SPECIFICATION StackSpec
CONSTANTS
    Writers = {w1}
    MaxAdded = 1
    MaxEarly = 0
    SemMax = 1
    Profiles <- ZeroDrivers
    RetransMax = 3
    TimeoutMax = 2
    UnsignedMod = 8
INVARIANTS
    BusHeldBound
CHECK_DEADLOCK FALSE
