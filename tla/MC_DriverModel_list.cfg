SPECIFICATION Spec
CONSTANTS
    d1 = d1
    d2 = d2
    b1 = b1
    b2 = b2
    v1 = v1
    v2 = v2
    None = None
    Buses = {b1}
    Drivers = {d1, d2}
    Devices = {v1}
    DriverName <- OwnName
    Names = {d1, d2}
    TableSize = 3
    MaxPriv = 2
    Callers <- OnlyRegistering
INVARIANTS
    DriverStaysListed
CHECK_DEADLOCK FALSE
