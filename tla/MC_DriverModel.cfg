SPECIFICATION Spec
CONSTANTS
    d1 = d1
    d2 = d2
    b1 = b1
    b2 = b2
    v1 = v1
    v2 = v2
    None = None
    Buses = {b1, b2}
    Drivers = {d1, d2}
    Devices = {v1, v2, v3}
    DriverName <- OwnName
    Names = {d1, d2, n3}
    TableSize = 3
    MaxPriv = 3
    Callers <- AllWays
INVARIANTS
    BusListsAgree
    SoundWhenApart
PROPERTIES
    BindingsStay
CHECK_DEADLOCK FALSE
