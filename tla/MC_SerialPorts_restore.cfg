SPECIFICATION PortsSpec
CONSTANTS
    BusPorts = {"t1", "t2"}
    GeneralPorts = {"t3"}
    Profiles <- Opened
    Found <- Settings
    Bauds = {9600, 76800}
    Closed = None
    MaxChanges = 3
INVARIANTS
    RestoresItsOwn
CHECK_DEADLOCK FALSE
