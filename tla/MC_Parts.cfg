SPECIFICATION PartsSpec
CONSTANTS
    Values = {v1, v2}
    NoValue = NoValue
    Torn = Torn
    element_count = 4
    UintMod = 8
    Writers = {w1, w2}
    MaxNodes = 3
    Overlap = FALSE
    Senders = {sender}
    Receivers = {receiver, other}
    Users = {}
    Pollers = {}
    max_depth = 2
    MaxTakes = 3
    Walkers = {k1, k2}
    MaxTasks = 2
    Periods = {2}
    Prevs = {0, 1}
    Callbacks = {"self", "next", "add"}
    Ids = {1, 7, 8, 9}
    limit = 10
    Data = {0, 1, 2}
    NoData = NoData
    Processes = {d1, d2, d3}
    Nobody = Nobody
    BusPorts = {"t1", "t2"}
    GeneralPorts = {"t3", "t4"}
    Profiles <- PortProfiles
    Found <- AsSetUp
    Bauds = {9600, 12345, 38400, 76800}
    Closed = None
    MaxChanges = 3
    Instances = {1, 9}
    BACNET_MAX_INSTANCE = 8
    Configured = {1, 2}
    Names = {"ENNO-BACNET-CLIENT", "other"}
    DefaultName = "ENNO-BACNET-CLIENT"
    NoName = ""
    PointerSize = 8
    RevisionMod = 16
    MaxCalls = 5
    None = None
    Failed = Failed
INVARIANTS
    TypeOK
    CountInBounds
    NoClash
    GotIsOldest
    ListIsSound
    OwnedOnce
    SleepersAreAccounted
    CalledOnTime
    PidFileNamesTheDaemon
    CacheIsGood
    MenuShowsWhatIsMeant
    ValuesAreRight
    SaveKeepsValues
PROPERTIES
    PromiseKept
    KeepsElementsApart
CHECK_DEADLOCK FALSE
