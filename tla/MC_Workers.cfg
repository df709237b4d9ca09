SPECIFICATION WorkersSpec
CONSTANTS
    Producers = {p1, p2}
    Kinds <- DaikinKinds
    Capacity = 2
    MaxMsgs = 4
    UintMod = 4
    MaxInterrupts = 0
    Garbage = {0, 1}
    Ids = {1, 2}
    Unused = Unused
    Writers = {w1, w2}
    OnlyWriter = w1
    MaxAdded = 3
    SemMax = 3
    MaxEarly = 1
    UnsignedMod = 8
    RetransMax = 3
    TimeoutMax = 2
    Profiles <- AllDrivers
    m1 = m1
    m2 = m2
    m3 = m3
    m4 = m4
INVARIANTS
    SemCountsNodes
    EmptyListMeansInterrupt
    HandlesOldestLiveNode
    BusHeldBound
    PostsCoverQueue
    PoppedInOrder
    AttemptsBounded
    LengthTellsFresh
    WritesAreAccounted
    AsksWhatIsMeant
    FramesAreWellFormed
    RetrySendsSameFrame
PROPERTIES
    ResendsOnlyFailures
    PromiseKept
    EventuallyFreed
    RepeatsOnlyFailures
    RetransmitsWithinBounds
    CatchesUp
    InfoFromIntactAnswer
    EventuallyPopped
CHECK_DEADLOCK FALSE
