SPECIFICATION StackSpec
CONSTANTS
    Writers = {w1}
    MaxAdded = 1
    MaxEarly = 0
    SemMax = 1
    Profiles <- DooyaOnly
    RetransMax = 3
    TimeoutMax = 2
    UnsignedMod = 8
PROPERTIES
    ReplyIsAwaited
CHECK_DEADLOCK FALSE
