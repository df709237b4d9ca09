SPECIFICATION ListSpec
CONSTANTS
    Writers = {w1}
    MaxNodes = 2
    Overlap = TRUE
INVARIANTS
    NeverTouchesFreed
CHECK_DEADLOCK FALSE
