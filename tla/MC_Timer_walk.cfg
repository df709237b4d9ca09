SPECIFICATION TimerSpec
CONSTANTS
    Walkers = {k1, k2}
    MaxTasks = 2
    Periods = {2}
    Prevs = {1}
    Callbacks = {"self", "next", "add"}
INVARIANTS
    NeverTouchesFreedTask
CHECK_DEADLOCK FALSE
