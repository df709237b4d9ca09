SPECIFICATION QueueSpec
CONSTANTS
    Senders = {}
    Receivers = {}
    Users = {u1, u2, u3}
    Pollers = {}
    max_depth = 4
    MaxTakes = 4
INVARIANTS
    OwnedOnce
CHECK_DEADLOCK FALSE
