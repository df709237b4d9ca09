SPECIFICATION QueueSpec
CONSTANTS
    Senders = {sender}
    Receivers = {receiver, other}
    Users = {}
    Pollers = {}
    max_depth = 1
    MaxTakes = 3
INVARIANTS
    NoLostWakeup
CHECK_DEADLOCK FALSE
