SPECIFICATION Spec
CONSTANTS
    Sockets = {w1, w2, w3}
    Options <- ConnectOptions
    HostsUp = {0}
    MaxFaults = 3
    MaxOrphans = 1
    None = None
INVARIANTS
    StaysDown
PROPERTIES
    Held
    Recovers
CHECK_DEADLOCK FALSE
