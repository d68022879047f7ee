SPECIFICATION Spec
CONSTANTS
    Sockets = {w1, w2}
    Devices = {d1, d2}
    MaxFetches = 3
    MaxOps = 2
    None = None
    Pending = Pending
    Failed = Failed
SYMMETRY Symmetry
INVARIANTS
    OneLiveSocket
    ShowsClaim
    TokenCurrent
CHECK_DEADLOCK FALSE
