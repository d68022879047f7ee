CONSTANTS
    Devices = {node1, node2}
    BusCap = 1
    MaxSent = 2
    ProvCap = 1
    ConfCap = 1
    EventCap = 1
    NoJob = NoJob
SPECIFICATION Spec
CHECK_DEADLOCK FALSE
INVARIANTS
    GatewayNeverSkips
    CleanJoin
PROPERTIES
    LoopReturns
    AddedIsConfigured
