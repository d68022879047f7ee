SPECIFICATION Spec
CONSTANTS
    MaxRequests = 2
    Inbound = {n1}
    maxMessageIdentifier = 3
    disconnectedBufferSize = 1
    MaxLosses = 2
    MaxReloads = 1
    NoEntry = NoEntry
INVARIANTS
    Recoverable
    AcksExpected
    InOrder
PROPERTIES
    Delivers
    Confirmed
CHECK_DEADLOCK FALSE
