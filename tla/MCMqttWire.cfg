SPECIFICATION WireSpec
CONSTANTS
    Streams <- BrokerStreams
    Outgoing <- ClientPackets
    Fragments <- Pieces
    MaxPieces = 4
    Absent = Absent
INVARIANTS
    ReadByBroker
    Deframed
CHECK_DEADLOCK FALSE
