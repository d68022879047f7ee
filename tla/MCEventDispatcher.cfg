SPECIFICATION EventsSpec
CONSTANTS
    board = board
    stream = stream
    release = release
    tab = tab
    first = first
    renewal = renewal
    None = None
    Ids = {board}
    Broadcasters = {stream, release}
    Sessions = {tab}
    Tokens = {first, renewal}
    SessionOf <- MCSessionOf
    MaxVersion = 3
INVARIANTS
    InSync
    NothingLeaks
    OneStream
PROPERTIES
    NeverBack
    ReachesWatchers
CHECK_DEADLOCK FALSE
