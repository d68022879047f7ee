SPECIFICATION TwinSpec
CONSTANTS
    Children = {c1, c2}
    Root = Root
    Unlisted = Unlisted
    MaxStates = 2
    MaxRoots = 2
    MaxBreaks = 2
    MaxNews = 2
INVARIANTS
    Settled
PROPERTIES
    Reconnects
    StopsForGood
CHECK_DEADLOCK FALSE
