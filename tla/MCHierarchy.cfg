SPECIFICATION Spec
CONSTANTS
    a = a
    b = b
    c = c
    sensor = sensor
    d1 = d1
    Paths <- GroupPaths
    Devices = {d1}
    Channels <- DeviceChannels
    MaxCalls = 6
    None = None
INVARIANTS
    Attached
    NoGhosts
CHECK_DEADLOCK FALSE
