SPECIFICATION ReconnectSpec
CONSTANTS
    Callers = {}
    Handlers = {}
    Rooms = {}
    NoRoom = NoRoom
    Kinds = {}
    AutoReconnect = TRUE
    BufferMessages = FALSE
    MaxBufferSize = 0
    MaxReconnectTries = 12
    ChanCap = 1
    MaxConns = 3
    MaxCalls = 0
    MaxAttempt = 13
    Intervals = {60, 511, 600}
    MaxReconnectDelay = 1800
    Width = 20
    ShiftCap = 10
INVARIANTS EventsTell BackoffDocumented
PROPERTIES EventsChain
CHECK_DEADLOCK FALSE
