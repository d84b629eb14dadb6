SPECIFICATION Spec
CONSTANTS
    Callers = {c1}
    Handlers = {}
    Rooms = {r1}
    NoRoom = NoRoom
    Kinds = {"msg"}
    AutoReconnect = TRUE
    BufferMessages = TRUE
    MaxBufferSize = 1
    MaxReconnectTries = 0
    ChanCap = 1
    MaxConns = 2
    MaxCalls = 0
    MaxAttempt = 1
INVARIANTS ClosedNotConnected
CHECK_DEADLOCK FALSE
