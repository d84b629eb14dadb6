SPECIFICATION Spec
CONSTANTS
    Callers = {c1, c2}
    Handlers = {}
    Rooms = {r1}
    NoRoom = NoRoom
    Kinds = {"join", "leave", "msg"}
    AutoReconnect = FALSE
    BufferMessages = FALSE
    MaxBufferSize = 1
    MaxReconnectTries = 0
    ChanCap = 2
    MaxConns = 2
    MaxCalls = 3
    MaxAttempt = 1
INVARIANTS InOrder RoomsAgree
SYMMETRY Symmetry
CHECK_DEADLOCK FALSE
