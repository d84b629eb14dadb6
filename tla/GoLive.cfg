SPECIFICATION FairSpec
CONSTANTS
    Callers = {h1}
    Handlers = {h1}
    Rooms = {r1}
    NoRoom = NoRoom
    Kinds = {"join"}
    AutoReconnect = TRUE
    BufferMessages = TRUE
    MaxBufferSize = 1
    MaxReconnectTries = 0
    ChanCap = 1
    MaxConns = 2
    MaxCalls = 2
    MaxAttempt = 1
PROPERTIES CloseStops LossNoticed Resumes
CHECK_DEADLOCK FALSE
