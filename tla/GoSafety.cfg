SPECIFICATION Spec
CONSTANTS
    Callers = {c1, h1}
    Handlers = {h1}
    Rooms = {r1}
    NoRoom = NoRoom
    Kinds = {"join"}
    AutoReconnect = TRUE
    BufferMessages = TRUE
    MaxBufferSize = 1
    MaxReconnectTries = 1
    ChanCap = 1
    MaxConns = 2
    MaxCalls = 2
    MaxAttempt = 3
INVARIANTS TypeOK ReadyMeansHello WriterAlive BufferDrained
PROPERTIES StaysGivenUp AtMostOnce
CHECK_DEADLOCK FALSE
