SPECIFICATION FairSpec
CONSTANTS
    Callers = {c1}
    Incoming = {"event", "error", "history"}
    Panics = TRUE
    Stalls = TRUE
    WriteTimeout = TRUE
    ChanCap = 1
    MaxConns = 2
    MaxCalls = 2
INVARIANTS TasksJoined
PROPERTIES LostOnlyWithWriter AtMostOnce CloseReturns CallsReturn
CHECK_DEADLOCK FALSE
