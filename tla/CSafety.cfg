SPECIFICATION FairSpec
CONSTANTS
    Callers = {c1}
    MaxConns = 2
    MaxCalls = 2
INVARIANTS NoMisuse OneThread HelloFirst SentInItsSession InOrder
PROPERTIES AtMostOnce CloseReturns Drains
CHECK_DEADLOCK FALSE
