SPECIFICATION Spec
CONSTANTS
    QueueSize = 1
    MaxTries = 2
    MaxCalls = 2
INVARIANTS ConnectedUsable SentInItsSession
PROPERTIES CloseLeavesNothing AtMostOnce
CHECK_DEADLOCK FALSE
