SPECIFICATION FairSpec
CONSTANTS
    QueueSize = 1
    MaxTries = 2
    MaxCalls = 1
PROPERTIES CloseReturns LossNoticed
CHECK_DEADLOCK FALSE
