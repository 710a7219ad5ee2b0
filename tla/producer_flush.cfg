SPECIFICATION Spec
CONSTANTS
    e1 = e1
    e2 = e2
    Events <- MCEvents
    QueueDepth = 1
    MaxRetries = 2
    WriterAttempts = 2
INVARIANT
    ShutdownFlushes
CHECK_DEADLOCK FALSE
