SPECIFICATION FairSpec
CONSTANTS
    e1 = e1
    e2 = e2
    Events <- MCEvents
    QueueDepth = 1
    MaxRetries = 2
    WriterAttempts = 2
INVARIANTS
    TypeOK
    OneOwner
    BoundedCopies
    InOrder
PROPERTIES
    ShutdownEnds
    AcceptedIsSettled
    ImplementsEventLog
CHECK_DEADLOCK FALSE
