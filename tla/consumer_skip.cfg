SPECIFICATION Spec
CONSTANTS
    e1 = e1
    e2 = e2
    c1 = c1
    c2 = c2
    Events <- MCEvents
    Clients <- MCClients
    ChannelCap = 1
    MaxTopic = 3
    MaxRestarts = 1
INVARIANT
    FailedIsRedelivered
CHECK_DEADLOCK FALSE
