SPECIFICATION FairDeliverySpec
CONSTANTS
    e1 = e1
    e2 = e2
    c1 = c1
    Events <- MCEvents
    Clients <- MCClients
    ChannelCap = 1
    MaxTopic = 3
    MaxRestarts = 1
INVARIANTS
    DeliveryTypeOK
    CallsAccounted
    AccountsAgree
    FeedIsPersisted
PROPERTY
    CallsSettle
CHECK_DEADLOCK FALSE
