SPECIFICATION FairSpec
CONSTANTS
    d1 = d1
    d2 = d2
    r1 = r1
    r2 = r2
    Daemons <- MCDaemons
    Resolvers <- MCResolvers
    Home <- MCHome
    LocalTTL = 3
    RedisTTL = 1
    MaxGap = 1
    MaxStall = 1
    MaxVersion = 1
    MaxPending = 1
    Lossy = TRUE
INVARIANTS
    TypeOK
    BoundedStaleness
PROPERTIES
    CleanIsStable
    StaleDiesOut
