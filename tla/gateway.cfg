SPECIFICATION GatewaySpec
CONSTANTS
    i1 = i1
    i2 = i2
    Inquiries <- MCInquiries
    Limit = 2
    MaxCost = 2
    MaxUnchecked = 1
    Window = 3
    TTL = 4
    RPM = 1
    MaxLag = 1
    MaxTime = 4
    MaxScripts = 4
SYMMETRY Symmetry
INVARIANTS
    TypeOK
    OverspendBounded
    WindowBounded
