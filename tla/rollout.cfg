SPECIFICATION DeploymentSpec
CONSTANTS
    a = "a"
    b = "b"
    i1 = i1
    Contents <- MCContents
    Inquiries <- MCInquiries
    ChanCap = 2
    MaxUploads = 3
    MaxRestarts = 1
    InitialDelay = 2
    MaxDelay = 3
    HttpTimeout = 1
    ProbeLimit = 10
    RetryLimits <- MCRetryLimits
    Seeded = "a"
    MaxOutages = 2
INVARIANTS
    DeploymentTypeOK
    ReportedIsHeld
    NoStaleRules
    NoticesServer
PROPERTIES
    NeverBack
    Converges
    ProbeEnds
CHECK_DEADLOCK FALSE
