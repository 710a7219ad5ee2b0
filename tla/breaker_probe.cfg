SPECIFICATION Spec
CONSTANTS
    p1 = p1
    r1 = r1
    r2 = r2
    r3 = r3
    Providers <- MCProviders
    Requests <- MCRequests
    FailureThreshold = 2
    ObservationWindow = 1
    HalfOpenDelay = 2
INVARIANT
    OneProbeAtATime
