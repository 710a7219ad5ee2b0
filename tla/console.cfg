SPECIFICATION ConsoleSpec
CONSTANTS
    c1 = c1
    c2 = c2
    s1 = s1
    s2 = s2
    q1 = q1
    q2 = q2
    q3 = q3
    u1 = u1
    u2 = u2
    d1 = d1
    d2 = d2
    d3 = d3
    n1 = n1
    n2 = n2
    Calls <- MCCalls
    SessionIds <- MCSessionIds
    SessionTTL = 2
    TokenTTL = 1
    MaxStall = 1
    MaxAge = 6
    NoSession = NoSession
    MaxPerms = 2
    Requests <- MCRequests
    Prompts = {"p", "r"}
    RepoIds <- MCRepoIds
    NoRepo = NoRepo
    MaxAttempts = 1
    Clients <- MCCalls
    RowIds <- MCRowIds
    Names <- MCNames
    Texts = {"text"}
    MaxSends = 2
    LogIds <- MCLogIds
    MaxAt = 2
    Limit = 1
    MaxRange = 1
    Bucket = 2
SYMMETRY Symmetry
INVARIANTS
    TypeOK
    EndedStaysEnded
    PermsFollow
    SuspensionHolds
    AnsweredIsStored
    DeletedStaysGone
    WalkComplete
    SeriesWithinSummary
PROPERTY
    CreatesAreAtomic
CHECK_DEADLOCK FALSE
