SPECIFICATION Spec
CONSTANTS
    b1 = b1
    b2 = b2
    search = search
    files = files
    Branches = {b1, b2}
    Tools = {search, files}
    Allowed <- MCAllowed
    RateLimit <- MCRateLimit
    Window = 2
    MaxTime = 3
    MaxCalls = 3
    MaxPaid = 2
    MaxLegs = 2
    MaxCrashes = 1
    MaxLogFailures = 1
INVARIANTS RateLimitHolds AuditGap RowNeverOverstates
CHECK_DEADLOCK FALSE
