SPECIFICATION Spec
CONSTANTS
    Gates = 2
    Answers = {"approve", "reject"}
    Workers = {w1}
    Humans = {h1, h2}
    MaxCrashes = 0
    MaxExpiries = 0
    MaxFailures = 0
    MaxApiCrashes = 0
INVARIANT AuditRecordHolds
