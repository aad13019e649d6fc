SPECIFICATION Spec
CONSTANTS
    Gates = 2
    Answers = {"approve", "reject"}
    Workers = {w1}
    Humans = {h1}
    MaxCrashes = 0
    MaxExpiries = 0
    MaxFailures = 1
    MaxApiCrashes = 0
INVARIANT FailedTaskFailsRun
