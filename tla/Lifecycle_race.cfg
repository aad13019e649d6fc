SPECIFICATION Spec
CONSTANTS
    Gates = 2
    Answers = {"approve", "reject"}
    Workers = {w1, w2}
    Humans = {h1}
    MaxCrashes = 0
    MaxExpiries = 0
    MaxFailures = 0
    MaxApiCrashes = 0
INVARIANT PausedIsDecidable
