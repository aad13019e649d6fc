SPECIFICATION StreamSpec
CONSTANTS
    Gates = 2
    Answers = {"approve", "reject"}
    Workers = {w1, w2}
    Humans = {h1}
    MaxCrashes = 0
    MaxExpiries = 0
    MaxFailures = 1
    MaxApiCrashes = 1
INVARIANT DoneIsFinal
