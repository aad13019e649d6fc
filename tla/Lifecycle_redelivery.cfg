SPECIFICATION FairSpec
CONSTANTS
    Gates = 2
    Answers = {"approve"}
    Workers = {w1}
    Humans = {h1, h2}
    MaxCrashes = 1
    MaxExpiries = 1
    MaxFailures = 2
    MaxApiCrashes = 1
INVARIANTS CompletedRunsEnded RestingStatus
PROPERTIES ProgressKept DecisionsStay Settles
