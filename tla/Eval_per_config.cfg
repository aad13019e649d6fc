SPECIFICATION Spec
CONSTANTS
    Configs = 1
    Repeats = 2
    Tasks = 3
    Cap = 3
    MaxCost = 2
    MaxCrashes = 0
    MaxFailures = 0
    MaxStops = 0
INVARIANTS TrippedConfigIsAborted NeverOverspends
