SPECIFICATION FairSpec
CONSTANTS
    Configs = 2
    Repeats = 2
    Tasks = 3
    Cap = 3
    MaxCost = 2
    MaxCrashes = 1
    MaxFailures = 1
    MaxStops = 1
INVARIANTS OvershootIsOneResponse PromptsArePaidOnce SummariesAreBacked
PROPERTIES MatrixCompletes
