SPECIFICATION Spec
CONSTANTS
    a = a
    b = b
    c = c
    Subtasks = {a, b, c}
    Calls = {c1}
    Drafts <- MCTripleDrafts
    MaxSubtasks = 12
    MaxTurns = 1
    MaxCrashes = 0
INVARIANTS DependenciesAccepted JudgedOnce NothingLeftBehind NoRunEndsWaiting
