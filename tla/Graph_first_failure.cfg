SPECIFICATION Spec
CONSTANTS
    a = a
    b = b
    c = c
    Subtasks = {a, b}
    Calls = {c1}
    Drafts <- MCPairDrafts
    MaxSubtasks = 12
    MaxTurns = 1
    MaxCrashes = 1
INVARIANT FailureGateAfterTwoFailures
