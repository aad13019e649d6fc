SPECIFICATION ReplaySpec
CONSTANTS
    a = a
    b = b
    Subtasks = {a, b}
    Calls = {c1}
    Drafts <- MCReplayDrafts
    MaxSubtasks = 12
    MaxTurns = 1
    MaxCrashes = 0
    MaxEdits = 1
INVARIANT AcceptedStays
PROPERTIES ReplayReturns
