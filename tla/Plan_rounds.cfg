SPECIFICATION FairSpec
CONSTANTS
    a = a
    b = b
    c = c
    d = d
    Subtasks = {a, b, c, d}
    Drafts <- MCDrafts
    MaxSubtasks = 3
INVARIANT VerdictIsRight
PROPERTIES Ends
