SPECIFICATION FairSpec
CONSTANTS
    a = a
    b = b
    c = c
    Subtasks = {a, b}
    Calls = {c1}
    Drafts <- MCPairDrafts
    MaxSubtasks = 12
    MaxTurns = 2
    MaxCrashes = 1
INVARIANTS TypeOK AttemptCap SensitiveOnlyApproved StoppedPlanNeverRuns AcceptedMeetsThreshold
PROPERTIES AnswersStick VerdictsStick RunEnds
