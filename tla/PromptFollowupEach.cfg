CONSTANTS
    f1 = f1
    f2 = f2
    f3 = f3
    Followups = {f1, f2, f3}
    Ask <- AskEach
    QueueMax = 1
    SteerMax = 2
    MaxPuts = 2
    MaxRuns = 2
    Budget <- BudgetEach
    NoFollowup = NoFollowup
SPECIFICATION Spec
SYMMETRY SameAsk
INVARIANT
    TypeOK
    SteerReachesChat
    TranscriptInOrder
    QueueWithinCap
    ServedInTurn
CHECK_DEADLOCK FALSE
