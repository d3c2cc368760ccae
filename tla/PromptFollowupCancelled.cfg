CONSTANTS
    f1 = f1
    f2 = f2
    f3 = f3
    Followups = {f1, f2}
    Ask <- AskQueue
    QueueMax = 1
    SteerMax = 0
    MaxPuts = 1
    MaxRuns = 2
    Budget <- BudgetNone
    NoFollowup = NoFollowup
SPECIFICATION Spec
PROPERTY
    CancelledIsFinal
CHECK_DEADLOCK FALSE
