CONSTANTS
    f1 = f1
    f2 = f2
    f3 = f3
    Followups = {f1, f2}
    Ask <- AskQueue
    QueueMax = 1
    SteerMax = 0
    MaxPuts = 1
    MaxRuns = 3
    Budget <- BudgetSubmit
    NoFollowup = NoFollowup
SPECIFICATION Spec
INVARIANT
    OneActiveTurn
CHECK_DEADLOCK FALSE
