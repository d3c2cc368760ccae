CONSTANTS
    f1 = f1
    f2 = f2
    f3 = f3
    Followups = {f1, f2}
    Ask <- AskSteer
    QueueMax = 0
    SteerMax = 1
    MaxPuts = 1
    MaxRuns = 1
    Budget <- BudgetNone
    NoFollowup = NoFollowup
SPECIFICATION Spec
INVARIANT
    SteersWithinCap
CHECK_DEADLOCK FALSE
