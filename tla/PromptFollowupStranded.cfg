CONSTANTS
    f1 = f1
    f2 = f2
    f3 = f3
    Followups = {f1, f2}
    Ask <- AskQueue
    QueueMax = 2
    SteerMax = 0
    MaxPuts = 1
    MaxRuns = 3
    Budget <- BudgetNone
    NoFollowup = NoFollowup
SPECIFICATION FairSpec
PROPERTY
    QueueIsServed
CHECK_DEADLOCK FALSE
