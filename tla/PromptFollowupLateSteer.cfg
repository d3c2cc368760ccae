CONSTANTS
    f1 = f1
    f2 = f2
    f3 = f3
    Followups = {f1, f2}
    Ask <- AskSteer
    QueueMax = 0
    SteerMax = 2
    MaxPuts = 1
    MaxRuns = 1
    Budget <- BudgetNone
    NoFollowup = NoFollowup
SPECIFICATION FairSpec
PROPERTY
    SteerIsSettled
CHECK_DEADLOCK FALSE
