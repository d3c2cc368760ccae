CONSTANTS
    p = p
    a = a
    b = b
    q0 = q0
    s1 = s1
    s2 = s2
    NoReq = NoReq
    NoRun = NoRun
    Runs = {p, a, b}
    Kind <- FanKind
    Parent <- FanParent
    Reqs = {q0, a, b}
    ReqOf <- FanReq
    ChatReq = q0
    Pods = {s1}
    Parallel = 1
    Budget <- BudgetFaults
SPECIFICATION FairSpec
INVARIANT
    ParallelBound
    DoneMeansAllDone
PROPERTY
    StartedRunsEnd
CHECK_DEADLOCK FALSE
