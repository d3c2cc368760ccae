CONSTANTS
    p = p
    a = a
    b = b
    q0 = q0
    s1 = s1
    s2 = s2
    NoReq = NoReq
    NoRun = NoRun
    Runs = {p, a, b}
    Kind <- FanKind
    Parent <- FanParent
    Reqs = {q0, a, b}
    ReqOf <- FanReq
    ChatReq = NoReq
    Pods = {s1}
    Parallel = 2
    Budget <- BudgetCancel
SPECIFICATION Spec
INVARIANT
    StopReachesChunks
CHECK_DEADLOCK FALSE
