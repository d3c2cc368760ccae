CONSTANTS
    p = p
    a = a
    b = b
    q0 = q0
    s1 = s1
    s2 = s2
    NoReq = NoReq
    NoRun = NoRun
    Runs = {a}
    Kind <- OneKind
    Parent <- OneParent
    Reqs = {q0}
    ReqOf <- OneReq
    ChatReq = NoReq
    Pods = {s1}
    Parallel = 1
    Budget <- BudgetNone
SPECIFICATION Spec
INVARIANT
    FailedStartHoldsNothing
CHECK_DEADLOCK FALSE
