CONSTANTS
    p = p
    a = a
    b = b
    q0 = q0
    s1 = s1
    s2 = s2
    NoReq = NoReq
    NoRun = NoRun
    Runs = {p, a, b}
    Kind <- TreeKind
    Parent <- TreeParent
    Reqs = {p, a, b}
    ReqOf <- TreeReq
    ChatReq = NoReq
    Pods = {s1, s2}
    Parallel = 2
    Budget <- BudgetStops
SPECIFICATION Spec
INVARIANT
    DoneMeansAllDone
    EndedHoldsNothing
CHECK_DEADLOCK FALSE
SYMMETRY PodSymmetry
