SPECIFICATION Spec
CONSTANTS
    m1 = m1
    m2 = m2
    m3 = m3
    Msgs = {m1, m2}
    Deliveries <- Once
    Pods = {p1, p2}
    Limit = 1
    SteerMax = 1
    QueueMax = 1
    None = None
    Budget <- NoFault
    MaxKinds = 1
INVARIANT
    OneTurnPerChat
CHECK_DEADLOCK FALSE
