SPECIFICATION Spec
CONSTANTS
    m1 = m1
    m2 = m2
    m3 = m3
    Msgs = {m1}
    Deliveries <- FirstTwice
    Pods = {p1}
    Limit = 1
    SteerMax = 1
    QueueMax = 1
    None = None
    Budget <- OneError
    MaxKinds = 1
INVARIANT
    ReceivedIsStored
CHECK_DEADLOCK FALSE
