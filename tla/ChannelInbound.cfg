SPECIFICATION FairSpec
CONSTANTS
    m1 = m1
    m2 = m2
    m3 = m3
    Msgs = {m1, m2}
    Deliveries <- FirstTwice
    Pods = {p1, p2}
    Limit = 2
    SteerMax = 1
    QueueMax = 1
    None = None
    Budget <- EachKind
    MaxKinds = 1
INVARIANTS
    TypeOK
    StoredOnce
    OneTurnOnPod
    WithinLimit
PROPERTIES
    DueIsAnswered
CHECK_DEADLOCK FALSE
