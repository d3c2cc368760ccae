SPECIFICATION Spec
CONSTANTS
    Runs = {r1}
    Pods = {p1}
    MaxDeliver = 2
    MaxReplay = 1
    MaxConcurrent = 2
    Budget <- OneReconnect
INVARIANT
    OneTurnAtATime
CHECK_DEADLOCK FALSE
