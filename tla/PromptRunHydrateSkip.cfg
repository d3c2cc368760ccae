SPECIFICATION Spec
CONSTANTS
    Runs = {r1}
    Pods = {p1, p2}
    MaxDeliver = 2
    MaxReplay = 0
    MaxConcurrent = 1
    Budget <- OneCrash
INVARIANTS
    NothingForgotten
CHECK_DEADLOCK FALSE
