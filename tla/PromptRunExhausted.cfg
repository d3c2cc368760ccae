SPECIFICATION Spec
CONSTANTS
    Runs = {r1}
    Pods = {p1}
    MaxDeliver = 2
    MaxReplay = 1
    MaxConcurrent = 1
    Budget <- TwoCrashes
INVARIANT
    RunningIsRecovered
CHECK_DEADLOCK FALSE
