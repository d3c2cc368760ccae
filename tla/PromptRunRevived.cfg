SPECIFICATION Spec
CONSTANTS
    Runs = {r1}
    Pods = {p1}
    MaxDeliver = 3
    MaxReplay = 0
    MaxConcurrent = 2
    Budget <- CrashAndStall
INVARIANT
    RunningIsRecovered
CHECK_DEADLOCK FALSE
