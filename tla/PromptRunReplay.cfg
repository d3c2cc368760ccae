SPECIFICATION Spec
CONSTANTS
    Runs = {r1}
    Pods = {p1}
    MaxDeliver = 1
    MaxReplay = 1
    MaxConcurrent = 2
    Budget <- AnyFault
INVARIANTS
    ChargedAtMostOnce
    SettledIsPaid
    AckedRunEnded
CHECK_DEADLOCK FALSE
