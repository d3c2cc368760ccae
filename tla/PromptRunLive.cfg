SPECIFICATION FairSpec
CONSTANTS
    Runs = {r1}
    Pods = {p1}
    MaxDeliver = 2
    MaxReplay = 1
    MaxConcurrent = 1
    Budget <- OneCrash
INVARIANTS
    NothingForgotten
PROPERTIES
    EveryRunEnds
CHECK_DEADLOCK FALSE
