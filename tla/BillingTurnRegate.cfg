SPECIFICATION Spec
CONSTANTS
    Turns = {t1}
    MaxAttempt = 1
    Hold <- HoldTwo
    DefaultHold = 2
    Asked <- AskedFrontier
    Pool <- UsesFrontier
    Limit <- NoLimits
    Currency = "IDR"
    Fx = 1
    InitBalance = 3
    InitUsed <- Unused
    Costs = {2}
    TopupAmount = 1
    Budget <- Quiet
INVARIANTS
    AnsweredIsReported
CHECK_DEADLOCK FALSE
