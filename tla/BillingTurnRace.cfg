SPECIFICATION Spec
CONSTANTS
    Turns = {t1, t2}
    MaxAttempt = 1
    Hold <- HoldTwo
    DefaultHold = 2
    Asked <- AskedFrontier
    Pool <- UsesFrontier
    Limit <- NoLimits
    Currency = "USD"
    Fx = 1
    InitBalance = 3
    InitUsed <- Unused
    Costs = {2}
    TopupAmount = 1
    Budget <- Quiet
PROPERTIES
    HoldsAreCovered
CHECK_DEADLOCK FALSE
