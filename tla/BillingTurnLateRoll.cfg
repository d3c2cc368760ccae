SPECIFICATION Spec
CONSTANTS
    Turns = {t1, t2}
    MaxAttempt = 1
    Hold <- HoldTwo
    DefaultHold = 2
    Asked <- AskedNone
    Pool <- UsesAlien
    Limit <- PlanLimits
    Currency = "IDR"
    Fx = 1
    InitBalance = 4
    InitUsed <- Unused
    Costs = {2}
    TopupAmount = 1
    Budget <- ExpireTwice
PROPERTIES
    MeterKeepsCharges
CHECK_DEADLOCK FALSE
