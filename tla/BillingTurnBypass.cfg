SPECIFICATION Spec
CONSTANTS
    Turns = {t1}
    MaxAttempt = 1
    Hold <- HoldTwo
    DefaultHold = 2
    Asked <- AskedNone
    Pool <- UsesAlien
    Limit <- SpentLimits
    Currency = "IDR"
    Fx = 1
    InitBalance = 4
    InitUsed <- Unused
    Costs = {2}
    TopupAmount = 1
    Budget <- Quiet
PROPERTIES
    BypassHasAllowance
CHECK_DEADLOCK FALSE
