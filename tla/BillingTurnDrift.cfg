SPECIFICATION Spec
CONSTANTS
    Turns = {t1}
    MaxAttempt = 1
    Hold <- HoldTwo
    DefaultHold = 2
    Asked <- AskedFrontier
    Pool <- UsesFrontier
    Limit <- NoLimits
    Currency = "IDR"
    Fx = 1
    InitBalance = 4
    InitUsed <- Unused
    Costs = {6}
    TopupAmount = 3
    Budget <- OneTopup
INVARIANTS
    WalletAgrees
CHECK_DEADLOCK FALSE
