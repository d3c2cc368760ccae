SPECIFICATION Spec
CONSTANTS
    Turns = {t1}
    MaxAttempt = 2
    Hold <- HoldTwo
    DefaultHold = 2
    Asked <- AskedNone
    Pool <- UsesAlien
    Limit <- PlanLimits
    Currency = "IDR"
    Fx = 2
    InitBalance = 8
    InitUsed <- MidWeek
    Costs = {0, 4}
    TopupAmount = 3
    Budget <- AllOnce
INVARIANTS
    NeverOvercharged
    SettledInFull
    TypeOK
    RingsWithinLimits
PROPERTIES
    ReservationIsFinal
CHECK_DEADLOCK FALSE
