SPECIFICATION FairSpec
CONSTANTS
    a = a
    b = b
    c = c
    d = d
    m1 = m1
    x1 = x1
    None = None
    Owners = {a, b, c, d}
    Manual = {m1}
    Midtrans = {x1}
    Payer <- PaidByA
    Amount <- Hundred
    Parent <- ChainParent
    Shares <- Zigzag
    Percents = {35}
    Draws <- TenOfB
    Hooks = {h1, h2}
    Withdrawals = {w1}
    Budget <- NoFault
PROPERTIES
    PaidIsCredited
CHECK_DEADLOCK FALSE
