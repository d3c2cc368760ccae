SPECIFICATION Spec
CONSTANTS
    Requests = {r1, r2}
    lite = lite
    plus = plus
    year = year
    Lite = Lite
    Plus = Plus
    Plans = {lite, plus}
    Free = Free
    None = None
    Slug <- PlanSlug
    Rank <- SlugRank
    Price <- PlanPrice
    Days <- PlanDays
    Start = 4
    TopupAmount = 1
    PoolSize = 2
    MsgsPerDay = 1
    TokensPerDay = 3
    Estimate = 2
    TurnTokens = {1}
    Horizon = 1
    Budget <- Two
PROPERTY
    OnlyExpiredLapse
CHECK_DEADLOCK FALSE
