SPECIFICATION Spec
CONSTANTS
    Callers = {c1, c2}
    Coins = {btc}
    Charts = {day}
    Types = {"coingecko"}
    LegacyColumn = TRUE
    RateLimit = 2
    Minute = 2
    PriceTtl = 1
    ChartTtl = 2
    MaxTime = 2
    MaxCalls = 3
    MaxFlight = 1
    MaxFaults = 0
INVARIANT RateLimitKept
CHECK_DEADLOCK FALSE
