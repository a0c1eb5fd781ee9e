SPECIFICATION PaperDaySpec
CONSTANTS
    a = a
    b = b
    Symbol <- Pair
    Price <- Prices
    Machines <- OnlyShadow
    unknown = unknown
    ORDER_UNIT = 1
    INITIAL_CASH = 300
    OPERATING_CAPITAL = 300
    FEE_RATE = 1000
    SLIPPAGE = 1000
    DAILY_LOSS_LIMIT_RATIO = 1000
    MaxDay = 2
    MaxOrders = 3
    MaxCrashes = 1
    Key <- ShadowKey
    MaxFlushFailures = 1
    LastCheckpoint = 2
    MaxPurchases = 2
    MaxStarts = 2
    OBSERVATION_DAYS = 1
    MaxFailures = 1
    MaxEvents = 2
INVARIANT TrackedWhileHeld
CHECK_DEADLOCK FALSE
