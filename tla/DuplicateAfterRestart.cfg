SPECIFICATION Spec
CONSTANTS
    s1 = s1
    s2 = s2
    s3 = s3
    Symbol <- Pair
    TARGET_POSITIONS = 2
    MAX_ORDER_COUNT_PER_DAY = 2
    SAVE_FAILURE_THRESHOLD = 1
    ALLOW_OVERNIGHT_HOLDING = FALSE
    MaxDay = 2
    MaxRun = 2
    MaxFailures = 2
INVARIANT NoDuplicateBuy
CHECK_DEADLOCK FALSE
