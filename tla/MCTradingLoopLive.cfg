SPECIFICATION FairSpec
CONSTANTS
    s1 = s1
    s2 = s2
    s3 = s3
    Symbol <- Pair
    TARGET_POSITIONS = 2
    MAX_ORDER_COUNT_PER_DAY = 2
    SAVE_FAILURE_THRESHOLD = 1
    ALLOW_OVERNIGHT_HOLDING = TRUE
    MaxDay = 2
    MaxRun = 1
    MaxFailures = 2
PROPERTIES
    RunEnds
    EmergencyStopFlattens
CHECK_DEADLOCK FALSE
