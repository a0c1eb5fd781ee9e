SPECIFICATION DaySpec
CONSTANTS
    x = x
    y = y
    z = z
    early = early
    later = later
    none = none
    Candidate <- Issues
    Screened <- ScreenedBands
    MAX_ROUNDS = 1
    Issue <- Traded
    Ranked <- RankedBands
    BATCH_SIZE = 1
    MAX_COUNT = 2
    MaxRuns = 2
    MaxDate = 2
    MaxWrites = 3
    Ticker <- Issues
    MiddayBands <- NoonBands
    FETCH_RETRIES = 1
    Early <- EarlyMinutes
    Later <- LaterMinutes
    MaxReplaced = 2
    Stock <- Traded
    Quote <- Quotes
    LOWER_BAND = 2
    UPPER_BAND = 3
    StopMultiplier <- StopDistance
    LockMultiplier <- LockDistance
    LOCK_TRIGGER = 1
    Funds = 4
    Limit = 4
    Slots = 1
    Replayed <- Replay
    Instants = 3
    Tape <- Courses
    Climates <- Days
    Sessions = 2
    Terms <- TestTerms
    FEE = 10
    SLIPPAGE = 10
    ATR = 100
    ExitDistance <- Exits
    LOCK = 50
    StartingCash = 500
    CAP = 400
    TARGET = 1
    FIXED_QTY = 1
    MIN_CLOSES = 1
    WINDOW = 1
    TREND = 3
    HISTORY = 3
    OLDER = 1
    MAX_ATTEMPTS = 2
    HIGH = 1
    EXTREME = 2
    FilteringDate <- FilteringDays
    MaxChanges = 1
    MaxTests = 2
    Client <- TwoClients
    KEYS = 2
    ATTEMPTS = 2
    INTERVAL = 1
    BACKOFF = 2
INVARIANTS
    DayTypeOK
    SelectionsSound
    SelectionTrusted
    DecisionsSound
PROPERTIES
    BarsKept
    ProgramsEnd
CHECK_DEADLOCK FALSE
