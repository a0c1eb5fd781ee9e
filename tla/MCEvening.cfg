SPECIFICATION EveningSpec
CONSTANTS
    s1 = s1
    s2 = s2
    s3 = s3
    x = x
    y = y
    z = z
    Symbol <- Three
    TARGET_POSITIONS = 2
    MAX_ORDER_COUNT_PER_DAY = 2
    SAVE_FAILURE_THRESHOLD = 1
    ALLOW_OVERNIGHT_HOLDING = FALSE
    MaxDay = 2
    MaxRun = 2
    MaxFailures = 2
    OPEN = 0
    LIQUIDATION = 3
    CLOSING = 4
    LastMinute = 4
    ReportTimes <- TwoTimes
    THRESHOLD = 2
    MaxStarts = 2
    Refusal <- CapacityOnly
    LastDay = 2
    MaxAnalyses = 2
    MaxMishaps = 1
    REFRESHES = 2
    PROBES = 2
    Mornings <- LeftBehind
    Proposals <- Ideas
    MaxReviews = 2
    Histories <- PaperHistories
    TargetSets <- RecomputedDays
    INITIAL_CASH = 100
    MaxRecomputes = 3
    MaxRecomputeDeaths = 1
    MinuteQuotes <- MinutePrices
    BOUGHT_AT = 3
    LOWER_LINE = 2
    ExitPairs <- TwoExitPairs
    LOCK_AT = 1
    TOLERANCE = 1
    STALL = 2
    LIQUIDATE_AT = 3
    CLOSE_AT = 5
    Share <- Shares
    LastReplayDay = 3
    ClosedDays <- Holidays
    Listings <- SelectionLists
    DaySessions <- SessionsOfDay
    LIQUIDATE_FROM = 3
    REPLAY_CASH = 40
    SHORTEST_HISTORY = 1
    Studies <- StudyFiles
    BandOrder <- StudiedBands
    StudyDays <- StudiedDays
    NextOpen <- Opens
    ATR_BARS = 1
    RSI_CLOSES = 2
    UPPER = 3
    LockLine <- Locks
    STOP_LINE = 2
    SHARES = 10
    RATE = 0
    TICK = 1
    ErrorSymbol <- Shares
    LastErrorDay = 2
    MaxErrorLines = 2
    MaxFilterings = 2
    LISTED = 1
    Forms <- AllForms
    BackfillSymbol <- SymbolsKept
    BACKFILL_DAYS = 1
    LastBackfillDay = 3
    UNSELECTED_TIMEOUT = 1
    RecentFiles <- RecentChoices
SYMMETRY Symmetry
INVARIANTS
    TypeOK
    OrderLimits
    CrashLossBounded
    SavedOrReported
    FlatAfterNormalEnd
    EveningTypeOK
    EveningSound
PROPERTIES
    BaselineKept
    NoBuyOnceStopping
    ImplementsLedger
CHECK_DEADLOCK FALSE
