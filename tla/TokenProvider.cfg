SPECIFICATION Spec
CONSTANTS
    none = none
    Thread = {t1, t2}
    MIN_INTERVAL = 2
    FAILURE_BACKOFF = 3
    MAX_429_RETRIES = 1
    MaxDisturbances = 2
INVARIANTS
    TypeOK
    OwnTokenNewest
PROPERTIES
    TokenCallsSpaced
    RequestsEnd
    Recovers
