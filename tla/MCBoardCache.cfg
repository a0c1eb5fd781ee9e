SPECIFICATION Spec
CONSTANTS
    t1 = t1
    t2 = t2
    t3 = t3
    a = a
    b = b
    c = c
    none = none
    Thread <- Threads
    Symbol <- Triple
    Round <- OneRound
    BATCH_SIZE = 1
    MaxRequests = 3
INVARIANTS
    TypeOK
    RegistrationLimit
    NoRepeatedFetch
PROPERTIES
    NoClearUnderFetch
    BoardKept
    RequestsEnd
CHECK_DEADLOCK FALSE
