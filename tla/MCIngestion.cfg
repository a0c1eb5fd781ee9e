SPECIFICATION Spec
CONSTANTS
    p1 = p1
    p2 = p2
    x = x
    y = y
    r1 = r1
    r2 = r2
    empty = empty
    none = none
    Process <- Both
    Content <- Contents
    Unfit <- Bad
    Run <- Runs
    MAX_TRIES = 2
    MaxDisturbances = 1
INVARIANTS
    TypeOK
    Recoverable
CHECK_DEADLOCK FALSE
PROPERTIES
    ImplementsMirror
    CompleteIsTrue
    StoresConverge
