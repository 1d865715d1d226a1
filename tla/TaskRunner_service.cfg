SPECIFICATION FairSpec
CONSTANTS
    Task = {t1, t2}
    Runner = Runner
    NoTask = NoTask
    Seconds = {1, 2}
    MaxCalls = 5
    MaxTurns = 1
    MaxTime = 2
INVARIANTS TypeOK TimeoutsKept
PROPERTIES Serviced
CHECK_DEADLOCK FALSE
