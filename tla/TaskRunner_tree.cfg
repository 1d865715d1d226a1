SPECIFICATION Spec
CONSTANTS
    Task = {t1, t2, t3}
    Runner = Runner
    NoTask = NoTask
    Seconds = {}
    MaxCalls = 7
    MaxTurns = 1
    MaxTime = 1
SYMMETRY TaskSymmetry
INVARIANTS TreeSound NoLostWake
PROPERTIES NoCallbackAfterAbort
CHECK_DEADLOCK FALSE
