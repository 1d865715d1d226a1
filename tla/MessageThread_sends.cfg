SPECIFICATION Spec
CONSTANTS
    Thread = {main, a, b}
    Outside = {main, b}
    Delays = {}
    MaxPosts = 0
    MaxSends = 3
    MaxQuits = 1
    MaxCalls = 4
    MaxTime = 1
INVARIANTS SendsAreFlagged SendsWait
CHECK_DEADLOCK FALSE
