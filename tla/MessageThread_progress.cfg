SPECIFICATION FairSpec
CONSTANTS
    Thread = {main, a}
    Outside = {main}
    Delays = {1}
    MaxPosts = 2
    MaxSends = 3
    MaxQuits = 1
    MaxCalls = 3
    MaxTime = 2
INVARIANTS TypeOK DelayKept LoopIsWoken
PROPERTIES AllAnswered
CHECK_DEADLOCK FALSE
