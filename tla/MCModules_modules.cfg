SPECIFICATION AllSpec
CONSTANTS
    Byte = {0, 1}
    MaxCapacity = 3
INVARIANTS RosterFollows RoomsFollow ListenersHear
    BytesArrive ReadsBack SecretsArrive
PROPERTIES IsQueue
CHECK_DEADLOCK FALSE
