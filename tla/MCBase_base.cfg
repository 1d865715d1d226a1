SPECIFICATION AllSpec
CONSTANTS
    Request = {1}
    MaxInputs = 3
    MaxChunks = 3
    PosixSignal = {1, 2}
    PipeSize = 3
    ReadSize = 2
    MaxRaised = 3
    SocketOps = {"nothing", "receive", "send", "close", "close others", "connect", "listen"}
    MaxSockets = 2
    MaxSocketInputs = 2
    MaxStarts = 2
    QueueThread = {1, 2}
    QueueHandler = {"a", "b"}
    HandlerHome <- Home
    MaxQueueCalls = 3
    StampWord = 16
    ClockStart = 10
    ClockEnd = 20
    PassTime = 1
    PostDelay = {0, 1, 3, 6}
    MaxDelayed = 2
INVARIANTS MessagesInTime ThreadsKeepOrder RequestsTellOnce
PROPERTIES WaitersServed
CHECK_DEADLOCK FALSE
