SPECIFICATION AllSpec
CONSTANTS
    MaxBytes = 3
    MaxWrite = 2
    Room = 1
    PingPeriod = 3
    PingLimit = 2
    PingStart = 1
    PingEnd = 10
    PingWord = 16
    Statuses <- FiveStatuses
    StatusInputs = 2
    PumpInputs = 5
    EchoCalls = 2
    EchoStanzas = 2
    Contacts <- TwoContacts
    ChatLines = 4
    ChatPresences = 2
    Nodes = {"n", "m"}
    NodeCalls = 2
    NodeChanges = 2
INVARIANTS PingsInTime UpdatesInOrder PumpUsesClient BytesSentInOrder
PROPERTIES AnswersCome
CHECK_DEADLOCK FALSE
