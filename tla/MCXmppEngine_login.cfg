SPECIFICATION Spec
CONSTANTS
    srv = srv
    h1 = h1
    h2 = h2
    h3 = h3
    Jid = {srv}
    Handler = {}
    Registration = {}
    Stanza <- LoginStanzas
    TlsOption = {"DISABLED", "ENABLED", "REQUIRED"}
    MaxInput = 10
    MaxSend = 2
    MaxIq = 2
INVARIANTS TypeOK LoginInOrder SubmittedInOrder IqOnce
CHECK_DEADLOCK FALSE
