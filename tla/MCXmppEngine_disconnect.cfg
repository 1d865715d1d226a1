SPECIFICATION FairSpec
CONSTANTS
    srv = srv
    h1 = h1
    h2 = h2
    h3 = h3
    Jid = {srv}
    Handler = {h1, h2}
    Registration <- Registrations
    Stanza <- SessionStanzas
    TlsOption = {"DISABLED"}
    MaxInput = 8
    MaxSend = 1
    MaxIq = 0
PROPERTIES NoCallbackAfterDisconnect
CHECK_DEADLOCK FALSE
