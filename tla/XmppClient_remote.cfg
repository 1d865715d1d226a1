SPECIFICATION FairSpec
CONSTANTS
    MaxLogins = 1
    MaxDisconnects = 0
    MaxStanzas = 1
    Task = {receive, iq}
    Iq = {iq}
    AuthOutcome = {"authorized", "denied", "pending"}
PROPERTIES RemoteCloseNoticed
CHECK_DEADLOCK FALSE
