SPECIFICATION FairSpec
CONSTANTS
    MaxLogins = 2
    MaxDisconnects = 2
    MaxStanzas = 2
    Task = {receive, iq}
    Iq = {iq}
    AuthOutcome = {"authorized", "denied", "pending"}
INVARIANTS TypeOK EndReportedOnce PointersAlive
PROPERTIES EndsAndStanzasServed
CHECK_DEADLOCK FALSE
