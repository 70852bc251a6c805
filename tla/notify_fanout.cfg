SPECIFICATION Spec
CONSTANTS
    Tenants = {t1}
    Users = {u1, u2}
    NotificationIDs = {n1}
    Channels = {"in_app", "email", "sms"}
    MaxTime = 2
    IDs = {i1, i2}
    NoRow = NoRow
    NoID = NoID
    Calls = {c1, c2}
    Ackers = {a1}
    Requests <- ManyRequests
    Providers = {"in_app", "email"}
SYMMETRY Symmetry
INVARIANTS TypeOK IndexConsistent PersistBeforeSend CompletedWasAttempted TallyComplete StatusHasCause AckKeepsStamp
PROPERTIES ImplementsContract WalkGetsOn
