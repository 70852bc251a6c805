SPECIFICATION Spec
CONSTANTS
    Tenants = {t1}
    Users = {u1}
    NotificationIDs = {n1}
    Channels = {"in_app", "email", "sms"}
    MaxTime = 1
    IDs = {i1}
    NoRow = NoRow
    NoID = NoID
    Calls = {c1, c2}
    Ackers = {a1}
    Requests <- EmailRequests
    Providers = {"in_app", "email"}
INVARIANTS NoDuplicateDelivery
