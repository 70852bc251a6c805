SPECIFICATION FairSpec
CONSTANTS
    Tenants = {t1}
    Users = {u1}
    NotificationIDs = {n1, n2, n3}
    Channels = {"in_app"}
    MaxTime = 2
    IDs = {1, 2, 3}
    NoRow = NoRow
    NoID = NoID
    DefaultPageLimit = 1
    MaxPageLimit = 2
    Limits = {0, 3}
    Changes = {"read"}
    MaxInFlight = 2
INVARIANTS PagesInOrder MissedOnlyAtTie
PROPERTIES WalkEnds
