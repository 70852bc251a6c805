SPECIFICATION FairSpec
CONSTANTS
    t1 = t1
    t2 = t2
    u1 = u1
    c1 = c1
    c2 = c2
    e1 = e1
    e2 = e2
    NoConn = NoConn
    Tenants = {t1, t2}
    Users = {u1, u2}
    Accounts <- Namesakes
    Conns = {c1, c2}
    Owner <- OneEach
    Events = {e1, e2}
    RowOf <- RowOfEach
    Buffer = 1
INVARIANTS RegisteredWhileServing OnlyAddressedEvents AtMostOncePerConn PendingReachesNobody
PROPERTIES PushNeverBlocks HandlersProgress
CHECK_DEADLOCK FALSE
