SPECIFICATION Spec
CONSTANTS
    t1 = t1
    t2 = t2
    u1 = u1
    c1 = c1
    c2 = c2
    e1 = e1
    e2 = e2
    NoConn = NoConn
    Tenants = {t1, t2}
    Users = {u1}
    Accounts <- Namesakes
    Conns = {c1, c2}
    Owner <- OneEach
    Events = {e1}
    RowOf <- FirstOnly
    Buffer = 1
INVARIANTS TenantsAreApart
CHECK_DEADLOCK FALSE
