SPECIFICATION Spec
CONSTANTS
    Tenants <- MCTenants
    Users <- MCUsers
    NotificationIDs <- MCNotificationIDs
    Creates <- MCCreates
    Queries <- MCQueries
    Channels = {"in_app"}
    MaxTime = 2
    Clients = {c1, c2}
    Drivers = {"memory", "postgres", "entdb"}
    MaxRows = 2
    BadID = 0
    Limit = 1
    NoRow = NoRow
    Chars <- MCChars
    Itoa <- MCItoa
    DeviceTypes = {"browser", "unspecified"}
    NoDevice = NoDevice
INVARIANTS WritesAreAnsweredTruly QueryFitsItsWindow
PROPERTIES ImplementsStoreContract ImplementsDeviceContract
SYMMETRY Symmetry
