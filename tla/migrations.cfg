SPECIFICATION FairSpec
CONSTANTS
    Procs = {p1, p2, p3}
    AutoMigrate = {p1, p2}
    MaxVersion = 2
    NoProc = NoProc
INVARIANTS SchemaFollowsBundle OneMigratorAtATime ServingHasSchema LockOutlivesBootOnlyIfExpired
PROPERTIES BootsAndLockEnd
