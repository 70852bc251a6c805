SPECIFICATION FairSpec
CONSTANTS
    Keys = {k1}
    Conns = {c1}
    Parents = {p1, p2}
    Max = 2
    MaxSpawns = 3
INVARIANTS TypeOK OrphanHasCulprit StaleOnlyAfterParentCancel
PROPERTIES LoopsExit
