SPECIFICATION Spec
CONSTANTS
    Keys = {k1}
    Conns = {c1}
    Parents = {p1}
    Max = 2
    MaxSpawns = 2
INVARIANTS CancelAllReachesEveryRetry
