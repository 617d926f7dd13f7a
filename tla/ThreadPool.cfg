CONSTANTS
    w1 = w1
    w2 = w2
    t1 = t1
    t2 = t2
    t3 = t3
    x1 = x1
    Worker = {w1, w2}
    Task = {t1, t2, t3}
    Parent <- MCParent
    Waiter = {x1}
SPECIFICATION PoolFairSpec
INVARIANTS
    DrainSound
PROPERTIES
    IdleMeansDrained
    AcceptedRuns
CHECK_DEADLOCK FALSE
