CONSTANTS
    Tasks = {t1, t2, t3, t4}
    Keys = {k1, k2}
    Locks = {l1, l2, l3, l4}
    NoTask = NoTask
    NoLock = NoLock
    NoKey = NoKey
SPECIFICATION FairSpec
INVARIANTS
    MutualExclusion
    TableInUse
PROPERTIES
    IsFifoLock
    NobodyStarves
