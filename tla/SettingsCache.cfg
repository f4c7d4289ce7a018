SPECIFICATION Spec
CONSTANTS
    p1 = p1
    p2 = p2
    t1 = t1
    t2 = t2
    k1 = k1
    k2 = k2
    NoKey = NoKey
    Vals = {0, 1}
    Default = 0
    Keys = {k1, k2}
    Procs = {p1, p2}
    Threads = {t1, t2}
    Ttl = 1
    Slow = 1
    MaxTime = 3
    MaxUpdates = 2
SYMMETRY Alike
INVARIANT CacheInv
INVARIANT StalenessBounded
INVARIANT OwnUpdateServed
INVARIANT PatchKeepsOthers
