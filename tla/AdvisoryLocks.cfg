SPECIFICATION FairSpec
CONSTANTS
    k1 = k1
    k2 = k2
    i1 = i1
    Handlers = {h1, h2}
    Keys = {k1, k2}
    LockIDs = {i1}
    KeyToID <- CollidingIDs
    Sessions = {s1, s2}
    None = None
INVARIANTS
    MutualExclusion
    LocksAccounted
PROPERTIES
    ImplementsKeyedLock
    EveryLockServed
