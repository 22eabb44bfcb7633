SPECIFICATION Spec
CONSTANTS
    k1 = k1  t1 = t1  t2 = t2
    Keys <- MCKeys
    Threads <- MCThreads
    NoThread = NoThread
    Partial = Partial
    Absent = Absent
    NoETag = NoETag
    MatchAny = MatchAny
    MaxVersion = 3
    MaxFaults = 2
INVARIANTS
    OrphansAccounted
PROPERTY
    ImplementsAtomicStore
