SPECIFICATION Spec
CONSTANTS
    k1 = k1  k2 = k2  t1 = t1  t2 = t2
    Keys <- OneKey
    Threads <- TwoThreads
    NoThread = NoThread
    NoItem = NoItem
    MaxGeneration = 4
    MaxVersion = 2
SYMMETRY Symmetry
INVARIANTS
    PurgedWhenReconciled
    HolderIsPurging
