SPECIFICATION Spec
CONSTANTS
    t1 = t1  t2 = t2  t3 = t3
    Docs <- BarDocs
    Pages <- BarPages
    Threads <- TwoThreads
    NoThread = NoThread
    NoPage = NoPage
    MaxPages = 1
    MaxWrites = 1
    MaxFaults = 0
SYMMETRY Symmetry
INVARIANT
    ListsOwnPrefix
CHECK_DEADLOCK FALSE
