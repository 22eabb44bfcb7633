SPECIFICATION FairSpec
CONSTANTS
    t1 = t1  t2 = t2  t3 = t3
    Docs <- MCDocs
    Pages <- TwoPages
    Threads <- TwoThreads
    NoThread = NoThread
    NoPage = NoPage
    MaxPages = 1
    MaxWrites = 1
    MaxFaults = 1
INVARIANTS
    WithinCapacity
    FreshUnlessRaced
    WaitersHaveALeader
    OneListPerBurst
    HitsReadUndisturbed
PROPERTY
    EveryListingReturns
