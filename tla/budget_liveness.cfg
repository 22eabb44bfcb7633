SPECIFICATION FairSpec
CONSTANTS
    m1 = m1  m2 = m2  m3 = m3  k1 = k1  k2 = k2  t1 = t1  t2 = t2
    Managers <- TwoManagers
    Keys <- OneKey
    Threads <- TwoThreads
    NumShards = 1
    ShardOf <- OneShard
    Sizes = {0, 1, 2, 3, 4}
    Limit = 2
    MaxObjectSize = 3
    NoThread = NoThread
    NoManager = NoManager
    NoKey = NoKey
    Stale = Stale
PROPERTY EveryCallReturns
INVARIANT ShardBytesExact
