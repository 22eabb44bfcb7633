SPECIFICATION FairSpec
CONSTANTS
    p1 = p1
    t1 = t1
    c1 = c1
    c2 = c2
    None = None
    Peers <- OnePeer
    Threads <- OneThread
    Conns <- TwoConns
    PoolSize = 1
    MaxPools = 2
    MaxLeaves = 1
CHECK_DEADLOCK FALSE
INVARIANTS
    ConnsAccounted
    RegisteredPoolsOpen
    DrainedUnlessLate
    FollowsMembership
PROPERTY
    PeerClosesUnlessStray
