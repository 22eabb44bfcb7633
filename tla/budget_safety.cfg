SPECIFICATION Spec
CONSTANTS
    m1 = m1  m2 = m2  m3 = m3  k1 = k1  k2 = k2  t1 = t1  t2 = t2
    Managers <- ThreeManagers
    Keys <- TwoKeys
    Threads <- TwoThreads
    NumShards = 2
    ShardOf <- TwoShards
    Sizes = {1, 3}
    Limit = 2
    MaxObjectSize = 0
    NoThread = NoThread
    NoManager = NoManager
    NoKey = NoKey
    Stale = Stale
SYMMETRY Symmetry
INVARIANTS
    LockDiscipline
    EveryByteChargedOnce
    CeilingHonoured
    EvictsOnlyUnderPressure
    CursorInRange
    QuietCloseLeavesNothing
PROPERTY RoundRobinKeepsTurn
