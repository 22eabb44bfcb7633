SPECIFICATION RetrySpec
CONSTANTS
    c1 = c1  c2 = c2  t1 = t1
    Keys = {"k"}
    Doc = "k"
    Threads <- MCThreads
    Clients <- MCClients
    NoThread = NoThread
    NoItem = NoItem
    Absent = Absent
    NoETag = NoETag
    MatchAny = MatchAny
    MaxVersion = 4
    MaxFaults = 1
INVARIANTS
    OneLeaderPerKey
    NobodyWaitsInVain
    CoherentUnlessRaced
PROPERTIES
    EveryUpdateGetsThrough
    EveryOperationReturns
CHECK_DEADLOCK FALSE
