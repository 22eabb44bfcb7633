SPECIFICATION Spec
CONSTANTS
    k1 = k1  t1 = t1  t2 = t2
    Keys <- MCKeys
    Threads <- MCThreads
    Absent = Absent
    NoETag = NoETag
    MatchAny = MatchAny
    MaxVersion = 2
PROPERTY
    DeletesWhatWasExpected
CHECK_DEADLOCK FALSE
