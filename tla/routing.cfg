SPECIFICATION Spec
CONSTANTS
    c1 = c1
    k1 = k1
    k2 = k2
    None = None
    Absent = Absent
    NoETag = NoETag
    MatchAny = MatchAny
    Clients <- OneClient
    Conns <- TwoConns
    Key <- MCKey
    Namespace <- NoText
    LegacyHandler = FALSE
    Secret <- MCSecret
    OwnerSecret <- MCSecret
    ClockSkew = 1
    authSkew = 1
    FaultTexts <- MCFaultTexts
    DbRequests <- MCDbRequests
    HttpRequests <- MCHttpRequests
    MaxUint16 = 2
    MaxUint32 = 2
    MaxRequests = 2
    MaxVersion = 3
    MaxFaults = 1
SYMMETRY Symmetry
CHECK_DEADLOCK FALSE
INVARIANTS
    
    AcknowledgedPutIsMine
    RefusedPutWroteNothing
    ConditionalPutAppliedOnce
    ForwardedLikeLocal
