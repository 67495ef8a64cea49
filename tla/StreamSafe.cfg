SPECIFICATION FairSpec
CONSTANTS
    s1 = s1
    s2 = s2
    x1 = x1
    x2 = x2
    None = None
    Transfer <- MCTransfer
    Conn = {1}
    Sid <- MCSid
    ConnOf <- OneConn
    SidOf <- TwoSids
    Http = {s1}
    Chunks = 1
INVARIANTS
    TypeOK
    Tracked
    Faithful
    EndsOnce
    HeadersFirst
    CancelsFindTransfer
    HangsOnlyBehind
PROPERTIES
    GivesUp
    LostConnectionEnds
    ImplementsStream
CHECK_DEADLOCK FALSE
