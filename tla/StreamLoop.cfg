SPECIFICATION FairSpec
CONSTANTS
    s1 = s1
    s2 = s2
    x1 = x1
    x2 = x2
    None = None
    Transfer <- MCTransfer
    Conn = {1}
    Sid <- MCSid
    ConnOf <- OneConn
    SidOf <- TwoSids
    Http = {}
    Chunks = 1
PROPERTIES
    CallbacksReturn
CHECK_DEADLOCK FALSE
