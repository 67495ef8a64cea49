SPECIFICATION Spec
CONSTANTS
    s1 = s1
    s2 = s2
    x1 = x1
    x2 = x2
    None = None
    Transfer <- MCTransfer
    Conn = {1, 2}
    Sid <- MCSid
    ConnOf <- TwoConns
    SidOf <- TwoSids
    Http = {}
    Chunks = 1
INVARIANTS
    OnlyOwnTransfers
CHECK_DEADLOCK FALSE
