SPECIFICATION FairSpec
CONSTANTS
    s1 = s1
    x1 = x1
    None = None
    Transfer <- MCTransfer
    Conn = {1}
    Sid <- MCSid
    ConnOf <- MCConnOf
    SidOf <- MCSidOf
    Chunks = 1
    Name <- MCName
INVARIANTS
    UrlFindsPeer
PROPERTIES
    EndToEnd
    EndIsPassedOn
    EveryStreamEnds
CHECK_DEADLOCK FALSE
