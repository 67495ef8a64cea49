SPECIFICATION FairSpec
CONSTANTS
    a = a
    b = b
    None = None
    Node <- Two
    Public = {a}
    Friends <- TwoFriends
    Conn = {1, 2, 3}
    Cookie = {k1, k2, k3}
    MaxReports = 2
    MaxManual = 1
    MaxBreaks = 0
    MaxRestarts = 0
    MaxPings = 0
    Prompt = TRUE
PROPERTIES
    MeshFormed
CHECK_DEADLOCK FALSE
