SPECIFICATION FairNetSpec
CONSTANTS
    a = a
    b = b
    None = None
    Node <- Two
    Public = {a, b}
    Friends <- TwoFriends
    Conn = {1, 2}
    Cookie = {k1, k2}
    MaxReports = 0
    MaxManual = 0
    MaxBreaks = 0
    MaxRestarts = 0
    MaxPings = 0
    Prompt = TRUE
PROPERTIES
    MeshFormed
CHECK_DEADLOCK FALSE
