SPECIFICATION FairSpec
CONSTANTS
    a = a
    b = b
    None = None
    Node <- Two
    Public = {a, b}
    Friends <- TwoFriends
    Conn = {1, 2}
    Cookie = {k1, k2}
    MaxReports = 0
    MaxManual = 0
    MaxBreaks = 1
    MaxRestarts = 1
    MaxPings = 1
    Prompt = FALSE
INVARIANTS
    TypeOK
    OneConnPerPeer
    IdentComesFirst
    VerifiedFirst
    ReadyPeerWasInvited
PROPERTIES
    AuthOrDrop
CHECK_DEADLOCK FALSE
