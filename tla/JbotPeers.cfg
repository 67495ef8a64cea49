SPECIFICATION FairSpec
CONSTANTS
    p1 = p1
    p2 = p2
    Peer = {p1, p2}
    Playdar = {p1, p2}
    Google = {p2}
    MaxLogins = 2
    MaxChanges = 1
INVARIANTS
    TypeOK
    ListIsCurrent
    ReportedOncePerLogin
PROPERTIES
    CapablePeersListed
CHECK_DEADLOCK FALSE
