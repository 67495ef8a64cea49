SPECIFICATION FairSpec
CONSTANTS
    p1 = p1
    Peer = {p1}
    Playdar = {p1}
    Google = {p1}
    MaxLogins = 2
    MaxChanges = 1
    MaxRequests = 2
    MaxResources = 2
INVARIANTS
    TypeOK
    AdvertisedPortIsForwarded
    NothingOutlives
PROPERTIES
    ShutdownEnds
    RosterAnswered
CHECK_DEADLOCK FALSE
