SPECIFICATION FairSpec
CONSTANTS
    o = o
    a = a
    b = b
    c = c
    q1 = q1
    None = None
    Gone = Gone
    Node <- MCNode
    Query <- MCQuery
    Asker <- MCAsker
    Topology <- Triangle
    Holder <- FarHolds
    Impatient = {q1}
    MaxBreaks = 0
PROPERTY
    StopReachesFrontier
CHECK_DEADLOCK FALSE
