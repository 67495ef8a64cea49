SPECIFICATION FairSpec
CONSTANTS
    o = o
    a = a
    b = b
    c = c
    q1 = q1
    None = None
    Gone = Gone
    Node <- MCLineNode
    Query <- MCQuery
    Asker <- MCAsker
    Topology <- Line
    Holder <- EndHolds
    Impatient = {q1}
    MaxBreaks = 0
PROPERTY
    QueryIsPassedOn
CHECK_DEADLOCK FALSE
