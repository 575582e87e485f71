SPECIFICATION FairSpec
CONSTANTS
    n1 = n1
    n2 = n2
    n3 = n3
    Node = {n1, n2, n3}
    Conn = {c1, c2}
    None = None
    Scenario <- MCScenario
INVARIANTS StreamComplete WaitersHaveChild
PROPERTY Converges
CHECK_DEADLOCK FALSE
