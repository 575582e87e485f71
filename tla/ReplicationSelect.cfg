SPECIFICATION Spec
CONSTANTS
    n1 = n1
    n2 = n2
    n3 = n3
    Node = {n1, n2, n3}
    Conn = {c1, c2}
    None = None
    Scenario <- MCTwoDbs
INVARIANTS StreamComplete
CHECK_DEADLOCK FALSE
