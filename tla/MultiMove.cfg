SPECIFICATION Spec
CONSTANTS
    v1 = v1
    Client = {c1, c2}
    Db = {0, 1}
    Name = {"x"}
    Val = {v1}
    Lapsed = Lapsed
    Null = Null
    Plans <- MovePlans
SYMMETRY ClientSymmetry
INVARIANT EveryChangeSignalled
