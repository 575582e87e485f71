SPECIFICATION FairSpec
CONSTANTS
    k1 = k1
    k2 = k2
    k3 = k3
    Key = {k1, k2, k3}
    Val = {v1}
    Entry = {e1, e2}
    Null = Null
    Hash <- HashOf
    Sizes <- SizeSet
    InitialSize = 1
    MaxSize = 4
    ForceRatio = 1
    MinFill = 60
INVARIANTS Structure RehashScanStops IterationComplete SavedNextLinked
PROPERTIES ImplementsMap RehashEnds
