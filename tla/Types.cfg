SPECIFICATION MCSpec
CONSTANTS
    Key = {ka, kb}
    MaxElements <- MCMaxElements
    BigLen = 14
    LenMax = 4
    Int16Max = 2
    Int32Max = 5
    MaxLevel = 2
    ListValue = {1100, 2000, 2100}
    ListMaxZiplistEntries = 4
    ListMaxZiplistValue = 20
    ListIndex <- MCListIndex
    SetValue <- MCSetValue
    SetMaxIntsetEntries = 2
    Field = {1, 2, 300}
    HashValue = {2, 1100}
    HashMaxZiplistEntries = 2
    HashMaxZiplistValue = 10
    LongLongMax = 2
    ZMember = {9, 10, 500}
    Score <- MCScore
    Weight <- MCWeight
    ZsetMaxZiplistEntries = 2
    ZsetMaxZiplistValue = 4
    a = a
    b = b
    Client = {c1, c2, c3}
    ListKey = {a, b}
    Null = Null
    KeyLists <- WaitLists
    MaxPush = 2
INVARIANTS Represents EncodingsSound ReadsAgree
    BlockIndex NoIdleWaiter EachValueOnce ReplicaAgrees
PROPERTIES ChangesPropagated HandleEnds
VIEW MCView
SYMMETRY KeySymmetry
CHECK_DEADLOCK FALSE
