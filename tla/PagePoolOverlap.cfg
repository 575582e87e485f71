SPECIFICATION PoolSpec
CONSTANTS
    Node = {n1, n2, n3, n4}
    NULL = NULL
    PoolSize = 3
    PoolRequests = {1}
    PageSize = 3
    EntrySize = {1, 2}
    DictEntry = 1
    MaxPages = 5
    MaxEntries = 7
CHECK_DEADLOCK FALSE
INVARIANT EntriesDisjoint
