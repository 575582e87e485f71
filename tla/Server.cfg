SPECIFICATION Spec
CONSTANTS
  c1 = c1
  c2 = c2
  c3 = c3
  Db = {0, 1}
  Key = {"a", "b"}
  None = None
  MaxValue = 3
  MaxTime = 3
  LoadTime = 9
  Client = {c1, c2, c3}
  Channel = {"h"}
  Pattern = {"p", "q"}
  Matches <- MCMatches
  Limits <- MCLimits
  BufMax = 3
  ChunkMax = 2
  SoftSeconds = 0
  MaxSeconds = 2
  WriteMax = 1
  IoLen = 5
  BigArg = 3
  InlineMax = 16
  Node = {1, 2, 3, 4}
  NULL = NULL
  PoolSize = 3
  PoolRequests = {1}
  PageSize = 3
  EntrySize = {1, 2}
  DictEntry = 1
  MaxPages = 5
  MaxEntries = 7
INVARIANTS
  SlaveFollows
  LoadRestores
  Delivered
  ClientIndexes
  RequestsAsSent
  CutEntriesSound
  NoDangling
CHECK_DEADLOCK FALSE
