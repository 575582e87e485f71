CONSTANTS
    Sentinels = {1, 2}
    Nodes = {m, a, b}
    FirstMaster = m
    None = none
    Quorum = 2
    ParallelSyncs = 2
    CanFailover = {1, 2}
    NoPriority = {}
    MaxFaults = 1
    MaxDelays = 1
    MaxPending = 1
    MaxQueue = 3
    MaxRunning = 2
    MaxRetry = 2
    MaxJobs = 4
SPECIFICATION MCSpec
INVARIANTS PromotedIsSlave FollowedWasMaster EveryChildHasItsJob
SYMMETRY SlavesAlike
CHECK_DEADLOCK FALSE
