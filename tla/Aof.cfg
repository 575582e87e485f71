SPECIFICATION FairSpec
CONSTANTS
    Db = {d0, d1}
    FirstDb = d0
    Pid = {p1, p2}
    None = None
    NoFsyncOnRewrite = FALSE
    MaxCmd = 2
    MaxJobs = 2
INVARIANTS FileIsPrefix NothingMissing StateMeansFile NoAckedLost
PROPERTY BufferWritten
