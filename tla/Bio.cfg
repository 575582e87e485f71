SPECIFICATION FairSpec
CONSTANTS
    Type = {"close_file", "aof_fsync"}
    MaxJobs = 3
INVARIANTS ZeroMeansDone ExecutedInOrder 
PROPERTY EveryJobRuns
