SPECIFICATION FairSpec
CONSTANTS
    Users = {"u1", "u2", "u3"}
    Inodes = {"a", "b", "c"}
    Jobs <- MCJobs
    Stored = {"a", "b"}
    Cached = {"b"}
    TotalCap = 5
    FreeMin = 1
    BgFreeMin = 2
    Word = 64
    MaxFailures = 1
INVARIANTS  LockHasOwner 
PROPERTY RequestsEnd
CHECK_DEADLOCK FALSE
