SPECIFICATION RequestsSpec
CONSTANTS
    IOUsers = {"u", "v"}
    Local = 0
    Remote = {1, 2}
    Scripts <- MCScripts
    Blocks = {0, 1}
    BufCap = 2
    RetryNum = 2
    Threads = {"r", "s"}
    Plans <- MCPlans
    RetryCnt = 1
    MaxErrors = 1
    PoolConns = {1, 2}
    BatchSize = 2
    PageBlocks = 2
    Workloads <- MCWorkloads
    Procs = {"x", "y"}
    PathNames = {"a", "b"}
    Uses <- MCUses
    BigFile = 3
    Listing <- MCListing
    PerEpoch = 6
    PerWorker = 2
    FillMax = 3
INVARIANTS     ClientInv FilesKept
PROPERTY EveryRequestEnds
CHECK_DEADLOCK FALSE
