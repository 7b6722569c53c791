SPECIFICATION FairSpec
CONSTANTS
    Sessions = {"s1", "s2", "s3"}
    Requests <- MCRequests
    Names <- MCNames
    Part <- MCPart
    Shards = 2
    ShardOf <- MCShardOf
    UserKeys = {1}
    Chunks = {1, 2}
    OldNames <- MCOldNames
    OldDirs <- MCOldDirs
    GroupSize = 2
    PageSize = 2
    BlockSize = 2
    FirstId = 6
INVARIANTS CreateAnswers ReadDirExact UpdatesKept
 
CHECK_DEADLOCK FALSE
