SPECIFICATION FairSpec
CONSTANTS
    CN = CN
    w1 = w1
    w2 = w2
    s1 = s1
    s2 = s2
    s3 = s3
    Workers = {w1, w2}
    Names = {1, 2}
    Home <- HomeOf
    MaxId = 8
    Sessions = {s1, s2, s3}
    Site <- Sites
    Requests <- AllRequests
    Trees <- SmallTrees
    MaxErrors = 1
    MaxLost = 1
INVARIANTS Inv ReplicasAgree DirHasInode TreeIntact 
 
\* Every session runs one request.
CHECK_DEADLOCK FALSE
