\* Two readers, a writer and the close of the file; three blocks, the last one
\* short, on two pipes, so that a pipe is filled again.  A file is closed in the
\* end, and a read can hang: no deadlock check.
SPECIFICATION FairSpec
CONSTANTS
    Readers = {r1, r2}
    FileSize = 5
    Cap = 2
    QueueSize = 2
    ReadSize = 3
    MaxReads = 1
    Faults = {"start", "read", "write"}
INVARIANT Inv
PROPERTIES
    EndIsReal
    CloseEnds
CHECK_DEADLOCK FALSE
