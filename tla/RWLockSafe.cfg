\* One lock memory, three backends: readers keep arriving while backends wait
\* for the exclusive lock, and the entry is removed and entered again.  Two
\* handles: a declared one and the one that waits.  No symmetry: liveness.
SPECIFICATION FairSpec
CONSTANTS
    Procs = {p1, p2, p3}
    Locks = {l1}
    Slots = {s1, s2}
    Reacquire = "never"
INVARIANTS
    MutualExclusion
    NoUseAfterDestroy
    DestroyableIsClear
    FlagHasWaiter
    IInv
PROPERTY WriterProgress
