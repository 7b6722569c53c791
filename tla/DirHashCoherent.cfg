SPECIFICATION Spec
CONSTANTS
    k1 = k1
    k2 = k2
    Procs = {p1, p2}
    Keys = {k1, k2}
    Slots = {s1, s2}
    Threshold = 2
    Programs <- OnWorker
    MaxId = 3
    Ends = {"commit", "abort", "commit prepared"}
SYMMETRY Symmetry
INVARIANTS
    CacheCoherent
    LockedSearchFresh
