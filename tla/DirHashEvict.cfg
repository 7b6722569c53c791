\* Two backends on memory for one entry, with every end a transaction can have.
SPECIFICATION FairSpec
CONSTANTS
    k1 = k1
    k2 = k2
    Procs = {p1, p2}
    Keys = {k1, k2}
    Slots = {s1}
    Threshold = 0
    Programs <- Crowded
    MaxId = 1
    Ends = {"commit", "abort", "commit prepared", "rollback prepared", "session lost"}
INVARIANT Inv
 
