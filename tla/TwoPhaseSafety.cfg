\* One operation on one worker or on both, with any two failures.
SPECIFICATION Spec
CONSTANTS
    w1 = w1
    w2 = w2
    Backends = {b1}
    Txns = {t1}
    Workers = {w1, w2}
    Plans <- AllPlans
    Faults = {"worker", "local", "break", "renew", "crash"}
    MaxFaults = 2
    MaxPerBackend = 1
INVARIANT Inv
PROPERTY ImplementsAtomicCommit
