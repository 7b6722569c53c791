SPECIFICATION FairSpec
CONSTANTS
    w1 = w1
    w2 = w2
    Backends = {b1}
    Txns = {t1}
    Workers = {w1, w2}
    Plans <- RecoveryPlans
    Faults = {"worker", "local", "break", "renew", "lateRenew", "crash"}
    MaxFaults = 2
    MaxPerBackend = 1
INVARIANT RecoveryPossible
PROPERTY PreparedResolved
