SPECIFICATION Spec
CONSTANTS
    w1 = w1
    w2 = w2
    Backends = {b1, b2}
    Txns = {t1, t2}
    Workers = {w1}
    Plans <- MkdirOnOne
    Faults = {"worker", "local", "break", "renew", "crash"}
    MaxFaults = 2
    MaxPerBackend = 1
SYMMETRY Symmetry
INVARIANT CleanAtomicity
PROPERTY DaemonLeavesActive
