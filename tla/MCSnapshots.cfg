\* A snapshot after every applied entry, a leader that crashes, late requests.
CONSTANTS
    Node = {n1, n2, n3}
    Nil = Nil
    LogPos <- Positions
    MaxTerm = 2
    SnapshotThreshold = 1
    Starters = {n1}
    Beaters = {n1, n2, n3}
    Crashers = {n1}
    MaxLog = 2
    MaxStray = 1
    MaxActive = 1
SPECIFICATION Spec
INVARIANTS  LogIsContiguous
CHECK_DEADLOCK FALSE
