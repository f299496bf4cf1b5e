\* A follower whose snapshot is ahead of the request.
CONSTANTS
    Node = {n1, n2, n3}
    Nil = Nil
    LogPos <- Positions
    MaxTerm = 1
    SnapshotThreshold = 2
    Starters = {n1}
    Beaters = {n1, n2, n3}
    Crashers = {}
    MaxLog = 4
    MaxStray = 0
    MaxActive = 1
SPECIFICATION Spec
INVARIANTS MajorityStored
CHECK_DEADLOCK FALSE
