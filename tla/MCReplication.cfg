\* Two elections and two entries from the start, or terms 3 and 4 over the
\* entries terms 1 and 2 left behind.
CONSTANTS
    n1 = n1
    n2 = n2
    n3 = n3
    Node = {n1, n2, n3}
    Nil = Nil
    LogPos <- Positions
    MaxTerm = 4
    SnapshotThreshold = 9
    Starters = {n1, n2}
    Beaters = {n1, n2, n3}
    Crashers = {}
    MaxLog = 2
    MaxStray = 0
    MaxActive = 1
SPECIFICATION FreshOrOldSpec
INVARIANTS TypeOK LeaderCompleteness LogMatching MajorityStored StateMachineSafety
CHECK_DEADLOCK FALSE
