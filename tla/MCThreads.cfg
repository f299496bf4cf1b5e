\* Two nodes, both replicating threads at work, crashes and late requests.
CONSTANTS
    Node = {n1, n2}
    Nil = Nil
    LogPos <- Positions
    MaxTerm = 2
    SnapshotThreshold = 9
    Starters = {n1, n2}
    Beaters = {n1, n2}
    Crashers = {n1}
    MaxLog = 2
    MaxStray = 1
    MaxActive = 2
    Readers = {n1}
SPECIFICATION ReadSpec
INVARIANTS AckedIsCommitted RpcInv
PROPERTIES CommittedStays CommitNeverRegresses ElectionSpec
CHECK_DEADLOCK FALSE
