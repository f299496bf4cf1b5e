\* Reads of a leader of term 1 while another node is elected and writes.
CONSTANTS
    Node = {n1, n2, n3}
    Nil = Nil
    LogPos <- Positions
    MaxTerm = 2
    SnapshotThreshold = 9
    Starters = {n1, n2}
    Beaters = {}
    Crashers = {}
    MaxLog = 2
    MaxStray = 0
    MaxActive = 2
    Readers = {n1}
SPECIFICATION ReadSpec
INVARIANTS ReadTypeOK ReadsAreCurrent
CHECK_DEADLOCK FALSE
