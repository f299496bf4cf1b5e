\* One replicating thread, requests that arrive late, crashes, two leaders.
CONSTANTS
    n1 = n1
    n2 = n2
    n3 = n3
    k = k
    Node = {n1, n2, n3}
    Nil = Nil
    Key = {k}
    NoKey = NoKey
    Thread = {t}
    Threshold = 1
    Starts <- FirstAndLast
    Input <- PutDelNoop
    Readers = {n1, n3}
    MaxLate = 1
    Unsteady = {n3}
SPECIFICATION ReplaySpec
INVARIANTS
    KvTypeOK
    DatabasesReflectLog
    SnapshotsAreNews
    ReplayInv
 
CHECK_DEADLOCK FALSE
