\* Two replicating threads: a snapshot on the way is overtaken by entries.
CONSTANTS
    n1 = n1
    n2 = n2
    n3 = n3
    k = k
    Node = {n1, n2, n3}
    Nil = Nil
    Key = {k}
    NoKey = NoKey
    Thread = {t, u}
    Threshold = 3
    Starts <- FirstAndLast
    Input <- FivePuts
    Readers = {}
    MaxLate = 0
    Unsteady = {}
SPECIFICATION FailoverSpec
INVARIANT DatabasesReflectLog
CHECK_DEADLOCK FALSE
