\* Two clients, a leader that dies and its successor.
CONSTANTS
    s1 = s1
    s2 = s2
    s3 = s3
    c1 = c1
    c2 = c2
    Server = {s1, s2, s3}
    Client = {c1, c2}
    Nil = Nil
    Order <- FileOrder
    Program <- PutsAndGet
    Starts <- LastThenFirst
    Beaters = {s3}
    Unsteady = {s3}
SPECIFICATION FairServiceSpec
INVARIANTS
    ServiceTypeOK
    
    OncePerTerm
    DoneStays
PROPERTY OperationsReturn
CHECK_DEADLOCK FALSE
