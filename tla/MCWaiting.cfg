\* Two servers lead at the same time and serve a put each.
CONSTANTS
    s1 = s1
    s2 = s2
    s3 = s3
    c1 = c1
    c2 = c2
    Server = {s1, s2, s3}
    Client = {c1, c2}
    Nil = Nil
    Order <- FileOrder
    Program <- PutEach
    Starts <- LastThenFirst
    Beaters = {s1, s3}
    Unsteady = {}
SPECIFICATION FairServiceSpec
PROPERTY EveryOperationReturns
CHECK_DEADLOCK FALSE
