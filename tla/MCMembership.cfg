\* A pair takes in a third node, or three nodes let one go.
CONSTANTS
    n1 = n1
    n2 = n2
    n3 = n3
    Node = {n1, n2, n3}
    Nil = Nil
    Clusters <- PairOrThree
    LaterConf <- AllNodes
    Joining = {n3}
    Leaving = {n3}
    Starts <- FirstThenEither
    MaxLog = 3
    PutAt = {3}
    MayTimeOut = TRUE
SPECIFICATION MembershipSpec
INVARIANTS
    MembershipTypeOK
    OneLeaderPerTerm
    AppliedAgree
    LeaderHasApplied
    ChainedUntilRestart
CHECK_DEADLOCK FALSE
