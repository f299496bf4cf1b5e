\* The leader removes itself.
CONSTANTS
    n1 = n1
    n2 = n2
    n3 = n3
    Node = {n1, n2, n3}
    Nil = Nil
    Clusters <- ThreeNodes
    LaterConf <- AllNodes
    Joining = {}
    Leaving = {n1}
    Starts <- OneEach
    MaxLog = 2
    PutAt = {2}
    MayTimeOut = FALSE
SPECIFICATION FairMembershipSpec
PROPERTY JointEnds
CHECK_DEADLOCK FALSE
