\* Three nodes, two terms, crashes and late vote requests.
CONSTANTS
    Node = {n1, n2, n3}
    Nil = Nil
    LogPos = {p}
    MaxTerm = 2
SPECIFICATION ElectionSpec
SYMMETRY NodeSymmetry
INVARIANTS ElectionTypeOK ElectionSafety LeaderIdIsElected ElectionInv
PROPERTIES VoteStable LeaderYieldsToHigherTerm TermNeverRegresses
