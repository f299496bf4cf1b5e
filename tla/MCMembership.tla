---------------------------- MODULE MCMembership ----------------------------
(* Model-checking instances of RaftMembership. *)
EXTENDS RaftMembership

CONSTANTS n1, n2, n3

AllNodes == [i \in Node |-> Node]

\* The cluster is {n1, n2}; n3 is entered in the file before it is started.
PairAndNewcomer == (n1 :> {n1, n2}) @@ (n2 :> {n1, n2}) @@ (n3 :> Node)

\* A pair that takes in a third node and whose leader may be restarted, or
\* three nodes one of which is let go.
PairOrThree ==
    {[conf |-> PairAndNewcomer, learners |-> {n3}, restarting |-> {n1}],
     [conf |-> AllNodes, learners |-> {}, restarting |-> {}]}

\* Three nodes, for the leader that removes itself.
ThreeNodes == {[conf |-> AllNodes, learners |-> {}, restarting |-> {}]}

\* n1 is the first leader, n1 or n2 the second.
FirstThenEither == (n1 :> {1, 2}) @@ (n2 :> {2}) @@ (n3 :> {})

OneEach == (n1 :> {1}) @@ (n2 :> {2}) @@ (n3 :> {})

\* One node comes or goes in these instances, so any two majorities meet
\* (OneNodeKeepsQuorums), which is what the theorems assume.
ASSUME OneNodeChanges == OneComesOrGoes
=============================================================================
