-------------------------------- MODULE MCKv --------------------------------
(* Model-checking instances of KvReplay. *)
EXTENDS KvReplay, TLC

CONSTANTS n1, n2, n3, k

Put == [op |-> "PUT", key |-> k]
Del == [op |-> "DEL", key |-> k]

\* n1 is the first leader; a node that may be behind succeeds it.
FirstAndLast == (n1 :> {1}) @@ (n2 :> {}) @@ (n3 :> {2})

\* Entries of the first term, then those the second leader may write.
FivePuts == [x \in 1 .. 5 |-> {Put}]

PutDelNoop == <<{Put}, {Del}, {Noop}>>
-----------------------------------------------------------------------------
\* n1 committed and compacted three entries, n3 learnt of it, n2 did not apply
\* them and has just been elected.
AfterFailover ==
    LET three == [x \in 1 .. 3 |-> Put]
        done == [i \in Node |-> IF i = n2 THEN 0 ELSE 3]
    IN
    /\ log = three
    /\ len = [i \in Node |-> 3]
    /\ term = 2
    /\ leader = n2
    /\ start = 4
    /\ seen = [i \in Node |-> IF i = n1 THEN 1 ELSE 2]
    /\ next = [i \in Node |-> 4]
    /\ match = [i \in Node |-> 0]
    /\ commit = 3
    /\ applied = done
    /\ snap = done
    /\ db = [i \in Node |-> Contents(three, done[i])]
    /\ reach = done
    /\ job = [t \in Thread |-> Idle]
    /\ late = {}
    /\ reading = [i \in Node |-> NoRead]
    /\ answer = NoAnswer

FailoverSpec == AfterFailover /\ [][ReplayNext]_vars
=============================================================================
