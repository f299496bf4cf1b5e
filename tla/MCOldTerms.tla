----------------------------- MODULE MCOldTerms -----------------------------
(***************************************************************************)
(* RaftReplication from its initial state, and from a state a few          *)
(* elections in, where an entry of an old term has been left on one node   *)
(* and a competing one on another.                                         *)
(*                                                                         *)
(* How the program gets to the latter: n3 votes for n1 in term 1; n1       *)
(* appends an entry and both its AppendEntries calls fail; n3 then votes   *)
(* for n2 in term 2 (n1 cannot be reached); n2 appends an entry and its    *)
(* calls fail.                                                             *)
(***************************************************************************)
EXTENDS RaftReplication

CONSTANTS n1, n2, n3

Positions == [term : 0 .. MaxTerm, index : 0 .. MaxLog]

LogWith(e) == [EmptyDisk EXCEPT !.log = <<e>>]

OldTermsInit ==
    /\ state = [i \in Node |-> IF i = n3 THEN "Follower" ELSE "Leader"]
    /\ currentTerm = [i \in Node |-> IF i = n1 THEN 1 ELSE 2]
    /\ votedFor = [i \in Node |-> IF i = n3 THEN n2 ELSE i]
    /\ leaderId = [i \in Node |-> IF i = n3 THEN Nil ELSE i]
    /\ round = [i \in Node |-> NoRound]
    /\ call = [i \in Node |-> NoCall]
    /\ stray = {}
    /\ elected = {[term |-> 1, leader |-> n1, voters |-> {n1, n3}],
                  [term |-> 2, leader |-> n2, voters |-> {n2, n3}]}
    /\ disk = [i \in Node |->
                 CASE i = n1 -> LogWith([index |-> 1, term |-> 1])
                   [] i = n2 -> LogWith([index |-> 1, term |-> 2])
                   [] i = n3 -> EmptyDisk]
    /\ commitIndex = [i \in Node |-> 0]
    /\ lastApplied = [i \in Node |-> 0]
    /\ nextIndex = [i \in Node |-> [j \in Node |-> 1]]
    /\ matchIndex = [i \in Node |-> [j \in Node |-> 0]]
    /\ job = [i \in Node |-> [t \in Threads |-> IdleJob]]
    /\ late = {}
    /\ committed = {}
    /\ applied = {}
    /\ acked = {}

\* The two ways to begin; upTo bounds the terms each of them may reach.
VARIABLE upTo

FreshOrOldSpec ==
    /\ \/ Init /\ upTo = 2
       \/ OldTermsInit /\ upTo = 4
    /\ [][Next /\ UNCHANGED upTo /\ \A i \in Node : currentTerm'[i] <= upTo]_<<vars, upTo>>
=============================================================================
