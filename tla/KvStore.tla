------------------------------ MODULE KvStore ------------------------------
(***************************************************************************)
(* stateMachine/kv_store.cpp: the contents of a LevelDB under put, delete, *)
(* the entries that change nothing, and a snapshot that replaces them.     *)
(*                                                                         *)
(* A value is represented by the index of the entry that wrote it, so two  *)
(* writes of one key are always told apart; Absent is a missing key.       *)
(***************************************************************************)
EXTENDS Integers, Sequences

CONSTANTS
    Key,
    NoKey    \* the key of an entry that changes no key

ASSUME KeyAssumption == NoKey \notin Key

Absent == 0

\* NONE stands for no-ops and configuration entries.
Noop == [op |-> "NONE", key |-> NoKey]

Command == [op : {"PUT", "DEL"}, key : Key] \cup {Noop}

Empty == [k \in Key |-> Absent]

\* What get returns after entry e, which has index n and is about the key.
Outcome(e, n) == IF e.op = "PUT" THEN n ELSE Absent

\* One of the entries a + 1 .. n of lg is about k.
Touches(lg, k, a, n) == \E x \in a + 1 .. n : lg[x].key = k

\* The last of the entries a + 1 .. n of lg that is about k: a set of one index,
\* or the empty set.
LastTouch(lg, k, a, n) ==
    {m \in a + 1 .. n : lg[m].key = k /\ \A x \in m + 1 .. n : lg[x].key # k}

\* KVStore::apply, for the entries a + 1 .. n in order, on the contents d.
Apply(d, lg, a, n) ==
    [k \in Key |-> IF LastTouch(lg, k, a, n) = {} THEN d[k]
                   ELSE LET m == CHOOSE m \in LastTouch(lg, k, a, n) : TRUE
                        IN Outcome(lg[m], m)]

\* The contents the first n entries of lg stand for.
Contents(lg, n) == Apply(Empty, lg, 0, n)

\* Mutant: keys that the snapshot does not have are kept.
Load_Merges(d, data) == [k \in Key |-> IF data[k] = Absent THEN d[k] ELSE data[k]]

\* KVStore::loadFromSnapshot: every key is deleted, then those of the snapshot
\* are written, in one batch.
Load(d, data) == data
=============================================================================
