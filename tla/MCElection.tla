----------------------------- MODULE MCElection -----------------------------
(* Model-checking instance of RaftElection. *)
EXTENDS RaftElection, TLC

NodeSymmetry == Permutations(Node)
=============================================================================
