-------------------------------- MODULE MCRead --------------------------------
(* Model-checking instance of RaftRead. *)
EXTENDS RaftRead

Positions == [term : 0 .. MaxTerm, index : 0 .. MaxLog]
=============================================================================
