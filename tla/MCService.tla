----------------------------- MODULE MCService -----------------------------
(* Model-checking instances of ClientService. *)
EXTENDS ClientService, TLC

CONSTANTS s1, s2, s3, c1, c2

FileOrder == <<s1, s2, s3>>

PutsAndGet == (c1 :> <<"put", "put">>) @@ (c2 :> <<"get">>)
PutEach == (c1 :> <<"put">>) @@ (c2 :> <<"put">>)

\* s3 leads first, then s1.
LastThenFirst == (s1 :> {2}) @@ (s2 :> {}) @@ (s3 :> {1})
=============================================================================
