--------------------------- MODULE MCReplication ---------------------------
(***************************************************************************)
(* Model-checking instances of RaftReplication, and its AddEntries against *)
(* the loop of handleAppendEntries on small logs.                          *)
(***************************************************************************)
EXTENDS RaftReplication

Positions == [term : 0 .. MaxTerm, index : 0 .. MaxLog]

\* One turn of the loop.
AddEntry(d, e) ==
    LET p == PosOf(d, e.index) IN
    CASE e.index <= d.snapIndex -> d
      [] e.index > d.snapIndex /\ p > Len(d.log) ->
            [d EXCEPT !.log = Append(@, e)]
      [] OTHER -> IF d.log[p].term = e.term THEN d
                  ELSE [d EXCEPT !.log = Append(SubSeq(@, 1, p - 1), e)]

\* Consecutive entries after position base, of terms 1 and 2.
EntriesAfter(base) ==
    {[k \in DOMAIN terms |-> [index |-> base + k, term |-> terms[k]]] :
       terms \in UNION {[1 .. n -> 1 .. 2] : n \in 0 .. 3}}

SmallDisks ==
    UNION {{[log |-> l, snapIndex |-> x, snapTerm |-> x] : l \in EntriesAfter(x)} :
             x \in 0 .. 2}

\* AddEntries does what the loop does, also where a request starts inside the
\* snapshot or leaves a gap.
ASSUME AddEntriesIsTheLoop ==
    \A d \in SmallDisks : \A base \in 0 .. 5 : \A entries \in EntriesAfter(base) :
        AddEntries(d, entries) = FoldLeft(AddEntry, d, entries)
=============================================================================
