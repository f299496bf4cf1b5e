--------------------------- MODULE KvReplayProofs ---------------------------
(***************************************************************************)
(* KvReplay implements KvRegister, and the databases reflect the log, for  *)
(* all nodes, keys, logs, thresholds, crashes and late requests, as long   *)
(* as the leader replicates with one thread.                               *)
(***************************************************************************)
EXTENDS KvReplay, WellFoundedInduction, TLAPS

-----------------------------------------------------------------------------
(*****************************************************************************)
(* Contents: replay, prefixes and what a database may be ahead of.           *)
(*****************************************************************************)

\* A non-empty set of naturals has a least element.
LEMMA NatMin == ASSUME NEW T \in SUBSET Nat, T # {}
                PROVE  \E x \in T : \A y \in T : x <= y
<1> DEFINE R == OpToRel(<, Nat)
<1>1. IsWellFoundedOn(R, Nat)
  BY NatLessThanWellFounded
<1>2. \A x, y \in Nat : x < y => <<x, y>> \in R
  BY DEF OpToRel
<1> HIDE DEF R
<1>3. PICK x \in T : \A y \in T : ~(<<y, x>> \in R)
  BY <1>1, WFMin
<1>4. \A y \in T : ~(y < x)
  BY <1>2, <1>3
<1> QED BY <1>4

\* If some entry is about a key, one of them is the last.
LEMMA LastTouchExists ==
    ASSUME NEW lg, NEW k, NEW a \in Nat, NEW n \in Nat, Touches(lg, k, a, n)
    PROVE  LastTouch(lg, k, a, n) # {}
<1> DEFINE X == {x \in a + 1 .. n : lg[x].key = k}
           T == {n - x : x \in X}
<1>1. T \in SUBSET Nat /\ T # {}
  BY DEF Touches
<1>2. PICK y \in T : \A z \in T : y <= z
  BY <1>1, NatMin
<1>3. PICK m \in X : y = n - m
  OBVIOUS
<1>4. \A x \in m + 1 .. n : lg[x].key # k
  <2> SUFFICES ASSUME NEW x \in m + 1 .. n, lg[x].key = k PROVE FALSE
    OBVIOUS
  <2>1. x \in X
    BY <1>3
  <2>2. n - x \in T
    BY <2>1
  <2>3. n - m <= n - x
    BY <1>2, <1>3, <2>2
  <2> QED BY <2>3
<1> QED BY <1>3, <1>4 DEF LastTouch

\* There is only one last entry about a key.
LEMMA LastTouchUnique ==
    ASSUME NEW lg, NEW k, NEW a \in Nat, NEW n \in Nat,
           NEW x \in LastTouch(lg, k, a, n), NEW y \in LastTouch(lg, k, a, n)
    PROVE  x = y
BY DEF LastTouch

\* Applying entries gives a key what the last of them about it says ...
LEMMA ApplyTouched ==
    ASSUME NEW lg, NEW d, NEW k \in Key, NEW a \in Nat, NEW n \in Nat,
           NEW m \in LastTouch(lg, k, a, n)
    PROVE  Apply(d, lg, a, n)[k] = Outcome(lg[m], m)
<1> DEFINE c == CHOOSE x \in LastTouch(lg, k, a, n) : TRUE
<1>1. c \in LastTouch(lg, k, a, n)
  OBVIOUS
<1>2. c = m
  BY <1>1, LastTouchUnique
<1>3. Apply(d, lg, a, n)[k] = Outcome(lg[c], c)
  BY DEF Apply
<1> QED BY <1>2, <1>3

\* ... and leaves it alone if none is about it.
LEMMA ApplyUntouched ==
    ASSUME NEW lg, NEW d, NEW k \in Key, NEW a \in Nat, NEW n \in Nat,
           ~Touches(lg, k, a, n)
    PROVE  Apply(d, lg, a, n)[k] = d[k]
BY DEF Apply, LastTouch, Touches

\* Applying entries to contents gives contents.
LEMMA ApplyType ==
    ASSUME NEW lg, NEW d \in [Key -> Nat], NEW a \in Nat, NEW n \in Nat
    PROVE  Apply(d, lg, a, n) \in [Key -> Nat]
<1>1. SUFFICES ASSUME NEW k \in Key PROVE Apply(d, lg, a, n)[k] \in Nat
  BY DEF Apply
<1>2. CASE Touches(lg, k, a, n)
  <2>1. PICK m \in LastTouch(lg, k, a, n) : TRUE
    BY <1>2, LastTouchExists
  <2>2. m \in Nat
    BY <2>1 DEF LastTouch
  <2> QED BY <2>1, <2>2, ApplyTouched DEF Outcome, Absent
<1>3. CASE ~Touches(lg, k, a, n)
  BY <1>3, ApplyUntouched
<1> QED BY <1>2, <1>3

\* The contents of a prefix, by the last entry about the key after a ...
LEMMA ContentsTouched ==
    ASSUME NEW lg, NEW k \in Key, NEW a \in Nat, NEW n \in Nat,
           NEW m \in LastTouch(lg, k, a, n)
    PROVE  Contents(lg, n)[k] = Outcome(lg[m], m)
<1>1. m \in LastTouch(lg, k, 0, n)
  BY DEF LastTouch
<1> QED BY <1>1, ApplyTouched DEF Contents

\* ... or by a shorter prefix if there is none.
LEMMA ContentsUntouched ==
    ASSUME NEW lg, NEW k \in Key, NEW a \in Nat, NEW n \in Nat, a <= n,
           ~Touches(lg, k, a, n)
    PROVE  Contents(lg, n)[k] = Contents(lg, a)[k]
<1>1. LastTouch(lg, k, 0, n) = LastTouch(lg, k, 0, a)
  BY DEF LastTouch, Touches
<1>2. CASE Touches(lg, k, 0, a)
  <2>1. PICK m \in LastTouch(lg, k, 0, a) : TRUE
    BY <1>2, LastTouchExists
  <2> QED BY <1>1, <2>1, ContentsTouched
<1>3. CASE ~Touches(lg, k, 0, a)
  <2>1. ~Touches(lg, k, 0, n)
    BY <1>3 DEF Touches
  <2> QED BY <1>3, <2>1, ApplyUntouched DEF Contents
<1> QED BY <1>2, <1>3

\* Only the entries up to r matter.
LEMMA ReflectsPrefix ==
    ASSUME NEW lg, NEW lg2, NEW d, NEW a \in Nat, NEW r \in Nat, a <= r,
           \A x \in 1 .. r : lg2[x] = lg[x],
           Reflects(lg, d, a, r)
    PROVE  Reflects(lg2, d, a, r)
<1>1. SUFFICES ASSUME NEW k \in Key, ~\E x \in a + 1 .. r : lg2[x].key = k
               PROVE  d[k] = Contents(lg2, a)[k]
  BY DEF Reflects, Touches
<1>2. ~\E x \in a + 1 .. r : lg[x].key = k
  BY <1>1
<1>3. LastTouch(lg2, k, 0, a) = LastTouch(lg, k, 0, a)
  BY DEF LastTouch
<1>4. \A m \in LastTouch(lg, k, 0, a) : lg2[m] = lg[m]
  BY DEF LastTouch
<1>5. Contents(lg2, a)[k] = Contents(lg, a)[k]
  <2>1. CASE Touches(lg, k, 0, a)
    <3>1. PICK m \in LastTouch(lg, k, 0, a) : TRUE
      BY <2>1, LastTouchExists
    <3> QED BY <1>3, <1>4, <3>1, ContentsTouched
  <2>2. CASE ~Touches(lg, k, 0, a)
    <3>1. ~Touches(lg2, k, 0, a)
      BY <2>2 DEF Touches
    <3> QED BY <2>2, <3>1, ApplyUntouched DEF Contents
  <2> QED BY <2>1, <2>2
<1> QED BY <1>2, <1>5 DEF Reflects, Touches

\* Contents that fit a position fit every earlier one: a restart forgets what was
\* applied, and the entries in between will be applied again.
LEMMA ReflectsBack ==
    ASSUME NEW lg, NEW d, NEW a \in Nat, NEW b \in Nat, NEW r \in Nat,
           a <= b, b <= r, Reflects(lg, d, b, r)
    PROVE  Reflects(lg, d, a, r)
<1>1. SUFFICES ASSUME NEW k \in Key, ~\E x \in a + 1 .. r : lg[x].key = k
               PROVE  d[k] = Contents(lg, a)[k]
  BY DEF Reflects, Touches
<1>2. ~Touches(lg, k, a, b)
  BY <1>1 DEF Touches
<1>3. Contents(lg, b)[k] = Contents(lg, a)[k]
  BY <1>2, ContentsUntouched
<1>4. ~\E x \in b + 1 .. r : lg[x].key = k
  BY <1>1
<1> QED BY <1>3, <1>4 DEF Reflects, Touches

\* Applying the next entries, for the first time or again, keeps the contents fit.
LEMMA ReflectsApply ==
    ASSUME NEW lg, NEW d, NEW a \in Nat, NEW n \in Nat, NEW r \in Nat,
           a <= n, Reflects(lg, d, a, r)
    PROVE  Reflects(lg, Apply(d, lg, a, n), n, Larger(r, n))
<1>1. SUFFICES ASSUME NEW k \in Key, ~\E x \in n + 1 .. Larger(r, n) : lg[x].key = k
               PROVE  Apply(d, lg, a, n)[k] = Contents(lg, n)[k]
  BY DEF Reflects, Touches
<1>2. CASE Touches(lg, k, a, n)
  BY <1>2, LastTouchExists, ApplyTouched, ContentsTouched
<1>3. CASE ~Touches(lg, k, a, n)
  <2>1. ~\E x \in a + 1 .. r : lg[x].key = k
    BY <1>1, <1>3 DEF Touches, Larger
  <2>2. d[k] = Contents(lg, a)[k]
    BY <2>1 DEF Reflects, Touches
  <2> QED BY <1>3, <2>2, ApplyUntouched, ContentsUntouched
<1> QED BY <1>2, <1>3

\* Contents that are not ahead of a position are those of the position.
LEMMA ReflectsExactly ==
    ASSUME NEW lg, NEW d, NEW a \in Nat, NEW r \in Nat, r <= a,
           Reflects(lg, d, a, r), NEW k \in Key
    PROVE  d[k] = Contents(lg, a)[k]
BY DEF Reflects, Touches

\* An empty database fits an empty log.
LEMMA ReflectsEmpty ==
    ASSUME NEW lg
    PROVE  Reflects(lg, Empty, 0, 0)
<1>1. SUFFICES ASSUME NEW k \in Key PROVE Empty[k] = Contents(lg, 0)[k]
  BY DEF Reflects, Touches
<1>2. ~Touches(lg, k, 0, 0)
  BY DEF Touches
<1> QED BY <1>2, ApplyUntouched DEF Contents

-----------------------------------------------------------------------------
(*****************************************************************************)
(* Requests.                                                                 *)
(*****************************************************************************)

\* What is needed of the constants.
LEMMA ConstantFacts == Nil \notin Node /\ Threshold \in Nat /\ Threshold > 0
BY ReplayAssumption DEF ReplayAssumption

USE ConstantFacts

\* A request is on the way without a caller, or a thread waits for its answer.
LEMMA RequestIs ==
    ASSUME NEW m
    PROVE  m \in Requests <=> \/ m \in late
                              \/ \E t \in Thread : job[t].stage = "sent" /\ m = job[t].msg
BY DEF Requests

\* The fields of a request.
LEMMA RequestTypes ==
    ASSUME KvTypeOK, JobInv, NEW m \in Requests
    PROVE  /\ m.to \in Node /\ m.term \in Nat
           /\ m \in Appends \cup Snapshots
           /\ m.kind \in {"append", "snapshot"}
           /\ m.kind = "append" => m \in Appends /\ m.prev \in Nat /\ m.last \in Nat /\ m.commit \in Nat
           /\ m.kind = "snapshot" =>
                /\ m \in Snapshots /\ m.index \in Nat /\ m.base \in Nat /\ m.reach \in Nat
                /\ m.data \in [Key -> Nat]
<1>1. m \in Appends \cup Snapshots
  BY RequestIs DEF KvTypeOK, JobInv
<1> QED BY <1>1 DEF Appends, Snapshots

\* The fields of the request a busy thread sent.
LEMMA JobTypes ==
    ASSUME KvTypeOK, JobInv, NEW t \in Thread, job[t].stage # "idle"
    PROVE  LET m == job[t].msg IN
           /\ m.to \in Node /\ m.term \in Nat
           /\ m \in Appends \cup Snapshots
           /\ m.kind \in {"append", "snapshot"}
           /\ m.kind = "append" => m \in Appends /\ m.prev \in Nat /\ m.last \in Nat /\ m.commit \in Nat
           /\ m.kind = "snapshot" =>
                /\ m \in Snapshots /\ m.index \in Nat /\ m.base \in Nat /\ m.reach \in Nat
                /\ m.data \in [Key -> Nat]
<1>1. job[t].msg \in Appends \cup Snapshots
  BY DEF KvTypeOK, JobInv
<1> QED BY <1>1 DEF Appends, Snapshots

\* Reads.
LEMMA BeginReadStep ==
    ASSUME ReplayInv, NEW k \in Key, BeginRead(k)
    PROVE  ReplayInv'
<1> USE DEF ReplayInv
<1>1. KvTypeOK'
  BY DEF KvTypeOK, BeginRead, MayRead, NoAnswer, Absent, logVars, peerVars, dbVars
<1>2. Requests' = Requests /\ SnapshotRequests' = SnapshotRequests
  BY DEF BeginRead, Requests, SnapshotRequests, peerVars
<1>3. DatabasesReflectLog' /\ SnapshotsAreNews' /\ PositionsInv' /\ NextInv' /\ RequestsInv'
  BY <1>2 DEF BeginRead, logVars, peerVars, dbVars, DatabasesReflectLog,
     SnapshotsAreNews, PositionsInv, NextInv, RequestsInv, IsNews, NewSnapshot,
     Reflects
<1>4. JobInv' /\ NewsInv' /\ OvertakenInv'
  BY <1>2 DEF BeginRead, logVars, peerVars, dbVars, JobInv, NewsInv, OvertakenInv,
     IsNews, NewSnapshot
<1>5. ReadingInv'
  <2> SUFFICES ASSUME NEW i \in Node, reading'[i] # NoRead
               PROVE  /\ reading'[i].key \in Key
                      /\ reading'[i].from <= applied[i] /\ reach[i] <= applied[i]
                      /\ seen[i] = term => i = leader
                      /\ \A m \in Requests : m.to = i => m.term # seen[i]
    BY <1>2 DEF ReadingInv, BeginRead, logVars, dbVars
  <2>1. CASE i = leader
    <3>1. reading'[i].key \in Key /\ reading'[i].from = applied[i]
      BY <2>1 DEF BeginRead, KvTypeOK
    <3>2. applied[i] = commit /\ reach[i] <= commit
      BY <2>1 DEF BeginRead, MayRead, PositionsInv, DatabasesReflectLog
    <3>3. \A m \in Requests : m.to = i => m.term # seen[i]
      BY <2>1 DEF PositionsInv, RequestsInv, BeginRead, MayRead
    <3> QED BY <2>1, <3>1, <3>2, <3>3 DEF KvTypeOK
  <2>2. CASE i # leader
    BY <2>2 DEF BeginRead, KvTypeOK, ReadingInv
  <2> QED BY <2>1, <2>2
<1> QED BY <1>1, <1>3, <1>4, <1>5

\* The read that ends.
LEMMA EndReadStep ==
    ASSUME ReplayInv, NEW i \in Node, EndRead(i)
    PROVE  ReplayInv'
<1> USE DEF ReplayInv
<1>1. KvTypeOK'
  <2>1. reading[i].key \in Key /\ db[i][reading[i].key] \in Nat
    BY DEF KvTypeOK, ReadingInv, EndRead
  <2> QED BY <2>1 DEF KvTypeOK, EndRead, NoRead, logVars, peerVars, dbVars
<1>2. Requests' = Requests /\ SnapshotRequests' = SnapshotRequests
  BY DEF EndRead, Requests, SnapshotRequests, peerVars
<1>3. DatabasesReflectLog' /\ SnapshotsAreNews' /\ PositionsInv' /\ NextInv' /\ RequestsInv'
  BY <1>2 DEF EndRead, logVars, peerVars, dbVars, DatabasesReflectLog,
     SnapshotsAreNews, PositionsInv, NextInv, RequestsInv, IsNews, NewSnapshot,
     Reflects
<1>4. JobInv' /\ NewsInv' /\ OvertakenInv'
  BY <1>2 DEF EndRead, logVars, peerVars, dbVars, JobInv, NewsInv, OvertakenInv,
     IsNews, NewSnapshot
<1>5. ReadingInv'
  BY <1>2 DEF EndRead, logVars, peerVars, dbVars, ReadingInv, KvTypeOK
<1> QED BY <1>1, <1>3, <1>4, <1>5

\* Requests may disappear from "late" and with their caller.
LEMMA FewerRequestsStep ==
    ASSUME ReplayInv, UNCHANGED <<logVars, next, match, dbVars, readVars>>,
           Requests' \subseteq Requests, late' \subseteq Appends \cup Snapshots,
           job' \in [Thread -> [stage : {"idle", "sent", "answered"}, ok : BOOLEAN,
                                msg : Appends \cup Snapshots \cup {NoCall}]],
           \A t \in Thread : job'[t].stage = "idle" \/ (job'[t] = job[t] /\ late' \subseteq late)
    PROVE  ReplayInv'
<1> USE DEF ReplayInv
<1>1. KvTypeOK'
  BY DEF KvTypeOK, logVars, dbVars, readVars
<1>2. SnapshotRequests' \subseteq SnapshotRequests
  BY DEF SnapshotRequests
<1>3. DatabasesReflectLog' /\ SnapshotsAreNews' /\ PositionsInv' /\ NextInv' /\ RequestsInv'
  BY <1>2 DEF logVars, dbVars, DatabasesReflectLog, SnapshotsAreNews, PositionsInv,
     NextInv, RequestsInv, IsNews, NewSnapshot, Reflects
<1>4. JobInv'
  BY <1>2 DEF logVars, dbVars, JobInv
<1>5. NewsInv'
  BY <1>2 DEF logVars, dbVars, NewsInv, IsNews, NewSnapshot
<1>6. OvertakenInv'
  BY <1>2 DEF logVars, dbVars, OvertakenInv, NewSnapshot
<1>7. ReadingInv'
  BY <1>2 DEF ReadingInv, logVars, dbVars, readVars
<1> QED BY <1>1, <1>3, <1>4, <1>5, <1>6, <1>7

\* A request of an older term is refused.
LEMMA RefuseLateStep ==
    ASSUME ReplayInv, NEW m \in late, RefuseLate(m)
    PROVE  ReplayInv'
<1>1. Requests' \subseteq Requests /\ late' \subseteq late /\ job' = job
  BY DEF RefuseLate, Requests
<1> QED BY <1>1, FewerRequestsStep DEF RefuseLate, ReplayInv, KvTypeOK

\* A call fails; its request may stay on the way.
LEMMA CallFailsStep ==
    ASSUME OneThread, ReplayInv, NEW t \in Thread, CallFails(t)
    PROVE  ReplayInv'
<1>1. job'[t].stage = "idle" /\ \A u \in Thread : u = t
  BY DEF CallFails, Idle, ReplayInv, KvTypeOK, OneThread
<1>2. Requests' \subseteq Requests
  BY <1>1 DEF CallFails, Requests
<1>3. late' \subseteq Requests /\ late \subseteq Requests
  BY DEF CallFails, Requests
<1>4. late' \subseteq Appends \cup Snapshots
  BY <1>3, RequestTypes DEF ReplayInv
<1>5. job' \in [Thread -> [stage : {"idle", "sent", "answered"}, ok : BOOLEAN,
                           msg : Appends \cup Snapshots \cup {NoCall}]]
  BY DEF CallFails, Idle, ReplayInv, KvTypeOK
<1> QED BY <1>1, <1>2, <1>4, <1>5, FewerRequestsStep DEF CallFails

\* A write makes the log longer.
LEMMA WriteStep ==
    ASSUME ReplayInv, NEW c \in Command, Write(c)
    PROVE  ReplayInv'
<1> USE DEF ReplayInv
<1>1. /\ log' \in Seq(Command) /\ Len(log') = Len(log) + 1
      /\ Len(log) \in Nat
      /\ \A x \in 1 .. Len(log) : log'[x] = log[x]
  BY DEF KvTypeOK, Write
<1>2. KvTypeOK'
  <2>1. next' \in [Node -> 0 .. Len(log') + 1] /\ match' \in [Node -> 0 .. Len(log')]
    <3>1. 0 .. Len(log) + 1 \subseteq 0 .. Len(log') + 1 /\ 0 .. Len(log) \subseteq 0 .. Len(log')
      BY <1>1
    <3>2. next \in [Node -> 0 .. Len(log) + 1] /\ match \in [Node -> 0 .. Len(log)]
      BY DEF KvTypeOK
    <3>3. next' = next /\ match' = match
      BY DEF Write, peerVars
    <3> QED BY <3>1, <3>2, <3>3
  <2>2. len' \in [Node -> Nat]
    BY DEF KvTypeOK, Write
  <2> QED BY <1>1, <2>1, <2>2 DEF KvTypeOK, Write, peerVars, dbVars, readVars
<1>3. Requests' = Requests /\ SnapshotRequests' = SnapshotRequests
  BY DEF Write, Requests, SnapshotRequests, peerVars
<1>4. \A d, a, r : a \in Nat /\ r \in Nat /\ a <= r /\ r <= commit /\ Reflects(log, d, a, r)
                      => Reflects(log', d, a, r)
  <2> SUFFICES ASSUME NEW d, NEW a \in Nat, NEW r \in Nat, a <= r, r <= commit,
                      Reflects(log, d, a, r)
               PROVE  Reflects(log', d, a, r)
    OBVIOUS
  <2>1. \A x \in 1 .. r : log'[x] = log[x]
    BY <1>1 DEF PositionsInv, KvTypeOK
  <2> QED BY <2>1, ReflectsPrefix
<1>5. DatabasesReflectLog'
  BY <1>4 DEF DatabasesReflectLog, Write, dbVars, KvTypeOK
<1>6. SnapshotsAreNews' /\ NextInv' /\ OvertakenInv'
  BY <1>3 DEF Write, peerVars, dbVars, SnapshotsAreNews, NextInv, OvertakenInv,
     IsNews, NewSnapshot
<1>7. PositionsInv'
  <2>0. /\ applied \in [Node -> Nat] /\ len \in [Node -> Nat] /\ leader \in Node
        /\ commit \in Nat /\ start \in Nat
    BY DEF KvTypeOK, Write
  <2>1. \A i \in Node : applied[i] <= len'[i] /\ len'[i] <= Len(log')
    <3> SUFFICES ASSUME NEW i \in Node PROVE applied[i] <= len'[i] /\ len'[i] <= Len(log')
      OBVIOUS
    <3>1. applied[i] <= len[i] /\ len[i] <= Len(log)
      BY DEF PositionsInv
    <3>2. len'[i] = IF i = leader THEN Len(log) + 1 ELSE len[i]
      BY <2>0 DEF Write
    <3>3. applied[i] \in Nat /\ len[i] \in Nat
      BY <2>0
    <3> QED BY <1>1, <3>1, <3>2, <3>3
  <2>2. leader \in Node /\ len'[leader] = Len(log')
    BY <1>1, <2>0 DEF Write
  <2>3. UNCHANGED <<commit, applied, seen, term, leader, start>>
    BY DEF Write, dbVars
  <2>4. commit <= Len(log') /\ (start <= Len(log) + 1 => start <= Len(log') + 1)
    BY <1>1, <2>0 DEF PositionsInv
  <2> QED BY <2>1, <2>2, <2>3, <2>4 DEF PositionsInv
<1>8. RequestsInv'
  <2> SUFFICES ASSUME NEW m \in Requests PROVE RequestsInv!(m)'
    BY <1>3 DEF RequestsInv
  <2>1. m.kind = "snapshot" => Reflects(log', m.data, m.base, m.reach)
    BY <1>4, RequestTypes DEF RequestsInv
  <2>2. m.kind = "append" => m.last <= Len(log')
    BY <1>1, RequestTypes DEF RequestsInv, KvTypeOK
  <2> QED BY <2>1, <2>2 DEF RequestsInv, Write, dbVars
<1>9. JobInv'
  <2> SUFFICES ASSUME NEW t \in Thread, job[t].stage # "idle" PROVE JobInv!(t)'
    BY DEF JobInv, Write, peerVars
  <2>1. job[t].msg.kind = "append" => job[t].msg.last <= Len(log')
    <3> SUFFICES ASSUME job[t].msg.kind = "append" PROVE job[t].msg.last <= Len(log')
      OBVIOUS
    <3>1. job[t].msg.last <= Len(log)
      BY DEF JobInv
    <3>2. job[t].msg.last \in Nat
      BY JobTypes
    <3> QED BY <1>1, <3>1, <3>2
  <2> QED BY <2>1 DEF JobInv, Write, peerVars, dbVars
<1>10. NewsInv' /\ ReadingInv'
  BY <1>3 DEF Write, peerVars, dbVars, readVars, NewsInv, ReadingInv, IsNews,
     NewSnapshot
<1> QED BY <1>2, <1>5, <1>6, <1>7, <1>8, <1>9, <1>10

-----------------------------------------------------------------------------
(*****************************************************************************)
(* The receiver of a request.                                                *)
(*****************************************************************************)

\* A step of node j, which is not the leader: it hears of term x, may store and
\* apply entries, replace its database or restart, and does not serve a read then.
LEMMA ReceiverStep ==
    ASSUME ReplayInv, NEW j \in Node, j # leader,
           NEW x \in Nat, seen[j] <= x, x <= term,
           seen' = [seen EXCEPT ![j] = x],
           reading' = [reading EXCEPT ![j] = NoRead],
           UNCHANGED <<log, term, leader, start, commit, next, match, answer>>,
           Requests' \subseteq Requests, late' \subseteq late,
           job' \in [Thread -> [stage : {"idle", "sent", "answered"}, ok : BOOLEAN,
                                msg : Appends \cup Snapshots \cup {NoCall}]],
           len' \in [Node -> Nat], applied' \in [Node -> Nat], snap' \in [Node -> Nat],
           db' \in [Node -> [Key -> Nat]], reach' \in [Node -> Nat],
           \A i \in Node \ {j} : /\ len'[i] = len[i] /\ applied'[i] = applied[i]
                                 /\ snap'[i] = snap[i] /\ db'[i] = db[i] /\ reach'[i] = reach[i],
           snap[j] <= snap'[j], snap'[j] <= applied'[j], applied'[j] <= reach'[j],
           reach'[j] <= commit, applied'[j] <= len'[j], len'[j] <= Len(log),
           Reflects(log, db'[j], applied'[j], reach'[j]),
           \/ applied'[j] <= applied[j]
           \/ leader # Nil => \/ applied'[j] <= applied[leader]
                              \/ applied'[j] < next[j] /\ seen[j] # term,
           \A y \in SnapshotRequests :
               y.to = j /\ y.term >= x /\ y.index > snap'[j] => applied'[j] <= y.base,
           \A u \in Thread :
               \/ job'[u] = job[u]
               \/ job'[u].stage = "idle"
               \/ /\ job[u].stage = "sent" /\ job'[u].stage = "answered"
                  /\ job'[u].msg = job[u].msg /\ job[u].msg.to = j /\ x = term
                  /\ job[u].msg.kind = "snapshot" => job[u].msg.index <= snap'[j]
                  /\ ~job'[u].ok => /\ job[u].msg.kind = "append"
                                    /\ applied'[j] < job[u].msg.prev
    PROVE  ReplayInv'
<1> USE DEF ReplayInv
<1>0. /\ seen \in [Node -> Nat] /\ snap \in [Node -> Nat] /\ applied \in [Node -> Nat]
      /\ len \in [Node -> Nat] /\ term \in Nat /\ next \in [Node -> Int] /\ start \in Nat
      /\ leader # Nil => leader \in Node
  <2>1. next \in [Node -> Int]
    <3>1. next \in [Node -> 0 .. Len(log) + 1]
      BY DEF KvTypeOK
    <3>2. 0 .. Len(log) + 1 \subseteq Int
      OBVIOUS
    <3> QED BY <3>1, <3>2
  <2> QED BY <2>1 DEF KvTypeOK
<1>1. KvTypeOK'
  BY DEF KvTypeOK, NoRead
<1>2. SnapshotRequests' \subseteq SnapshotRequests
  BY DEF SnapshotRequests
<1>3. DatabasesReflectLog'
  BY DEF DatabasesReflectLog
<1>4. \A i \in Node : seen[i] \in Nat /\ seen'[i] \in Nat /\ seen[i] <= seen'[i]
  <2> SUFFICES ASSUME NEW i \in Node
               PROVE  seen[i] \in Nat /\ seen'[i] \in Nat /\ seen[i] <= seen'[i]
    OBVIOUS
  <2>1. seen'[i] = IF i = j THEN x ELSE seen[i]
    BY <1>0
  <2>2. seen[i] \in Nat
    BY <1>0
  <2>3. CASE i = j
    BY <2>1, <2>2, <2>3
  <2>4. CASE i # j
    BY <2>1, <2>2, <2>4
  <2> QED BY <2>3, <2>4
<1>5. \A i \in Node : snap[i] \in Nat /\ snap'[i] \in Nat /\ snap[i] <= snap'[i]
  <2> SUFFICES ASSUME NEW i \in Node
               PROVE  snap[i] \in Nat /\ snap'[i] \in Nat /\ snap[i] <= snap'[i]
    OBVIOUS
  <2>1. i # j => snap'[i] = snap[i]
    OBVIOUS
  <2>2. snap[i] \in Nat /\ snap'[i] \in Nat
    BY <1>0
  <2> QED BY <2>1, <2>2
<1>6. \A y \in SnapshotRequests : NewSnapshot(y)' => NewSnapshot(y)
  BY <1>5, RequestTypes DEF NewSnapshot, SnapshotRequests
<1>7. \A y \in SnapshotRequests : IsNews(y)' => IsNews(y)
  <2> SUFFICES ASSUME NEW y \in SnapshotRequests, IsNews(y)' PROVE y.term >= seen[y.to]
    BY <1>6 DEF IsNews
  <2> QED BY <1>4, RequestTypes DEF IsNews, SnapshotRequests
<1>8. SnapshotsAreNews'
  <2> SUFFICES ASSUME NEW y \in SnapshotRequests, IsNews(y)' PROVE applied'[y.to] <= y.base
    BY <1>2 DEF SnapshotsAreNews
  <2>1. y.to \in Node /\ IsNews(y)
    BY <1>7, RequestTypes DEF SnapshotRequests
  <2>2. CASE y.to = j
    <3>1. seen'[j] = x
      BY DEF KvTypeOK
    <3> QED BY <2>2, <3>1 DEF IsNews, NewSnapshot
  <2>3. CASE y.to # j
    BY <2>1, <2>3 DEF SnapshotsAreNews
  <2> QED BY <2>2, <2>3
<1>9. PositionsInv'
  <2>1. \A i \in Node : applied'[i] <= len'[i] /\ len'[i] <= Len(log) /\ seen'[i] <= term
    BY <1>0 DEF PositionsInv
  <2>2. leader # Nil => seen'[leader] = seen[leader] /\ len'[leader] = len[leader]
                        /\ applied'[leader] = applied[leader]
    BY <1>0
  <2> QED BY <2>1, <2>2 DEF PositionsInv
<1>10. ASSUME leader # Nil
       PROVE  /\ leader \in Node \ {j} /\ applied'[leader] = applied[leader]
              /\ snap'[leader] = snap[leader] /\ applied[leader] \in Nat
  BY <1>0, <1>10
<1>11. NextInv'
  <2> SUFFICES ASSUME leader # Nil, NEW i \in Node
               PROVE  /\ applied'[i] <= applied[leader] \/ applied'[i] < next[i]
                      /\ seen'[i] = term \/ next[i] = start
    BY <1>10 DEF NextInv
  <2>1. applied[i] <= applied[leader] \/ applied[i] < next[i]
    BY DEF NextInv
  <2>2. seen[i] = term \/ next[i] = start
    BY DEF NextInv
  <2>3. applied[i] \in Nat /\ applied'[i] \in Nat /\ next[i] \in Int /\ term \in Nat
    BY <1>0
  <2>4. CASE i = j
    <3>1. seen'[j] = x /\ seen[j] \in Nat
      BY <1>0
    <3> QED BY SMTT(30), <1>10, <2>1, <2>2, <2>3, <2>4, <3>1
  <2>5. CASE i # j
    BY <1>0, <2>1, <2>2, <2>5
  <2> QED BY <2>4, <2>5
<1>12. RequestsInv'
  BY <1>10 DEF RequestsInv
<1>13. JobInv'
  <2> SUFFICES ASSUME NEW u \in Thread, job'[u].stage # "idle" PROVE JobInv!(u)'
    BY DEF JobInv
  <2> DEFINE m == job[u].msg
  <2>1. job[u].stage # "idle" /\ job'[u].msg = m
    OBVIOUS
  <2>2. /\ leader # Nil /\ m # NoCall /\ m.term = term /\ m.to # leader /\ m.to \in Node
        /\ m.kind = "append" =>
             m.prev = next[m.to] - 1 /\ start <= m.last + 1 /\ m.last <= Len(log) /\ m.prev \in Nat
        /\ m.kind = "snapshot" =>
             next[m.to] <= snap[leader] /\ applied[m.to] <= applied[leader]
        /\ job[u].stage = "answered" => seen[m.to] = term
        /\ job[u].stage = "answered" /\ ~job[u].ok =>
             m.kind = "append" /\ (applied[m.to] <= applied[leader] \/ applied[m.to] < m.prev)
    BY <2>1, JobTypes DEF JobInv
  <2>3. /\ leader \in Node /\ snap[leader] \in Nat /\ snap[leader] <= applied[leader]
        /\ applied[leader] \in Nat /\ next[m.to] \in Int /\ term \in Nat
        /\ applied[m.to] \in Nat /\ applied'[m.to] \in Nat /\ seen[m.to] \in Nat
    <3>1. leader \in Node /\ m.to \in Node
      BY <2>2, <1>10
    <3>2. snap[leader] <= applied[leader]
      BY <3>1 DEF DatabasesReflectLog
    <3> HIDE DEF m
    <3> QED BY <1>0, <3>1, <3>2
  <2>4. job'[u].stage = "answered" => seen'[m.to] = term
    <3>1. job'[u].stage = "answered" => job[u].stage = "answered" \/ (m.to = j /\ x = term)
      OBVIOUS
    <3>2. job[u].stage = "answered" => seen[m.to] = term
      BY <2>2
    <3>3. m.to \in Node
      BY <2>2
    <3>4. seen'[m.to] = IF m.to = j THEN x ELSE seen[m.to]
      BY <1>0, <3>3
    <3> HIDE DEF m
    <3> QED BY SMTT(30), <1>0, <2>3, <3>1, <3>2, <3>4
  <2>5. m.kind = "snapshot" => applied'[m.to] <= applied[leader]
    <3> SUFFICES ASSUME m.kind = "snapshot" PROVE applied'[m.to] <= applied[leader]
      OBVIOUS
    <3>1. next[m.to] <= snap[leader] /\ applied[m.to] <= applied[leader] /\ m.to \in Node
      BY <2>2
    <3>2. m.to # j => applied'[m.to] = applied[m.to]
      BY <3>1
    <3>3. m.to = j => \/ applied'[m.to] <= applied[m.to]
                      \/ applied'[m.to] <= applied[leader]
                      \/ applied'[m.to] < next[m.to]
      BY <2>2
    <3> HIDE DEF m
    <3> QED BY <2>3, <3>1, <3>2, <3>3
  <2>6. job'[u].stage = "answered" /\ ~job'[u].ok =>
          m.kind = "append" /\ (applied'[m.to] <= applied[leader] \/ applied'[m.to] < m.prev)
    <3> SUFFICES ASSUME job'[u].stage = "answered", ~job'[u].ok
                 PROVE  /\ m.kind = "append"
                        /\ applied'[m.to] <= applied[leader] \/ applied'[m.to] < m.prev
      OBVIOUS
    <3>1. CASE job'[u] = job[u]
      <4>1. /\ m.kind = "append" /\ m.to \in Node /\ seen[m.to] = term
            /\ applied[m.to] <= applied[leader] \/ applied[m.to] < m.prev
            /\ m.prev \in Nat /\ leader # Nil
        BY <2>2, <3>1
      <4>2. m.to # j => applied'[m.to] = applied[m.to]
        BY <4>1
      <4>3. m.to = j => applied'[m.to] <= applied[m.to] \/ applied'[m.to] <= applied[leader]
        BY <4>1
      <4> HIDE DEF m
      <4> QED BY <2>3, <4>1, <4>2, <4>3
    <3>2. CASE job'[u] # job[u]
      BY <3>2
    <3> QED BY <3>1, <3>2
  <2> HIDE DEF m
  <2> QED BY <1>10, <2>1, <2>2, <2>4, <2>5, <2>6
<1>14. NewsInv'
  <2> SUFFICES ASSUME NEW y \in SnapshotRequests, leader # Nil, y.term = term, IsNews(y)'
               PROVE  /\ next[y.to] <= snap'[leader]
                      /\ y \in late' => \A u \in Thread :
                           job'[u].stage # "idle" /\ job'[u].msg.to = y.to =>
                             /\ job'[u].stage = "sent" /\ job'[u].msg.kind = "snapshot"
                             /\ y.index <= job'[u].msg.index
    BY <1>2 DEF NewsInv
  <2>1. IsNews(y)
    BY <1>7
  <2>2. next[y.to] <= snap'[leader]
    BY <1>10, <2>1 DEF NewsInv
  <2>3. ASSUME y \in late', NEW u \in Thread, job'[u].stage # "idle", job'[u].msg.to = y.to
        PROVE  /\ job'[u].stage = "sent" /\ job'[u].msg.kind = "snapshot"
               /\ y.index <= job'[u].msg.index
    <3>1. job[u].stage # "idle" /\ job'[u].msg = job[u].msg
      BY <2>3
    <3>2. /\ job[u].stage = "sent" /\ job[u].msg.kind = "snapshot"
          /\ y.index <= job[u].msg.index
      BY <2>1, <2>3, <3>1 DEF NewsInv
    <3>3. CASE job'[u] = job[u]
      BY <3>2, <3>3
    <3>4. CASE job'[u] # job[u]
      <4>1. y.to = j /\ job[u].msg.index <= snap'[j]
        BY <2>3, <3>1, <3>2, <3>4
      <4>2. y.index > snap'[j]
        BY <4>1 DEF IsNews, NewSnapshot
      <4>3. y.index \in Nat /\ job[u].msg.index \in Nat
        BY <3>1, <3>2, RequestTypes, JobTypes DEF SnapshotRequests
      <4> QED BY <1>5, <3>2, <4>1, <4>2, <4>3
    <3> QED BY <3>3, <3>4
  <2> QED BY <2>2, <2>3
<1>15. OvertakenInv'
  <2> SUFFICES ASSUME NEW y \in SnapshotRequests, NEW a \in Requests,
                      a.kind = "append", a.to = y.to, a.term <= y.term, a.term >= seen'[a.to],
                      NewSnapshot(y)'
               PROVE  a.commit <= y.base
    BY <1>2 DEF OvertakenInv
  <2>1. a.term >= seen[a.to]
    BY <1>4, RequestTypes
  <2> QED BY <1>6, <2>1 DEF OvertakenInv
<1>16. ReadingInv'
  <2> SUFFICES ASSUME NEW i \in Node, reading'[i] # NoRead PROVE ReadingInv!(i)'
    BY DEF ReadingInv
  <2>1. i # j /\ reading'[i] = reading[i] /\ seen'[i] = seen[i]
    <3>1. reading \in [Node -> [key : Key \cup {NoKey}, from : Nat]]
      BY DEF KvTypeOK
    <3> QED BY <1>0, <3>1
  <2>2. applied'[i] = applied[i] /\ reach'[i] = reach[i]
    BY <2>1
  <2>3. ReadingInv!(i)
    BY <2>1 DEF ReadingInv
  <2> QED BY <2>1, <2>2, <2>3
<1> QED BY <1>1, <1>3, <1>8, <1>9, <1>11, <1>12, <1>13, <1>14, <1>15, <1>16

\* A request that its receiver does not refuse is not one to the leader.
LEMMA NotToLeader ==
    ASSUME ReplayInv, NEW m \in Requests, m.term >= seen[m.to]
    PROVE  /\ m.to \in Node /\ m.to # leader /\ m.term \in Nat /\ m.term <= term
           /\ term \in Nat /\ seen[m.to] \in Nat
<1>1. /\ m.to \in Node /\ m.term \in Nat /\ m.term <= term /\ term \in Nat
      /\ seen \in [Node -> Nat]
  BY RequestTypes DEF ReplayInv, RequestsInv, KvTypeOK
<1>2. CASE m.to = leader
  <2>1. leader # Nil /\ seen[leader] = term
    BY <1>1, <1>2 DEF ReplayInv, PositionsInv
  <2>2. m.term = term
    BY <1>1, <1>2, <2>1
  <2> QED BY <1>2, <2>1, <2>2 DEF ReplayInv, RequestsInv
<1> QED BY <1>1, <1>2

\* A committed position that comes with a request is one the leader has applied,
\* or one before all entries of its own.
LEMMA Within ==
    ASSUME ReplayInv, leader # Nil, NEW m \in Requests, m.term >= seen[m.to],
           NEW v \in Nat, v <= commit, m.term = term => v <= applied[leader]
    PROVE  v <= applied[leader] \/ (v < next[m.to] /\ seen[m.to] # term)
<1>1. CASE m.term = term
  BY <1>1
<1>2. CASE m.term # term
  <2>1. /\ m.to \in Node /\ m.term <= term /\ m.term \in Nat /\ term \in Nat /\ seen[m.to] \in Nat
    BY NotToLeader
  <2>2. seen[m.to] # term
    BY <1>2, <2>1
  <2>3. next[m.to] = start
    BY <2>1, <2>2 DEF ReplayInv, NextInv
  <2>4. IF applied[leader] >= start THEN applied[leader] = commit ELSE commit < start
    BY DEF ReplayInv, PositionsInv
  <2>5. start \in Nat /\ commit \in Nat /\ applied[leader] \in Nat
    BY DEF ReplayInv, KvTypeOK
  <2> QED BY <2>2, <2>3, <2>4, <2>5
<1> QED BY <1>1, <1>2

\* A node that hears of a request from a term as new as its own does not serve
\* a read any more.
LEMMA FollowEndsRead ==
    ASSUME ReplayInv, NEW m \in Requests, m.term >= seen[m.to], Follow(m)
    PROVE  reading' = [reading EXCEPT ![m.to] = NoRead]
<1>1. m.to \in Node /\ m.term \in Nat /\ seen[m.to] \in Nat
  BY NotToLeader
<1>2. CASE seen[m.to] < m.term
  BY <1>2 DEF Follow
<1>3. CASE ~(seen[m.to] < m.term)
  <2>1. m.term = seen[m.to]
    BY <1>1, <1>3
  <2>2. reading[m.to] = NoRead
    BY <1>1, <2>1 DEF ReplayInv, ReadingInv
  <2>3. reading' = [reading EXCEPT ![m.to] = reading[m.to]]
    BY <1>3 DEF Follow
  <2> QED BY <2>2, <2>3
<1> QED BY <1>2, <1>3

\* The invariant about the database and the log of one node.
LEMMA NodeFacts ==
    ASSUME ReplayInv, NEW j \in Node
    PROVE  /\ len[j] \in Nat /\ applied[j] \in Nat /\ snap[j] \in Nat /\ reach[j] \in Nat
           /\ db[j] \in [Key -> Nat] /\ Len(log) \in Nat /\ commit \in Nat
           /\ snap[j] <= applied[j] /\ applied[j] <= reach[j] /\ reach[j] <= commit
           /\ Reflects(log, db[j], applied[j], reach[j])
           /\ applied[j] <= len[j] /\ len[j] <= Len(log) /\ commit <= Len(log)
BY DEF ReplayInv, KvTypeOK, DatabasesReflectLog, PositionsInv

\* The types of the variables that the receiver of a request changes.
LEMMA StateTypes ==
    ASSUME ReplayInv
    PROVE  /\ len \in [Node -> Nat] /\ applied \in [Node -> Nat] /\ snap \in [Node -> Nat]
           /\ db \in [Node -> [Key -> Nat]] /\ reach \in [Node -> Nat]
BY DEF ReplayInv, KvTypeOK

\* applyCommittedLogs up to a committed index beyond what the node applied.
LEMMA ApplyToFacts ==
    ASSUME ReplayInv, NEW j \in Node, NEW n \in Nat, applied[j] < n, n <= commit, ApplyTo(j, n)
    PROVE  /\ applied' = [applied EXCEPT ![j] = n]
           /\ applied' \in [Node -> Nat] /\ snap' \in [Node -> Nat]
           /\ db' \in [Node -> [Key -> Nat]] /\ reach' \in [Node -> Nat]
           /\ \A i \in Node \ {j} : /\ applied'[i] = applied[i] /\ snap'[i] = snap[i]
                                    /\ db'[i] = db[i] /\ reach'[i] = reach[i]
           /\ applied'[j] = n /\ snap[j] <= snap'[j] /\ snap'[j] <= n /\ n <= reach'[j]
           /\ reach'[j] <= commit
           /\ Reflects(log, db'[j], n, reach'[j])
<1>1. /\ applied[j] \in Nat /\ snap[j] \in Nat /\ reach[j] \in Nat /\ db[j] \in [Key -> Nat]
      /\ commit \in Nat /\ snap[j] <= applied[j] /\ reach[j] <= commit
      /\ Reflects(log, db[j], applied[j], reach[j])
  BY NodeFacts
<1>2. /\ applied'[j] = n /\ db'[j] = Apply(db[j], log, applied[j], n)
      /\ reach'[j] = Larger(reach[j], n)
      /\ snap'[j] = IF n - snap[j] >= Threshold THEN n ELSE snap[j]
  BY StateTypes DEF ApplyTo
<1>3. Larger(reach[j], n) \in Nat /\ Larger(reach[j], n) >= n /\ Larger(reach[j], n) <= commit
  BY <1>1 DEF Larger
<1>4. Reflects(log, db'[j], n, reach'[j])
  BY <1>1, <1>2, ReflectsApply
<1>5. Apply(db[j], log, applied[j], n) \in [Key -> Nat]
  BY <1>1, ApplyType
<1>6. snap'[j] \in Nat /\ snap[j] <= snap'[j] /\ snap'[j] <= n
  BY <1>1, <1>2
<1>7. /\ applied' \in [Node -> Nat] /\ db' \in [Node -> [Key -> Nat]] /\ reach' \in [Node -> Nat]
  BY <1>2, <1>3, <1>5, StateTypes DEF ApplyTo
<1>8. snap' \in [Node -> Nat]
  BY <1>2, <1>6, StateTypes DEF ApplyTo
<1>9. \A i \in Node \ {j} : /\ applied'[i] = applied[i] /\ snap'[i] = snap[i]
                            /\ db'[i] = db[i] /\ reach'[i] = reach[i]
  BY StateTypes DEF ApplyTo
<1> QED BY <1>2, <1>3, <1>4, <1>6, <1>7, <1>8, <1>9 DEF ApplyTo

\* handleAppendEntries stores the entries and applies.
LEMMA TakeEntriesStep ==
    ASSUME ReplayInv, NEW m \in Requests, m.kind = "append", m.term >= seen[m.to],
           TakeEntries(m)
    PROVE  LET j == m.to IN
           /\ len' \in [Node -> Nat] /\ applied' \in [Node -> Nat] /\ snap' \in [Node -> Nat]
           /\ db' \in [Node -> [Key -> Nat]] /\ reach' \in [Node -> Nat]
           /\ \A i \in Node \ {j} : /\ len'[i] = len[i] /\ applied'[i] = applied[i]
                                    /\ snap'[i] = snap[i] /\ db'[i] = db[i]
                                    /\ reach'[i] = reach[i]
           /\ snap[j] <= snap'[j] /\ snap'[j] <= applied'[j] /\ applied'[j] <= reach'[j]
           /\ reach'[j] <= commit /\ applied'[j] <= len'[j] /\ len'[j] <= Len(log)
           /\ Reflects(log, db'[j], applied'[j], reach'[j])
           /\ applied'[j] <= applied[j] \/ applied'[j] = m.commit
<1> DEFINE j == m.to
<1>1. /\ j \in Node /\ m.last \in Nat /\ m.commit \in Nat
      /\ m.commit <= m.last /\ m.commit <= commit /\ m.last <= Len(log)
  BY RequestTypes DEF ReplayInv, RequestsInv
<1> HIDE DEF j
<1>2. len'[j] = Larger(len[j], m.last) /\ len' \in [Node -> Nat]
      /\ \A i \in Node \ {j} : len'[i] = len[i]
  BY <1>1, StateTypes DEF TakeEntries, Larger, j
<1>3. /\ Larger(len[j], m.last) >= len[j] /\ Larger(len[j], m.last) >= m.last
      /\ Larger(len[j], m.last) <= Len(log)
  BY <1>1, NodeFacts DEF Larger
<1>4. /\ len[j] \in Nat /\ len'[j] \in Nat /\ Len(log) \in Nat /\ applied[j] \in Nat
      /\ applied[j] <= len[j]
  BY <1>1, <1>2, NodeFacts
<1>5. len'[j] <= Len(log)
  BY <1>2, <1>3
<1>6. CASE m.commit > applied[j]
  <2>1. ApplyTo(j, m.commit) /\ applied[j] < m.commit
    BY <1>1, <1>4, <1>6 DEF TakeEntries, j
  <2>2. /\ applied' \in [Node -> Nat] /\ snap' \in [Node -> Nat]
        /\ db' \in [Node -> [Key -> Nat]] /\ reach' \in [Node -> Nat]
        /\ \A i \in Node \ {j} : /\ applied'[i] = applied[i] /\ snap'[i] = snap[i]
                                 /\ db'[i] = db[i] /\ reach'[i] = reach[i]
        /\ applied'[j] = m.commit /\ snap[j] <= snap'[j] /\ snap'[j] <= m.commit
        /\ m.commit <= reach'[j] /\ reach'[j] <= commit
        /\ Reflects(log, db'[j], m.commit, reach'[j])
    BY <1>1, <2>1, ApplyToFacts
  <2>3. m.commit <= len'[j]
    BY <1>1, <1>2, <1>3, <1>4
  <2> QED BY <1>2, <1>5, <2>2, <2>3 DEF j
<1>7. CASE ~(m.commit > applied[j])
  <2>1. UNCHANGED dbVars
    BY <1>7 DEF TakeEntries, j
  <2>2. applied[j] <= len'[j]
    BY <1>2, <1>3, <1>4
  <2>3. applied' = applied /\ snap' = snap /\ db' = db /\ reach' = reach
    BY <2>1 DEF dbVars
  <2>4. /\ applied[j] \in Nat /\ snap[j] \in Nat /\ snap[j] <= applied[j]
        /\ applied[j] <= reach[j] /\ reach[j] <= commit
        /\ Reflects(log, db[j], applied[j], reach[j])
    BY <1>1, NodeFacts
  <2> QED BY <1>2, <1>5, <2>2, <2>3, <2>4, StateTypes DEF j
<1> QED BY <1>6, <1>7

\* handleInstallSnapshot replaces the database.
LEMMA InstallStep ==
    ASSUME ReplayInv, NEW m \in Requests, m.kind = "snapshot", m.term >= seen[m.to],
           NewSnapshot(m), Install(m)
    PROVE  LET j == m.to IN
           /\ len' \in [Node -> Nat] /\ applied' \in [Node -> Nat] /\ snap' \in [Node -> Nat]
           /\ db' \in [Node -> [Key -> Nat]] /\ reach' \in [Node -> Nat]
           /\ \A i \in Node \ {j} : /\ len'[i] = len[i] /\ applied'[i] = applied[i]
                                    /\ snap'[i] = snap[i] /\ db'[i] = db[i]
                                    /\ reach'[i] = reach[i]
           /\ snap[j] <= snap'[j] /\ snap'[j] <= applied'[j] /\ applied'[j] <= reach'[j]
           /\ reach'[j] <= commit /\ applied'[j] <= len'[j] /\ len'[j] <= Len(log)
           /\ Reflects(log, db'[j], applied'[j], reach'[j])
           /\ applied'[j] <= applied[j] \/ applied'[j] = m.index
           /\ snap'[j] = m.index
<1> DEFINE j == m.to
<1>1. /\ j \in Node /\ m.index \in Nat /\ m.base \in Nat /\ m.reach \in Nat
      /\ m.data \in [Key -> Nat]
      /\ m.index <= m.base /\ m.base <= m.reach /\ m.reach <= commit
      /\ Reflects(log, m.data, m.base, m.reach)
  BY RequestTypes DEF ReplayInv, RequestsInv
<1>2. applied[j] <= m.base /\ m.index > snap[j]
  BY DEF ReplayInv, SnapshotsAreNews, IsNews, NewSnapshot, SnapshotRequests
<1> HIDE DEF j
<1>3. /\ len[j] \in Nat /\ applied[j] \in Nat /\ snap[j] \in Nat /\ Len(log) \in Nat
      /\ applied[j] <= len[j] /\ len[j] <= Len(log) /\ commit <= Len(log) /\ commit \in Nat
  BY <1>1, NodeFacts
<1>4. /\ len'[j] = Larger(len[j], m.index) /\ applied'[j] = Larger(applied[j], m.index)
      /\ snap'[j] = m.index /\ db'[j] = m.data /\ reach'[j] = m.reach
  BY <1>1, StateTypes DEF Install, Load, j
<1>5. /\ Larger(applied[j], m.index) \in Nat
      /\ Larger(applied[j], m.index) <= m.base /\ m.index <= Larger(applied[j], m.index)
      /\ Larger(applied[j], m.index) <= applied[j] \/ Larger(applied[j], m.index) = m.index
      /\ Larger(applied[j], m.index) <= Larger(len[j], m.index)
      /\ Larger(len[j], m.index) <= Len(log) /\ Larger(len[j], m.index) \in Nat
  BY <1>1, <1>2, <1>3 DEF Larger
<1>6. Reflects(log, m.data, Larger(applied[j], m.index), m.reach)
  BY <1>1, <1>5, ReflectsBack
<1>7. /\ len' \in [Node -> Nat] /\ applied' \in [Node -> Nat] /\ snap' \in [Node -> Nat]
      /\ db' \in [Node -> [Key -> Nat]] /\ reach' \in [Node -> Nat]
  BY <1>1, <1>5, StateTypes DEF Install, Load, j
<1>8. \A i \in Node \ {j} : /\ len'[i] = len[i] /\ applied'[i] = applied[i]
                            /\ snap'[i] = snap[i] /\ db'[i] = db[i] /\ reach'[i] = reach[i]
  BY StateTypes DEF Install, j
<1>9. Larger(applied[j], m.index) <= m.reach /\ snap[j] <= m.index
  BY <1>1, <1>2, <1>3, <1>5
<1> QED BY <1>1, <1>4, <1>5, <1>6, <1>7, <1>8, <1>9 DEF j

\* The whole handler of a request that is not from an older term, for a caller
\* that waits and for one that gave up.
LEMMA AcceptStep ==
    ASSUME ReplayInv, NEW m \in Requests, m.term >= seen[m.to], Accept(m),
           Requests' \subseteq Requests, late' \subseteq late,
           job' \in [Thread -> [stage : {"idle", "sent", "answered"}, ok : BOOLEAN,
                                msg : Appends \cup Snapshots \cup {NoCall}]],
           \A u \in Thread :
               \/ job'[u] = job[u]
               \/ /\ job[u].stage = "sent" /\ job'[u].stage = "answered"
                  /\ job[u].msg = m /\ job'[u].msg = m /\ m.term = term
                  /\ job'[u].ok = Success(m)
    PROVE  ReplayInv'
<1> DEFINE j == m.to
           x == m.term
<1>1. /\ j \in Node /\ j # leader /\ x \in Nat /\ x <= term /\ seen[j] <= x /\ seen[j] \in Nat
  BY NotToLeader
<1>2. /\ seen' = [seen EXCEPT ![j] = x]
      /\ reading' = [reading EXCEPT ![j] = NoRead]
      /\ UNCHANGED <<log, term, leader, start, commit, next, match, answer>>
  BY FollowEndsRead DEF Accept, Follow
<1>3. /\ m.kind \in {"append", "snapshot"}
      /\ m.kind = "append" => m.commit \in Nat /\ m.prev \in Nat
      /\ m.kind = "snapshot" => m.index \in Nat /\ m.base \in Nat
  BY RequestTypes DEF ReplayInv
<1>4. \A y \in SnapshotRequests :
        y.to = j /\ y.term >= x /\ y.index > snap[j] =>
          /\ applied[j] <= y.base /\ y.index <= y.base
          /\ m.kind = "append" => m.commit <= y.base
          /\ y.index \in Nat /\ y.base \in Nat
  <2> SUFFICES ASSUME NEW y \in SnapshotRequests, y.to = j, y.term >= x, y.index > snap[j]
               PROVE  /\ applied[j] <= y.base /\ y.index <= y.base
                      /\ m.kind = "append" => m.commit <= y.base
                      /\ y.index \in Nat /\ y.base \in Nat
    OBVIOUS
  <2>1. y \in Requests /\ y.kind = "snapshot" /\ y.term \in Nat /\ y.index \in Nat /\ y.base \in Nat
    BY RequestTypes DEF SnapshotRequests, ReplayInv
  <2>2. y.term >= seen[j]
    BY <1>1, <2>1
  <2>3. NewSnapshot(y) /\ IsNews(y)
    BY <2>2 DEF NewSnapshot, IsNews
  <2>4. applied[j] <= y.base
    BY <2>3 DEF ReplayInv, SnapshotsAreNews
  <2>5. y.index <= y.base
    BY <2>1 DEF ReplayInv, RequestsInv
  <2>6. m.kind = "append" => m.commit <= y.base
    BY <2>3, <1>1, <2>1 DEF ReplayInv, OvertakenInv
  <2> QED BY <2>1, <2>4, <2>5, <2>6
<1>5. \A i \in Node : /\ applied[i] \in Nat /\ snap[i] \in Nat /\ len[i] \in Nat /\ Len(log) \in Nat
                      /\ snap[i] <= applied[i] /\ applied[i] <= len[i]
  BY NodeFacts
<1> HIDE DEF j, x
<1>6. CASE m.kind = "append" /\ ~Ignored(m) /\ Success(m) /\ TakeEntries(m)
  <2>1. /\ len' \in [Node -> Nat] /\ applied' \in [Node -> Nat] /\ snap' \in [Node -> Nat]
        /\ db' \in [Node -> [Key -> Nat]] /\ reach' \in [Node -> Nat]
        /\ \A i \in Node \ {j} : /\ len'[i] = len[i] /\ applied'[i] = applied[i]
                                 /\ snap'[i] = snap[i] /\ db'[i] = db[i] /\ reach'[i] = reach[i]
        /\ snap[j] <= snap'[j] /\ snap'[j] <= applied'[j] /\ applied'[j] <= reach'[j]
        /\ reach'[j] <= commit /\ applied'[j] <= len'[j] /\ len'[j] <= Len(log)
        /\ Reflects(log, db'[j], applied'[j], reach'[j])
        /\ applied'[j] <= applied[j] \/ applied'[j] = m.commit
    BY <1>6, TakeEntriesStep DEF j
  <2>2. /\ m.commit \in Nat /\ m.commit <= commit
        /\ leader # Nil /\ m.term = term => m.commit <= applied[leader]
    BY <1>3, <1>6 DEF ReplayInv, RequestsInv
  <2>3. leader # Nil => m.commit <= applied[leader] \/ (m.commit < next[j] /\ seen[j] # term)
    BY <2>2, Within DEF j
  <2>4. \/ applied'[j] <= applied[j]
        \/ leader # Nil => \/ applied'[j] <= applied[leader]
                           \/ applied'[j] < next[j] /\ seen[j] # term
    BY <2>1, <2>3
  <2>5. \A y \in SnapshotRequests :
          y.to = j /\ y.term >= x /\ y.index > snap'[j] => applied'[j] <= y.base
    <3> SUFFICES ASSUME NEW y \in SnapshotRequests, y.to = j, y.term >= x, y.index > snap'[j]
                 PROVE  applied'[j] <= y.base
      OBVIOUS
    <3>1. snap[j] \in Nat /\ snap'[j] \in Nat /\ applied[j] \in Nat /\ applied'[j] \in Nat
      BY <1>1, <1>5, <2>1
    <3>2. y.index \in Nat
      BY RequestTypes DEF SnapshotRequests, ReplayInv
    <3>3. y.index > snap[j]
      BY <2>1, <3>1, <3>2
    <3> QED BY <1>4, <1>6, <2>1, <3>1, <3>3
  <2>6. \A u \in Thread :
          \/ job'[u] = job[u]
          \/ job'[u].stage = "idle"
          \/ /\ job[u].stage = "sent" /\ job'[u].stage = "answered"
             /\ job'[u].msg = job[u].msg /\ job[u].msg.to = j /\ x = term
             /\ job[u].msg.kind = "snapshot" => job[u].msg.index <= snap'[j]
             /\ ~job'[u].ok => /\ job[u].msg.kind = "append"
                               /\ applied'[j] < job[u].msg.prev
    BY <1>6 DEF j, x
  <2> QED BY <1>1, <1>2, <2>1, <2>4, <2>5, <2>6, ReceiverStep
<1>7. CASE m.kind = "snapshot" /\ NewSnapshot(m) /\ Install(m)
  <2>1. /\ len' \in [Node -> Nat] /\ applied' \in [Node -> Nat] /\ snap' \in [Node -> Nat]
        /\ db' \in [Node -> [Key -> Nat]] /\ reach' \in [Node -> Nat]
        /\ \A i \in Node \ {j} : /\ len'[i] = len[i] /\ applied'[i] = applied[i]
                                 /\ snap'[i] = snap[i] /\ db'[i] = db[i] /\ reach'[i] = reach[i]
        /\ snap[j] <= snap'[j] /\ snap'[j] <= applied'[j] /\ applied'[j] <= reach'[j]
        /\ reach'[j] <= commit /\ applied'[j] <= len'[j] /\ len'[j] <= Len(log)
        /\ Reflects(log, db'[j], applied'[j], reach'[j])
        /\ applied'[j] <= applied[j] \/ applied'[j] = m.index
        /\ snap'[j] = m.index
    BY <1>7, InstallStep DEF j
  <2>2. /\ m.index \in Nat /\ m.index <= commit
        /\ leader # Nil /\ m.term = term => m.index <= applied[leader]
    <3>1. /\ m.index \in Nat /\ m.base \in Nat /\ m.reach \in Nat
          /\ m.index <= m.base /\ m.base <= m.reach /\ m.reach <= commit
          /\ leader # Nil /\ m.term = term => m.base <= applied[leader]
      BY <1>7, RequestTypes DEF ReplayInv, RequestsInv
    <3>2. commit \in Nat /\ (leader # Nil => applied[leader] \in Nat)
      BY DEF ReplayInv, KvTypeOK
    <3> QED BY <3>1, <3>2
  <2>3. leader # Nil => m.index <= applied[leader] \/ (m.index < next[j] /\ seen[j] # term)
    BY <2>2, Within DEF j
  <2>4. \/ applied'[j] <= applied[j]
        \/ leader # Nil => \/ applied'[j] <= applied[leader]
                           \/ applied'[j] < next[j] /\ seen[j] # term
    BY <2>1, <2>3
  <2>5. \A y \in SnapshotRequests :
          y.to = j /\ y.term >= x /\ y.index > snap'[j] => applied'[j] <= y.base
    <3> SUFFICES ASSUME NEW y \in SnapshotRequests, y.to = j, y.term >= x, y.index > snap'[j]
                 PROVE  applied'[j] <= y.base
      OBVIOUS
    <3>1. snap[j] \in Nat /\ snap'[j] \in Nat /\ applied[j] \in Nat /\ applied'[j] \in Nat
      BY <1>1, <1>5, <2>1
    <3>2. y.index \in Nat
      BY RequestTypes DEF SnapshotRequests, ReplayInv
    <3>3. y.index > snap[j]
      BY <2>1, <3>1, <3>2
    <3>4. applied[j] <= y.base /\ y.index <= y.base /\ y.base \in Nat
      BY <1>4, <3>3
    <3> QED BY <2>1, <2>2, <3>1, <3>2, <3>4
  <2>6. \A u \in Thread :
          \/ job'[u] = job[u]
          \/ job'[u].stage = "idle"
          \/ /\ job[u].stage = "sent" /\ job'[u].stage = "answered"
             /\ job'[u].msg = job[u].msg /\ job[u].msg.to = j /\ x = term
             /\ job[u].msg.kind = "snapshot" => job[u].msg.index <= snap'[j]
             /\ ~job'[u].ok => /\ job[u].msg.kind = "append"
                               /\ applied'[j] < job[u].msg.prev
    BY <1>7, <2>1, <2>2 DEF j, x, Success
  <2> QED BY <1>1, <1>2, <2>1, <2>4, <2>5, <2>6, ReceiverStep
<1>8. CASE /\ IF m.kind = "append" THEN Ignored(m) \/ ~Success(m) ELSE ~NewSnapshot(m)
           /\ UNCHANGED <<len, dbVars>>
  <2>1. /\ len' = len /\ applied' = applied /\ snap' = snap /\ db' = db /\ reach' = reach
    BY <1>8 DEF dbVars
  <2>2. /\ len' \in [Node -> Nat] /\ applied' \in [Node -> Nat] /\ snap' \in [Node -> Nat]
        /\ db' \in [Node -> [Key -> Nat]] /\ reach' \in [Node -> Nat]
    BY <2>1, StateTypes
  <2>3. /\ snap[j] <= snap'[j] /\ snap'[j] <= applied'[j] /\ applied'[j] <= reach'[j]
        /\ reach'[j] <= commit /\ applied'[j] <= len'[j] /\ len'[j] <= Len(log)
        /\ Reflects(log, db'[j], applied'[j], reach'[j])
        /\ applied'[j] <= applied[j]
    BY <1>1, <2>1, NodeFacts
  <2>4. \A y \in SnapshotRequests :
          y.to = j /\ y.term >= x /\ y.index > snap'[j] => applied'[j] <= y.base
    BY <1>4, <2>1
  <2>5. m.kind = "snapshot" => m.index <= snap'[j] /\ Success(m)
    BY <1>1, <1>3, <1>5, <1>8, <2>1 DEF NewSnapshot, Success, j
  <2>6. m.kind = "append" /\ ~Success(m) => applied'[j] < m.prev
    BY <1>1, <1>3, <1>5, <2>1 DEF Success, j
  <2>7. \A u \in Thread :
          \/ job'[u] = job[u]
          \/ job'[u].stage = "idle"
          \/ /\ job[u].stage = "sent" /\ job'[u].stage = "answered"
             /\ job'[u].msg = job[u].msg /\ job[u].msg.to = j /\ x = term
             /\ job[u].msg.kind = "snapshot" => job[u].msg.index <= snap'[j]
             /\ ~job'[u].ok => /\ job[u].msg.kind = "append"
                               /\ applied'[j] < job[u].msg.prev
    BY <1>3, <2>5, <2>6 DEF j, x
  <2> QED BY <1>1, <1>2, <2>1, <2>2, <2>3, <2>4, <2>7, ReceiverStep
<1> QED BY <1>6, <1>7, <1>8 DEF Accept

\* A request whose caller waits is handled ...
LEMMA HandleStep ==
    ASSUME OneThread, ReplayInv, NEW t \in Thread, Handle(t)
    PROVE  ReplayInv'
<1>1. job[t].stage = "sent" /\ job[t].msg \in Requests
  BY DEF Handle, Requests
<1>2. job[t].msg.term = term /\ job[t].msg.to \in Node
  BY <1>1, JobTypes DEF ReplayInv, JobInv
<1>3. seen[job[t].msg.to] <= term /\ seen[job[t].msg.to] \in Nat /\ term \in Nat
  BY <1>2 DEF ReplayInv, PositionsInv, KvTypeOK
<1>4. job[t].msg.term >= seen[job[t].msg.to]
  BY <1>2, <1>3
<1>5. job' = [job EXCEPT ![t].stage = "answered", ![t].ok = Success(job[t].msg)] /\ late' = late
  BY DEF Handle
<1>6. Requests' \subseteq Requests
  BY <1>5 DEF Requests, OneThread, ReplayInv, KvTypeOK
<1>7. /\ job'[t].stage = "answered" /\ job'[t].msg = job[t].msg
      /\ job'[t].ok = Success(job[t].msg) /\ \A u \in Thread : u = t
  BY <1>5 DEF OneThread, ReplayInv, KvTypeOK
<1>8. Success(job[t].msg) \in BOOLEAN
  BY DEF Success, Ignored
<1>9. job' \in [Thread -> [stage : {"idle", "sent", "answered"}, ok : BOOLEAN,
                           msg : Appends \cup Snapshots \cup {NoCall}]]
  <2>1. job \in [Thread -> [stage : {"idle", "sent", "answered"}, ok : BOOLEAN,
                            msg : Appends \cup Snapshots \cup {NoCall}]]
    BY DEF ReplayInv, KvTypeOK
  <2> QED BY <1>5, <1>8, <2>1
<1>10. \A u \in Thread :
         \/ job'[u] = job[u]
         \/ /\ job[u].stage = "sent" /\ job'[u].stage = "answered"
            /\ job[u].msg = job[t].msg /\ job'[u].msg = job[t].msg /\ job[t].msg.term = term
            /\ job'[u].ok = Success(job[t].msg)
  BY <1>1, <1>2, <1>7
<1> QED BY <1>1, <1>4, <1>5, <1>6, <1>9, <1>10, AcceptStep DEF Handle

\* ... or one whose caller gave up.
LEMMA HandleLateStep ==
    ASSUME ReplayInv, NEW m \in late, HandleLate(m)
    PROVE  ReplayInv'
<1>1. m \in Requests /\ Requests' \subseteq Requests /\ late' \subseteq late /\ job' = job
  BY DEF HandleLate, Requests
<1>2. job' \in [Thread -> [stage : {"idle", "sent", "answered"}, ok : BOOLEAN,
                           msg : Appends \cup Snapshots \cup {NoCall}]]
  BY <1>1 DEF ReplayInv, KvTypeOK
<1>3. Accept(m) /\ m.term >= seen[m.to]
  BY DEF HandleLate
<1> QED BY <1>1, <1>2, <1>3, AcceptStep

-----------------------------------------------------------------------------
(*****************************************************************************)
(* Crashes.                                                                  *)
(*****************************************************************************)

\* A node that restarts has lost what it applied since its last compaction or
\* snapshot; its database is ahead of that.
LEMMA DieStep ==
    ASSUME ReplayInv, NEW j \in Node, applied' = [applied EXCEPT ![j] = snap[j]],
           db' = db, reach' = reach
    PROVE  /\ \A i \in Node : applied'[i] \in Nat /\ applied'[i] <= applied[i]
           /\ snap[j] <= applied'[j] /\ applied'[j] <= reach[j]
           /\ Reflects(log, db[j], applied'[j], reach[j])
           /\ applied'[j] <= len[j]
<1>1. /\ snap[j] \in Nat /\ applied[j] \in Nat /\ reach[j] \in Nat /\ len[j] \in Nat
      /\ snap[j] <= applied[j] /\ applied[j] <= reach[j] /\ applied[j] <= len[j]
      /\ Reflects(log, db[j], applied[j], reach[j])
  BY NodeFacts
<1>2. applied'[j] = snap[j] /\ \A i \in Node \ {j} : applied'[i] = applied[i]
  BY StateTypes
<1>3. \A i \in Node : applied[i] \in Nat
  BY StateTypes
<1>4. Reflects(log, db[j], snap[j], reach[j])
  BY <1>1, ReflectsBack
<1> QED BY <1>1, <1>2, <1>3, <1>4

\* Node j dies and restarts; if it is the leader, its threads are gone.
LEMMA CrashStep ==
    ASSUME OneThread, ReplayInv, NEW j \in Node, Crash(j)
    PROVE  ReplayInv'
<1>1. /\ applied' = [applied EXCEPT ![j] = snap[j]]
      /\ reading' = [reading EXCEPT ![j] = NoRead]
      /\ UNCHANGED <<log, len, term, start, commit, next, match, snap, answer, seen, db, reach>>
  BY DEF Crash, Die
<1>2. /\ \A i \in Node : applied'[i] \in Nat /\ applied'[i] <= applied[i]
      /\ snap[j] <= applied'[j] /\ applied'[j] <= reach[j]
      /\ Reflects(log, db[j], applied'[j], reach[j])
      /\ applied'[j] <= len[j]
  BY <1>1, DieStep
<1>3. applied' \in [Node -> Nat] /\ \A i \in Node \ {j} : applied'[i] = applied[i]
  BY <1>1, StateTypes
<1>4. /\ seen[j] \in Nat /\ term \in Nat /\ seen[j] <= term
      /\ seen \in [Node -> Nat]
      /\ job \in [Thread -> [stage : {"idle", "sent", "answered"}, ok : BOOLEAN,
                             msg : Appends \cup Snapshots \cup {NoCall}]]
  BY DEF ReplayInv, KvTypeOK, PositionsInv
<1>5. CASE j # leader
  <2>1. leader' = leader /\ job' = job /\ late' = late /\ Requests' = Requests
    BY <1>5 DEF Crash, Requests
  <2>2. seen' = [seen EXCEPT ![j] = seen[j]]
    BY <1>1, <1>4
  <2>3. \A y \in SnapshotRequests :
          y.to = j /\ y.term >= seen[j] /\ y.index > snap'[j] => applied'[j] <= y.base
    <3> SUFFICES ASSUME NEW y \in SnapshotRequests, y.to = j, y.term >= seen[j], y.index > snap[j]
                 PROVE  applied'[j] <= y.base
      BY <1>1
    <3>1. applied[j] <= y.base
      BY DEF ReplayInv, SnapshotsAreNews, IsNews, NewSnapshot
    <3>2. y.base \in Nat /\ applied[j] \in Nat
      BY RequestTypes, StateTypes DEF ReplayInv, SnapshotRequests
    <3> QED BY <1>2, <3>1, <3>2
  <2>4. /\ snap[j] <= snap'[j] /\ snap'[j] <= applied'[j] /\ applied'[j] <= reach'[j]
        /\ reach'[j] <= commit /\ applied'[j] <= len'[j] /\ len'[j] <= Len(log)
        /\ Reflects(log, db'[j], applied'[j], reach'[j])
        /\ applied'[j] <= applied[j]
    <3>1. snap[j] \in Nat /\ reach[j] <= commit /\ len[j] <= Len(log)
      BY NodeFacts
    <3> QED BY <1>1, <1>2, <3>1
  <2>5. /\ len' \in [Node -> Nat] /\ applied' \in [Node -> Nat] /\ snap' \in [Node -> Nat]
        /\ db' \in [Node -> [Key -> Nat]] /\ reach' \in [Node -> Nat]
    BY <1>1, <1>3, StateTypes
  <2>6. \A i \in Node \ {j} : /\ len'[i] = len[i] /\ applied'[i] = applied[i]
                              /\ snap'[i] = snap[i] /\ db'[i] = db[i] /\ reach'[i] = reach[i]
    BY <1>1, <1>3
  <2>7. seen[j] <= seen[j]
    BY <1>4
  <2> QED BY <1>1, <1>4, <1>5, <2>1, <2>2, <2>3, <2>4, <2>5, <2>6, <2>7, ReceiverStep
<1>6. CASE j = leader
  <2> USE DEF ReplayInv
  <2>1. /\ leader' = Nil /\ job' = [t \in Thread |-> Idle]
        /\ CallersGone([m \in late \cup {job[t].msg : t \in Thread} |-> m])
    BY <1>6 DEF Crash, CallersGone
  <2>2. late' \subseteq Requests
    <3> SUFFICES ASSUME NEW m \in late' PROVE m \in Requests
      OBVIOUS
    <3>1. PICK S \in SUBSET {job[t].msg : t \in {u \in Thread : job[u].stage = "sent"}} :
             late' = {[m1 \in late \cup {job[t].msg : t \in Thread} |-> m1][m2] : m2 \in late \cup S}
      BY <2>1 DEF CallersGone
    <3>2. late \cup S \subseteq Requests
      BY DEF Requests
    <3>3. late \cup S \subseteq late \cup {job[t].msg : t \in Thread}
      OBVIOUS
    <3> QED BY <3>1, <3>2, <3>3
  <2>3. Requests' = late'
    BY <2>1 DEF Requests, Idle
  <2>4. SnapshotRequests' \subseteq SnapshotRequests
    BY <2>2, <2>3 DEF SnapshotRequests
  <2>5. KvTypeOK'
    <3>1. late' \subseteq Appends \cup Snapshots
      BY <2>2, RequestTypes
    <3>2. job' \in [Thread -> [stage : {"idle", "sent", "answered"}, ok : BOOLEAN,
                               msg : Appends \cup Snapshots \cup {NoCall}]]
      BY <2>1 DEF Idle
    <3>3. reading' \in [Node -> [key : Key \cup {NoKey}, from : Nat]]
      BY <1>1 DEF KvTypeOK, NoRead
    <3> QED BY <1>1, <1>3, <2>1, <3>1, <3>2, <3>3 DEF KvTypeOK
  <2>6. DatabasesReflectLog'
    BY <1>1, <1>2, <1>3 DEF DatabasesReflectLog
  <2>7. SnapshotsAreNews'
    <3> SUFFICES ASSUME NEW y \in SnapshotRequests, IsNews(y)' PROVE applied'[y.to] <= y.base
      BY <2>4 DEF SnapshotsAreNews
    <3>1. applied[y.to] <= y.base
      BY <1>1 DEF SnapshotsAreNews, IsNews, NewSnapshot
    <3>2. y.to \in Node /\ y.base \in Nat /\ applied[y.to] \in Nat
      BY RequestTypes, StateTypes DEF SnapshotRequests
    <3> QED BY <1>2, <3>1, <3>2
  <2>8. PositionsInv'
    <3> SUFFICES ASSUME NEW i \in Node
                 PROVE  applied'[i] <= len[i] /\ len[i] <= Len(log) /\ seen[i] <= term
      BY <1>1, <2>1 DEF PositionsInv
    <3>1. applied[i] <= len[i] /\ len[i] <= Len(log) /\ seen[i] <= term
      BY DEF PositionsInv
    <3>2. applied[i] \in Nat /\ len[i] \in Nat
      BY StateTypes
    <3> QED BY <1>2, <3>1, <3>2
  <2>9. NextInv' /\ JobInv' /\ NewsInv'
    BY <2>1 DEF NextInv, JobInv, NewsInv, Idle
  <2>10. RequestsInv'
    BY <1>1, <2>1, <2>2, <2>3 DEF RequestsInv
  <2>11. OvertakenInv'
    BY <1>1, <2>2, <2>3, <2>4 DEF OvertakenInv, NewSnapshot
  <2>12. ReadingInv'
    <3> SUFFICES ASSUME NEW i \in Node, reading'[i] # NoRead PROVE ReadingInv!(i)'
      BY DEF ReadingInv
    <3>1. i # j /\ reading'[i] = reading[i] /\ applied'[i] = applied[i]
      BY <1>1, <1>3 DEF KvTypeOK
    <3>2. seen[i] # term
      BY <1>6, <3>1 DEF ReadingInv
    <3> QED BY <1>1, <2>2, <2>3, <3>1, <3>2 DEF ReadingInv
  <2> QED BY <2>5, <2>6, <2>7, <2>8, <2>9, <2>10, <2>11, <2>12
<1> QED BY <1>5, <1>6

\* A crash between the write of the batch and the save of the state file.
LEMMA CrashInInstallStep ==
    ASSUME ReplayInv, NEW m \in Requests, CrashInInstall(m),
           Requests' \subseteq Requests, late' \subseteq late,
           job' \in [Thread -> [stage : {"idle", "sent", "answered"}, ok : BOOLEAN,
                                msg : Appends \cup Snapshots \cup {NoCall}]],
           \A u \in Thread : job'[u] = job[u] \/ job'[u].stage = "idle"
    PROVE  ReplayInv'
<1> DEFINE j == m.to
           x == m.term
<1>1. /\ j \in Node /\ j # leader /\ x \in Nat /\ x <= term /\ seen[j] <= x
  BY NotToLeader DEF CrashInInstall
<1>2. /\ m.index \in Nat /\ m.base \in Nat /\ m.reach \in Nat
      /\ m.data \in [Key -> Nat] /\ m.index > snap[j]
      /\ m.index <= m.base /\ m.base <= m.reach /\ m.reach <= commit
      /\ Reflects(log, m.data, m.base, m.reach)
  BY RequestTypes DEF ReplayInv, RequestsInv, CrashInInstall, NewSnapshot
<1>3. /\ seen' = [seen EXCEPT ![j] = x]
      /\ reading' = [reading EXCEPT ![j] = NoRead]
      /\ applied' = [applied EXCEPT ![j] = snap[j]]
      /\ db' = [db EXCEPT ![j] = m.data]
      /\ reach' = [reach EXCEPT ![j] = m.reach]
      /\ UNCHANGED <<log, len, term, leader, start, commit, next, match, snap, answer>>
  BY DEF CrashInInstall, Die, Load
<1>4. \A y \in SnapshotRequests :
        y.to = j /\ y.term >= x /\ y.index > snap'[j] => applied'[j] <= y.base
  <2> SUFFICES ASSUME NEW y \in SnapshotRequests, y.to = j, y.term >= x, y.index > snap[j]
               PROVE  applied'[j] <= y.base
    BY <1>3
  <2>1. y \in Requests /\ y.kind = "snapshot" /\ y.index \in Nat /\ y.base \in Nat
    BY RequestTypes DEF ReplayInv, SnapshotRequests
  <2>2. y.index <= y.base
    BY <2>1 DEF ReplayInv, RequestsInv
  <2>3. applied'[j] = snap[j] /\ snap[j] \in Nat
    BY <1>1, <1>3, StateTypes
  <2> HIDE DEF j
  <2> QED BY <2>1, <2>2, <2>3
<1> HIDE DEF j, x
<1>5. /\ snap[j] \in Nat /\ applied[j] \in Nat /\ len[j] \in Nat
      /\ snap[j] <= applied[j] /\ applied[j] <= len[j] /\ len[j] <= Len(log)
  BY <1>1, NodeFacts
<1>6. snap[j] <= m.reach /\ Reflects(log, m.data, snap[j], m.reach)
  <2>1. snap[j] <= m.base
    BY <1>2, <1>5
  <2> QED BY <1>2, <1>5, <2>1, ReflectsBack
<1>7. /\ len' \in [Node -> Nat] /\ applied' \in [Node -> Nat] /\ snap' \in [Node -> Nat]
      /\ db' \in [Node -> [Key -> Nat]] /\ reach' \in [Node -> Nat]
  BY <1>1, <1>2, <1>3, <1>5, StateTypes
<1>8. \A i \in Node \ {j} : /\ len'[i] = len[i] /\ applied'[i] = applied[i]
                            /\ snap'[i] = snap[i] /\ db'[i] = db[i] /\ reach'[i] = reach[i]
  BY <1>3, StateTypes
<1>9. /\ applied'[j] = snap[j] /\ snap'[j] = snap[j] /\ len'[j] = len[j]
      /\ db'[j] = m.data /\ reach'[j] = m.reach
  BY <1>1, <1>3, StateTypes
<1>10. /\ snap[j] <= snap'[j] /\ snap'[j] <= applied'[j] /\ applied'[j] <= reach'[j]
       /\ reach'[j] <= commit /\ applied'[j] <= len'[j] /\ len'[j] <= Len(log)
       /\ Reflects(log, db'[j], applied'[j], reach'[j])
       /\ applied'[j] <= applied[j]
  <2>1. snap[j] <= snap[j] /\ snap[j] <= len[j]
    BY <1>5
  <2> QED BY <1>2, <1>5, <1>6, <1>9, <2>1
<1>11. UNCHANGED <<log, term, leader, start, commit, next, match, answer>>
  BY <1>3
<1>12. \A u \in Thread :
         \/ job'[u] = job[u]
         \/ job'[u].stage = "idle"
         \/ /\ job[u].stage = "sent" /\ job'[u].stage = "answered"
            /\ job'[u].msg = job[u].msg /\ job[u].msg.to = j /\ x = term
            /\ job[u].msg.kind = "snapshot" => job[u].msg.index <= snap'[j]
            /\ ~job'[u].ok => /\ job[u].msg.kind = "append"
                              /\ applied'[j] < job[u].msg.prev
  OBVIOUS
<1>13. seen' = [seen EXCEPT ![j] = x] /\ reading' = [reading EXCEPT ![j] = NoRead]
  BY <1>3
<1> QED BY <1>1, <1>4, <1>7, <1>8, <1>10, <1>11, <1>12, <1>13, ReceiverStep

\* The receiver crashes while the leader waits for it ...
LEMMA CrashInCallStep ==
    ASSUME OneThread, ReplayInv, NEW t \in Thread, CrashInCall(t)
    PROVE  ReplayInv'
<1>1. job[t].msg \in Requests /\ late' = late /\ job' = [job EXCEPT ![t] = Idle]
  BY DEF CrashInCall, Requests
<1>2. Requests' \subseteq Requests
  BY <1>1 DEF Requests, OneThread, Idle, ReplayInv, KvTypeOK
<1>3. job' \in [Thread -> [stage : {"idle", "sent", "answered"}, ok : BOOLEAN,
                           msg : Appends \cup Snapshots \cup {NoCall}]]
  BY <1>1 DEF ReplayInv, KvTypeOK, Idle
<1>4. \A u \in Thread : job'[u] = job[u] \/ job'[u].stage = "idle"
  BY <1>1 DEF ReplayInv, KvTypeOK, Idle
<1> QED BY <1>1, <1>2, <1>3, <1>4, CrashInInstallStep DEF CrashInCall

\* ... or handling a request whose caller gave up.
LEMMA CrashInLateStep ==
    ASSUME ReplayInv, NEW m \in late, CrashInLate(m)
    PROVE  ReplayInv'
<1>1. m \in Requests /\ Requests' \subseteq Requests /\ late' \subseteq late /\ job' = job
  BY DEF CrashInLate, Requests
<1>2. job' \in [Thread -> [stage : {"idle", "sent", "answered"}, ok : BOOLEAN,
                           msg : Appends \cup Snapshots \cup {NoCall}]]
  BY <1>1 DEF ReplayInv, KvTypeOK
<1>3. CrashInInstall(m)
  BY DEF CrashInLate
<1> QED BY <1>1, <1>2, <1>3, CrashInInstallStep

-----------------------------------------------------------------------------
(*****************************************************************************)
(* The leader.                                                               *)
(*****************************************************************************)

\* The invariant about the newest leader.
LEMMA LeaderFacts ==
    ASSUME ReplayInv, leader # Nil
    PROVE  /\ leader \in Node /\ seen[leader] = term /\ len[leader] = Len(log)
           /\ start <= Len(log) + 1 /\ start \in Nat /\ term \in Nat
           /\ IF applied[leader] >= start THEN applied[leader] = commit ELSE commit < start
BY DEF ReplayInv, PositionsInv, KvTypeOK

\* The ranges of nextIndex_ and matchIndex_.
LEMMA NextFacts ==
    ASSUME ReplayInv, NEW j \in Node
    PROVE  /\ next[j] \in 0 .. Len(log) + 1 /\ next[j] \in Int
           /\ match[j] \in 0 .. Len(log) /\ match[j] \in Int
           /\ seen[j] \in Nat /\ Len(log) \in Nat
           /\ next \in [Node -> 0 .. Len(log) + 1] /\ match \in [Node -> 0 .. Len(log)]
<1>1. next \in [Node -> 0 .. Len(log) + 1] /\ match \in [Node -> 0 .. Len(log)]
  BY DEF ReplayInv, KvTypeOK
<1>2. seen \in [Node -> Nat] /\ Len(log) \in Nat
  <2>1. seen \in [Node -> Nat]
    BY DEF ReplayInv, KvTypeOK
  <2>2. log \in Seq(Command)
    BY DEF ReplayInv, KvTypeOK
  <2> QED BY <2>1, <2>2
<1>3. 0 .. Len(log) + 1 \subseteq Int /\ 0 .. Len(log) \subseteq Int
  BY <1>2
<1>4. next[j] \in 0 .. Len(log) + 1 /\ match[j] \in 0 .. Len(log)
  BY <1>1
<1> QED BY <1>1, <1>2, <1>3, <1>4

\* The leader commits and applies.
LEMMA CommitStep ==
    ASSUME ReplayInv, NEW n \in 1 .. Len(log), Commit(n)
    PROVE  ReplayInv'
<1> USE DEF ReplayInv
<1>1. /\ leader # Nil /\ n \in Larger(start, applied[leader] + 1) .. Len(log)
      /\ commit' = n /\ ApplyTo(leader, n)
      /\ UNCHANGED <<log, len, term, leader, start, seen, peerVars, readVars>>
  BY DEF Commit
<1>2. /\ leader \in Node /\ seen[leader] = term /\ len[leader] = Len(log)
      /\ start <= Len(log) + 1 /\ start \in Nat /\ term \in Nat
      /\ IF applied[leader] >= start THEN applied[leader] = commit ELSE commit < start
  BY <1>1, LeaderFacts
<1>3. /\ applied[leader] \in Nat /\ snap[leader] \in Nat /\ reach[leader] \in Nat
      /\ db[leader] \in [Key -> Nat] /\ commit \in Nat /\ Len(log) \in Nat
      /\ snap[leader] <= applied[leader] /\ reach[leader] <= commit
      /\ Reflects(log, db[leader], applied[leader], reach[leader])
  BY <1>2, NodeFacts
<1>4. n \in Nat /\ start <= n /\ applied[leader] < n /\ n <= Len(log) /\ commit < n
  BY <1>1, <1>2, <1>3 DEF Larger
<1>5. /\ applied'[leader] = n /\ db'[leader] = Apply(db[leader], log, applied[leader], n)
      /\ reach'[leader] = Larger(reach[leader], n)
      /\ snap'[leader] = IF n - snap[leader] >= Threshold THEN n ELSE snap[leader]
  BY <1>1, <1>2, StateTypes DEF ApplyTo
<1>6. /\ Larger(reach[leader], n) = n
      /\ snap'[leader] \in Nat /\ snap[leader] <= snap'[leader] /\ snap'[leader] <= n
  BY <1>3, <1>4, <1>5 DEF Larger
<1>7. Reflects(log, db'[leader], n, n)
  BY <1>3, <1>4, <1>5, <1>6, ReflectsApply
<1>8. db'[leader] \in [Key -> Nat]
  <2>1. Apply(db[leader], log, applied[leader], n) \in [Key -> Nat]
    BY <1>3, <1>4, ApplyType
  <2> QED BY <1>5, <2>1
<1>9. \A i \in Node \ {leader} : /\ applied'[i] = applied[i] /\ snap'[i] = snap[i]
                                 /\ db'[i] = db[i] /\ reach'[i] = reach[i]
  BY <1>1, <1>2, StateTypes DEF ApplyTo
<1>10. /\ applied' \in [Node -> Nat] /\ snap' \in [Node -> Nat]
       /\ db' \in [Node -> [Key -> Nat]] /\ reach' \in [Node -> Nat]
  <2>1. /\ applied' = [applied EXCEPT ![leader] = applied'[leader]]
        /\ snap' = [snap EXCEPT ![leader] = snap'[leader]]
        /\ db' = [db EXCEPT ![leader] = db'[leader]]
        /\ reach' = [reach EXCEPT ![leader] = reach'[leader]]
    BY <1>1, <1>2, <1>5, StateTypes DEF ApplyTo
  <2>2. applied'[leader] \in Nat /\ reach'[leader] \in Nat
    BY <1>4, <1>5, <1>6
  <2> QED BY <1>6, <1>8, <2>1, <2>2, StateTypes
<1>11. UNCHANGED <<next, match, job, late, reading, answer>>
  BY <1>1 DEF peerVars, readVars
<1>12. Requests' = Requests /\ SnapshotRequests' = SnapshotRequests
  BY <1>11 DEF Requests, SnapshotRequests
<1>13. KvTypeOK'
  BY <1>1, <1>4, <1>10, <1>11 DEF KvTypeOK
<1>14. DatabasesReflectLog'
  <2> SUFFICES ASSUME NEW i \in Node
               PROVE  /\ snap'[i] <= applied'[i] /\ applied'[i] <= reach'[i] /\ reach'[i] <= n
                      /\ Reflects(log, db'[i], applied'[i], reach'[i])
    BY <1>1 DEF DatabasesReflectLog
  <2>1. CASE i = leader
    BY <1>4, <1>5, <1>6, <1>7, <2>1
  <2>2. CASE i # leader
    <3>1. /\ snap[i] <= applied[i] /\ applied[i] <= reach[i] /\ reach[i] <= commit
          /\ reach[i] \in Nat /\ Reflects(log, db[i], applied[i], reach[i])
      BY NodeFacts
    <3> QED BY <1>3, <1>4, <1>9, <2>2, <3>1
  <2> QED BY <2>1, <2>2
\* A request to a leader of the newest term is from an older one.
<1>15. \A m \in Requests : m.to = leader => ~(m.term >= seen[leader])
  BY NotToLeader
<1>16. \A m \in Requests : m.to \in Node
  BY RequestTypes
<1>17. \A m \in SnapshotRequests : m \in Requests /\ m.kind = "snapshot"
  BY DEF SnapshotRequests
<1>18. SnapshotsAreNews'
  BY <1>1, <1>9, <1>12, <1>15, <1>16, <1>17 DEF SnapshotsAreNews, IsNews, NewSnapshot
<1>19. PositionsInv'
  <2> SUFFICES ASSUME NEW i \in Node
               PROVE  applied'[i] <= len[i] /\ len[i] <= Len(log) /\ seen[i] <= term
    BY <1>1, <1>2, <1>4, <1>5 DEF PositionsInv
  <2>1. applied[i] <= len[i] /\ len[i] <= Len(log) /\ seen[i] <= term
    BY DEF PositionsInv
  <2> QED BY <1>2, <1>4, <1>5, <1>9, <2>1
<1>20. NextInv'
  <2> SUFFICES ASSUME NEW j \in Node
               PROVE  /\ applied'[j] <= n \/ applied'[j] < next[j]
                      /\ seen[j] = term \/ next[j] = start
    BY <1>1, <1>5, <1>11 DEF NextInv
  <2>1. applied[j] <= applied[leader] \/ applied[j] < next[j]
    BY <1>1 DEF NextInv
  <2>2. seen[j] = term \/ next[j] = start
    BY <1>1 DEF NextInv
  <2>3. applied[j] \in Nat
    BY StateTypes
  <2> QED BY <1>3, <1>4, <1>5, <1>9, <2>1, <2>2, <2>3
<1>21. RequestsInv'
  <2> SUFFICES ASSUME NEW m \in Requests PROVE RequestsInv!(m)'
    BY <1>12 DEF RequestsInv
  <2>1. m.kind = "append" => m.commit \in Nat /\ (m.commit <= commit => m.commit <= n)
    BY <1>3, <1>4, RequestTypes
  <2>2. m.kind = "snapshot" => /\ m.index \in Nat /\ m.base \in Nat /\ m.reach \in Nat
                               /\ m.reach <= commit => m.reach <= n
                               /\ m.index <= snap[leader] => m.index <= snap'[leader]
                               /\ m.base <= applied[leader] => m.base <= n
    BY <1>3, <1>4, <1>6, RequestTypes
  <2>3. m.kind = "append" => (m.commit <= applied[leader] => m.commit <= n)
    BY <1>3, <1>4, RequestTypes
  <2>4. RequestsInv!(m)
    BY DEF RequestsInv
  <2> QED BY <1>1, <1>5, <2>1, <2>2, <2>3, <2>4
<1>22. JobInv'
  <2> SUFFICES ASSUME NEW t \in Thread, job[t].stage # "idle" PROVE JobInv!(t)'
    BY <1>11 DEF JobInv
  <2>1. /\ JobInv!(t) /\ job[t].msg.to \in Node /\ job[t].msg.to # leader
    BY JobTypes DEF JobInv
  <2>2. /\ applied'[job[t].msg.to] = applied[job[t].msg.to] /\ applied[job[t].msg.to] \in Nat
        /\ next[job[t].msg.to] \in Int
    BY <1>9, <2>1, StateTypes, NextFacts
  <2>3. /\ applied[job[t].msg.to] <= applied[leader] => applied[job[t].msg.to] <= applied'[leader]
        /\ next[job[t].msg.to] <= snap[leader] => next[job[t].msg.to] <= snap'[leader]
    BY <1>3, <1>4, <1>5, <1>6, <2>2
  <2> QED BY <1>1, <1>11, <2>1, <2>2, <2>3
<1>23. NewsInv'
  <2> SUFFICES ASSUME NEW m \in SnapshotRequests, m.term = term, IsNews(m)'
               PROVE  /\ next[m.to] <= snap'[leader]
                      /\ m \in late => \A t \in Thread :
                           job[t].stage # "idle" /\ job[t].msg.to = m.to =>
                             /\ job[t].stage = "sent" /\ job[t].msg.kind = "snapshot"
                             /\ m.index <= job[t].msg.index
    BY <1>1, <1>11, <1>12 DEF NewsInv
  <2>1. IsNews(m)
    BY <1>1, <1>9, <1>15, <1>16, <1>17 DEF IsNews, NewSnapshot
  <2>2. /\ next[m.to] <= snap[leader]
        /\ m \in late => \A t \in Thread :
             job[t].stage # "idle" /\ job[t].msg.to = m.to =>
               /\ job[t].stage = "sent" /\ job[t].msg.kind = "snapshot"
               /\ m.index <= job[t].msg.index
    BY <1>1, <2>1 DEF NewsInv
  <2>3. next[m.to] \in Int
    BY <1>16, <1>17, NextFacts
  <2>4. next[m.to] <= snap'[leader]
    BY <1>3, <1>6, <2>2, <2>3
  <2> QED BY <2>2, <2>4
<1>24. OvertakenInv'
  BY <1>1, <1>9, <1>12, <1>15, <1>16, <1>17 DEF OvertakenInv, NewSnapshot
<1>25. ReadingInv'
  <2> SUFFICES ASSUME NEW i \in Node, reading[i] # NoRead PROVE ReadingInv!(i)'
    BY <1>11 DEF ReadingInv
  <2>1. ReadingInv!(i)
    BY DEF ReadingInv
  <2>2. CASE i = leader
    <3>1. reading[i].from \in Nat
      BY DEF KvTypeOK
    <3>2. reading[i].from <= n
      BY <1>3, <1>4, <2>1, <2>2, <3>1
    <3> QED BY <1>1, <1>4, <1>5, <1>6, <1>11, <1>12, <2>1, <2>2, <3>2
  <2>3. CASE i # leader
    BY <1>1, <1>9, <1>11, <1>12, <2>1, <2>3
  <2> QED BY <2>2, <2>3
<1> QED BY <1>13, <1>14, <1>18, <1>19, <1>20, <1>21, <1>22, <1>23, <1>24, <1>25

\* The leader takes an answer into account.
LEMMA ReceiveStep ==
    ASSUME OneThread, ReplayInv, NEW t \in Thread, Receive(t)
    PROVE  ReplayInv'
<1> USE DEF ReplayInv
<1> DEFINE m == job[t].msg
           j == m.to
           stored == IF m.kind = "append" THEN m.last ELSE snap[leader]
<1>1. /\ job[t].stage = "answered"
      /\ IF job[t].ok
         THEN /\ match' = [match EXCEPT ![j] = Larger(@, stored)]
              /\ next' = [next EXCEPT ![j] =
                   IF m.kind = "append" THEN Larger(match[j], stored) + 1 ELSE stored + 1]
         ELSE /\ next' = [next EXCEPT ![j] = IF @ > snap[leader] + 1 THEN @ - 1 ELSE snap[leader]]
              /\ match' = match
      /\ job' = [job EXCEPT ![t] = Idle]
      /\ UNCHANGED <<logVars, late, dbVars, readVars>>
  BY DEF Receive
<1>2. UNCHANGED <<log, len, term, leader, start, seen, commit, applied, snap, db, reach,
                  reading, answer, late>>
  BY <1>1 DEF logVars, dbVars, readVars
<1>3. /\ leader # Nil /\ m.term = term /\ j # leader /\ j \in Node
      /\ m.kind \in {"append", "snapshot"}
      /\ m.kind = "append" => /\ m.last \in Nat /\ m.prev \in Nat
                              /\ m.prev = next[j] - 1 /\ start <= m.last + 1 /\ m.last <= Len(log)
      /\ m.kind = "snapshot" => applied[j] <= applied[leader]
      /\ seen[j] = term
      /\ ~job[t].ok => m.kind = "append" /\ (applied[j] <= applied[leader] \/ applied[j] < m.prev)
  BY <1>1, JobTypes DEF JobInv
<1>4. \A u \in Thread : job'[u].stage = "idle"
  BY <1>1 DEF OneThread, KvTypeOK, Idle
<1>5. Requests' = late /\ late \subseteq Requests
  BY <1>2, <1>4 DEF Requests
<1>6. SnapshotRequests' \subseteq SnapshotRequests
  BY <1>5 DEF SnapshotRequests
<1>7. job' \in [Thread -> [stage : {"idle", "sent", "answered"}, ok : BOOLEAN,
                           msg : Appends \cup Snapshots \cup {NoCall}]]
  BY <1>1 DEF KvTypeOK, Idle
<1>8. /\ leader \in Node /\ start \in Nat
      /\ IF applied[leader] >= start THEN applied[leader] = commit ELSE commit < start
  BY <1>3, LeaderFacts
<1>9. /\ snap[leader] \in Nat /\ applied[leader] \in Nat /\ applied[j] \in Nat /\ commit \in Nat
      /\ snap[leader] <= applied[leader] /\ applied[leader] <= Len(log) /\ applied[j] <= commit
  <2>1. /\ snap[leader] <= applied[leader] /\ applied[leader] <= reach[leader]
        /\ reach[leader] <= commit /\ commit <= Len(log)
        /\ snap[leader] \in Nat /\ applied[leader] \in Nat /\ reach[leader] \in Nat
        /\ commit \in Nat /\ Len(log) \in Nat
    BY <1>8, NodeFacts
  <2>2. applied[j] <= reach[j] /\ reach[j] <= commit /\ applied[j] \in Nat /\ reach[j] \in Nat
    BY <1>3, NodeFacts
  <2> QED BY <2>1, <2>2
<1>10. /\ next[j] \in 0 .. Len(log) + 1 /\ next[j] \in Int
       /\ match[j] \in 0 .. Len(log) /\ match[j] \in Int /\ Len(log) \in Nat
       /\ next \in [Node -> 0 .. Len(log) + 1] /\ match \in [Node -> 0 .. Len(log)]
  BY <1>3, NextFacts
<1>11. stored \in 0 .. Len(log)
  BY <1>3, <1>9, <1>10
<1>12. applied[j] <= applied[leader] \/ applied[j] < next[j]
  BY <1>3 DEF NextInv
<1>13. /\ next'[j] \in 0 .. Len(log) + 1 /\ match'[j] \in 0 .. Len(log)
       /\ applied[j] <= applied[leader] \/ applied[j] < next'[j]
  <2>1. CASE job[t].ok
    <3>1. Larger(match[j], stored) \in 0 .. Len(log) /\ Larger(match[j], stored) >= stored
      BY <1>10, <1>11 DEF Larger
    <3>2. /\ match'[j] = Larger(match[j], stored)
          /\ next'[j] = IF m.kind = "append" THEN Larger(match[j], stored) + 1 ELSE stored + 1
      BY <1>1, <1>3, <1>10, <2>1
    <3>3. next'[j] \in 0 .. Len(log) + 1 /\ next'[j] >= stored + 1
      BY <1>10, <1>11, <3>1, <3>2
    <3>4. IF m.kind = "append" THEN start <= stored + 1 ELSE applied[j] <= applied[leader]
      BY <1>3
    <3> HIDE DEF j, m, stored
    <3>5. stored \in Int /\ next'[j] \in Int
      BY <1>10, <1>11, <3>3
    <3>6. m.kind = "append" => applied[j] <= applied[leader] \/ applied[j] < next'[j]
      BY <1>8, <1>9, <3>3, <3>4, <3>5
    <3> QED BY <3>1, <3>2, <3>3, <3>4, <3>6
  <2>2. CASE ~job[t].ok
    <3>1. /\ next'[j] = IF next[j] > snap[leader] + 1 THEN next[j] - 1 ELSE snap[leader]
          /\ match'[j] = match[j]
      BY <1>1, <1>3, <1>10, <2>2
    <3>2. m.prev = next[j] - 1 /\ (applied[j] <= applied[leader] \/ applied[j] < m.prev)
      BY <1>3, <2>2
    <3> HIDE DEF j, m
    <3>3. next'[j] \in 0 .. Len(log) + 1
      BY <1>9, <1>10, <3>1
    <3>4. applied[j] <= applied[leader] \/ applied[j] < next'[j]
      BY <1>9, <1>10, <3>1, <3>2
    <3> QED BY <1>10, <3>1, <3>3, <3>4
  <2> QED BY <2>1, <2>2
<1>14. \A i \in Node \ {j} : next'[i] = next[i] /\ match'[i] = match[i]
  BY <1>1, <1>10
<1>15. next' \in [Node -> 0 .. Len(log) + 1] /\ match' \in [Node -> 0 .. Len(log)]
  <2>1. next' = [next EXCEPT ![j] = next'[j]] /\ match' = [match EXCEPT ![j] = match'[j]]
    BY <1>1, <1>3, <1>10
  <2> HIDE DEF j, m, stored
  <2> QED BY <1>10, <1>13, <2>1
<1> HIDE DEF j, m, stored
<1>16. KvTypeOK'
  BY <1>2, <1>7, <1>15 DEF KvTypeOK
<1>17. DatabasesReflectLog' /\ PositionsInv'
  BY <1>2 DEF DatabasesReflectLog, PositionsInv
<1>18. SnapshotsAreNews'
  BY <1>2, <1>6 DEF SnapshotsAreNews, IsNews, NewSnapshot
<1>19. NextInv'
  <2> SUFFICES ASSUME NEW i \in Node
               PROVE  /\ applied[i] <= applied[leader] \/ applied[i] < next'[i]
                      /\ seen[i] = term \/ next'[i] = start
    BY <1>2 DEF NextInv
  <2>1. CASE i = j
    BY <1>3, <1>13, <2>1
  <2>2. CASE i # j
    BY <1>3, <1>14, <2>2 DEF NextInv
  <2> QED BY <2>1, <2>2
<1>20. RequestsInv'
  BY <1>2, <1>5 DEF RequestsInv
<1>21. JobInv'
  BY <1>4 DEF JobInv
<1>22. NewsInv'
  <2> SUFFICES ASSUME NEW y \in SnapshotRequests, y \in late, y.term = term, IsNews(y)
               PROVE  next'[y.to] <= snap[leader]
    BY <1>2, <1>4, <1>5 DEF NewsInv, IsNews, NewSnapshot, SnapshotRequests
  <2>1. y.to # j
    BY <1>1, <1>3 DEF NewsInv, m, j
  <2>2. y.to \in Node
    BY RequestTypes DEF SnapshotRequests
  <2>3. next[y.to] <= snap[leader]
    BY <1>3 DEF NewsInv
  <2> QED BY <1>14, <2>1, <2>2, <2>3
<1>23. OvertakenInv'
  BY <1>2, <1>5, <1>6 DEF OvertakenInv, NewSnapshot
<1>24. ReadingInv'
  BY <1>2, <1>5 DEF ReadingInv
<1> QED BY <1>16, <1>17, <1>18, <1>19, <1>20, <1>21, <1>22, <1>23, <1>24

\* The request a thread is about to send.
LEMMA NewRequest ==
    ASSUME ReplayInv, leader # Nil, NEW j \in Node, j # leader, NEW m,
           m = IF next[j] <= snap[leader] THEN SnapshotRequest(j) ELSE AppendRequest(j)
    PROVE  /\ m \in Appends \cup Snapshots /\ m.to = j /\ m.term = term
           /\ m.kind \in {"append", "snapshot"}
           /\ m.kind = "append" =>
                /\ m.prev = next[j] - 1 /\ m.last = Len(log) /\ m.commit = applied[leader]
                /\ m.commit <= m.last /\ m.commit <= commit
                /\ next[j] > snap[leader]
           /\ m.kind = "snapshot" =>
                /\ m.index = snap[leader] /\ m.base = applied[leader]
                /\ m.index <= m.base /\ m.base <= m.reach /\ m.reach <= commit
                /\ Reflects(log, m.data, m.base, m.reach)
                /\ next[j] <= snap[leader] /\ applied[j] <= applied[leader]
<1>1. /\ leader \in Node /\ term \in Nat
      /\ applied[leader] \in Nat /\ snap[leader] \in Nat /\ reach[leader] \in Nat
      /\ db[leader] \in [Key -> Nat] /\ Len(log) \in Nat /\ commit \in Nat
      /\ snap[leader] <= applied[leader] /\ applied[leader] <= reach[leader]
      /\ reach[leader] <= commit /\ commit <= Len(log)
      /\ Reflects(log, db[leader], applied[leader], reach[leader])
  BY LeaderFacts, NodeFacts
<1>2. next[j] \in Int /\ applied[j] \in Nat
  BY NextFacts, StateTypes
<1>3. CASE next[j] <= snap[leader]
  <2>1. m = SnapshotRequest(j)
    BY <1>3
  <2>2. applied[j] <= applied[leader] \/ applied[j] < next[j]
    BY DEF ReplayInv, NextInv
  <2>3. applied[j] <= applied[leader]
    BY <1>1, <1>2, <1>3, <2>2
  <2>4. /\ m.kind = "snapshot" /\ m.to = j /\ m.term = term /\ m.index = snap[leader]
        /\ m.data = db[leader] /\ m.base = applied[leader] /\ m.reach = reach[leader]
    BY <2>1 DEF SnapshotRequest
  <2>5. m \in Snapshots
    BY <1>1, <2>1 DEF SnapshotRequest, Snapshots
  <2> QED BY <1>1, <1>3, <2>3, <2>4, <2>5
<1>4. CASE ~(next[j] <= snap[leader])
  <2>1. m = AppendRequest(j)
    BY <1>4
  <2>2. /\ m.kind = "append" /\ m.to = j /\ m.term = term /\ m.prev = next[j] - 1
        /\ m.last = Len(log) /\ m.commit = applied[leader]
    BY <2>1 DEF AppendRequest
  <2>3. next[j] - 1 \in Nat /\ next[j] > snap[leader]
    BY <1>1, <1>2, <1>4
  <2>4. m \in Appends
    BY <1>1, <2>1, <2>3 DEF AppendRequest, Appends
  <2>5. applied[leader] <= Len(log) /\ applied[leader] <= commit
    BY <1>1
  <2> QED BY <2>2, <2>3, <2>4, <2>5
<1> QED BY <1>3, <1>4

\* A thread of the leader sends a request.
LEMMA CallStep ==
    ASSUME OneThread, ReplayInv, NEW t \in Thread, NEW j \in Node, Call(t, j)
    PROVE  ReplayInv'
<1> USE DEF ReplayInv
<1> DEFINE m == IF next[j] <= snap[leader] THEN SnapshotRequest(j) ELSE AppendRequest(j)
<1>1. /\ leader # Nil /\ j # leader /\ job[t] = Idle
      /\ job' = [job EXCEPT ![t] = [stage |-> "sent", ok |-> FALSE, msg |-> m]]
      /\ UNCHANGED <<logVars, next, match, late, dbVars, readVars>>
  BY DEF Call
<1> HIDE DEF m
<1>2. UNCHANGED <<log, len, term, leader, start, seen, commit, applied, snap, db, reach,
                  reading, answer, late, next, match>>
  BY <1>1 DEF logVars, dbVars, readVars
<1>3. /\ m \in Appends \cup Snapshots /\ m.to = j /\ m.term = term
      /\ m.kind \in {"append", "snapshot"}
      /\ m.kind = "append" =>
           /\ m.prev = next[j] - 1 /\ m.last = Len(log) /\ m.commit = applied[leader]
           /\ m.commit <= m.last /\ m.commit <= commit
           /\ next[j] > snap[leader]
      /\ m.kind = "snapshot" =>
           /\ m.index = snap[leader] /\ m.base = applied[leader]
           /\ m.index <= m.base /\ m.base <= m.reach /\ m.reach <= commit
           /\ Reflects(log, m.data, m.base, m.reach)
           /\ next[j] <= snap[leader] /\ applied[j] <= applied[leader]
  BY <1>1, NewRequest DEF m
<1>4. /\ \A u \in Thread : u = t
      /\ job'[t].stage = "sent" /\ job'[t].msg = m /\ job'[t].ok = FALSE
  BY <1>1 DEF OneThread, KvTypeOK
<1>5. Requests = late /\ Requests' = late \cup {m}
  BY <1>1, <1>2, <1>4 DEF Requests, Idle
<1>6. m # NoCall
  BY <1>3 DEF NoCall
<1>7. /\ leader \in Node /\ seen[leader] = term /\ start <= Len(log) + 1
      /\ start \in Nat /\ term \in Nat
      /\ IF applied[leader] >= start THEN applied[leader] = commit ELSE commit < start
  BY <1>1, LeaderFacts
<1>8. /\ snap[leader] <= applied[leader] /\ snap[leader] \in Nat /\ applied[leader] \in Nat
      /\ commit \in Nat /\ Len(log) \in Nat /\ applied[leader] <= commit
      /\ next[j] \in Int /\ seen[j] \in Nat
  <2>1. /\ applied[leader] <= reach[leader] /\ reach[leader] <= commit
        /\ applied[leader] \in Nat /\ reach[leader] \in Nat
    BY <1>7, NodeFacts
  <2> QED BY <1>7, <2>1, NodeFacts, NextFacts
<1>9. KvTypeOK'
  <2>1. job' \in [Thread -> [stage : {"idle", "sent", "answered"}, ok : BOOLEAN,
                             msg : Appends \cup Snapshots \cup {NoCall}]]
    BY <1>1, <1>3 DEF KvTypeOK
  <2> QED BY <1>2, <2>1 DEF KvTypeOK
<1>10. DatabasesReflectLog' /\ PositionsInv' /\ NextInv'
  BY <1>2 DEF DatabasesReflectLog, PositionsInv, NextInv
<1>11. SnapshotsAreNews'
  <2> SUFFICES ASSUME NEW y \in SnapshotRequests', IsNews(y) PROVE applied[y.to] <= y.base
    BY <1>2 DEF SnapshotsAreNews, IsNews, NewSnapshot
  <2>1. CASE y = m
    BY <1>3, <2>1 DEF SnapshotRequests
  <2>2. CASE y # m
    BY <1>5, <2>2 DEF SnapshotRequests, SnapshotsAreNews
  <2> QED BY <2>1, <2>2
<1>12. RequestsInv'
  <2> SUFFICES ASSUME NEW y \in Requests' PROVE RequestsInv!(y)'
    BY DEF RequestsInv
  <2>1. CASE y = m
    <3>1. m.term <= term
      BY <1>3, <1>7
    <3>2. applied[leader] <= applied[leader] /\ snap[leader] <= snap[leader] /\ Len(log) <= Len(log)
      BY <1>8
    <3> QED BY <1>1, <1>2, <1>3, <2>1, <3>1, <3>2
  <2>2. CASE y # m
    BY <1>2, <1>5, <2>2 DEF RequestsInv
  <2> QED BY <2>1, <2>2
<1>13. JobInv'
  <2> SUFFICES JobInv!(t)'
    BY <1>4 DEF JobInv
  <2>1. m.kind = "append" => start <= m.last + 1 /\ m.last <= Len(log)
    BY <1>3, <1>7, <1>8
  <2> QED BY <1>1, <1>2, <1>3, <1>4, <1>6, <2>1
<1>14. ASSUME NEW y \in SnapshotRequests', y.term = term, IsNews(y)
       PROVE  next[y.to] <= snap[leader]
  <2>1. CASE y = m
    BY <1>3, <2>1 DEF SnapshotRequests
  <2>2. CASE y # m
    BY <1>1, <1>5, <1>14, <2>2 DEF SnapshotRequests, NewsInv
  <2> QED BY <2>1, <2>2
<1>15. NewsInv'
  <2> SUFFICES ASSUME NEW y \in SnapshotRequests', y.term = term, IsNews(y),
                      y \in late, m.to = y.to
               PROVE  m.kind = "snapshot" /\ y.index <= m.index
    BY <1>2, <1>4, <1>14 DEF NewsInv, IsNews, NewSnapshot
  <2>1. y \in Requests /\ y.kind = "snapshot"
    BY <1>5 DEF SnapshotRequests
  <2>2. y.index <= snap[leader]
    BY <1>1, <2>1 DEF RequestsInv
  <2>3. next[j] <= snap[leader]
    BY <1>3, <1>14
  <2>4. m.kind = "snapshot"
    BY <1>3, <1>8, <2>3
  <2> QED BY <1>3, <2>2, <2>4
<1>16. OvertakenInv'
  <2> SUFFICES ASSUME NEW y \in SnapshotRequests', NEW a \in Requests', a.kind = "append",
                      a.to = y.to, a.term <= y.term, a.term >= seen[a.to], NewSnapshot(y)
               PROVE  a.commit <= y.base
    BY <1>2 DEF OvertakenInv, NewSnapshot
  <2>1. y \in Requests' /\ y.kind = "snapshot"
    BY DEF SnapshotRequests
  <2>2. CASE y # m /\ a # m
    <3>1. y \in SnapshotRequests /\ a \in Requests
      BY <1>5, <2>1, <2>2 DEF SnapshotRequests
    <3> QED BY <3>1 DEF OvertakenInv
  <2>3. CASE y = m /\ a # m
    <3>1. a \in Requests /\ a.to = j
      BY <1>3, <1>5, <2>3
    <3>2. a.commit \in Nat /\ a.commit <= commit /\ a.term \in Nat
      BY <3>1, RequestTypes DEF RequestsInv
    <3>3. a.term = term => a.commit <= applied[leader]
      BY <1>1, <3>1 DEF RequestsInv
    <3>4. a.commit <= applied[leader] \/ (a.commit < next[j] /\ seen[j] # term)
      BY <1>1, <3>1, <3>2, <3>3, Within
    <3>5. m.base = applied[leader] /\ next[j] <= snap[leader]
      BY <1>3, <2>1, <2>3
    <3> QED BY <1>8, <2>3, <3>2, <3>4, <3>5
  <2>4. CASE y # m /\ a = m
    <3>1. y \in SnapshotRequests /\ y \in Requests
      BY <1>5, <2>1, <2>4 DEF SnapshotRequests
    <3>2. y.term = term
      <4>1. y.term \in Nat /\ y.term <= term
        BY <3>1, RequestTypes DEF RequestsInv
      <4> QED BY <1>3, <1>7, <2>4, <4>1
    <3>3. IsNews(y)
      <4>1. y.term >= seen[y.to]
        BY <1>3, <2>4, <3>2
      <4> QED BY <4>1 DEF IsNews
    <3>4. next[j] <= snap[leader]
      BY <1>3, <1>14, <2>4, <3>2, <3>3
    <3> QED BY <1>3, <1>8, <2>4, <3>4
  <2>5. CASE y = m /\ a = m
    BY <2>1, <2>5
  <2> QED BY <2>2, <2>3, <2>4, <2>5
<1>17. ReadingInv'
  <2> SUFFICES ASSUME NEW i \in Node, reading[i] # NoRead, m.to = i PROVE m.term # seen[i]
    BY <1>2, <1>5 DEF ReadingInv
  <2> QED BY <1>1, <1>3 DEF ReadingInv
<1> QED BY <1>9, <1>10, <1>11, <1>12, <1>13, <1>15, <1>16, <1>17

\* What a request still brings when the entries beyond n are gone.
LEMMA ShortenFacts ==
    ASSUME ReplayInv, NEW n \in Nat, NEW m \in Requests,
           m \in late \cup {job[t].msg : t \in Thread}
    PROVE  LET y == Shorten(n)[m] IN
           /\ y \in Appends \cup Snapshots
           /\ y.kind = m.kind /\ y.to = m.to /\ y.term = m.term
           /\ m.kind = "append" =>
                y.commit = m.commit /\ y.last = Smaller(m.last, n)
           /\ m.kind = "snapshot" => y = m
<1>1. /\ m \in Appends \cup Snapshots /\ m.kind \in {"append", "snapshot"}
      /\ m.kind = "append" => m \in Appends /\ m.last \in Nat
  BY RequestTypes DEF ReplayInv
<1>2. CASE m.kind = "append"
  <2>1. Shorten(n)[m] = [m EXCEPT !.last = Smaller(m.last, n)]
    BY <1>2 DEF Shorten
  <2>2. Smaller(m.last, n) \in Nat
    BY <1>1, <1>2 DEF Smaller
  <2>3. m \in Appends
    BY <1>1, <1>2
  <2> QED BY <1>2, <2>1, <2>2, <2>3 DEF Appends
<1>3. CASE m.kind # "append"
  <2>1. Shorten(n)[m] = m
    BY <1>3 DEF Shorten
  <2> QED BY <1>1, <1>3, <2>1
<1> QED BY <1>2, <1>3

\* A new leader: its log is the log, the old one's callers are gone.
LEMMA ElectStep ==
    ASSUME ReplayInv, NEW l \in Node, NEW Q \in SUBSET Node, Elect(l, Q)
    PROVE  ReplayInv'
<1> USE DEF ReplayInv
<1> DEFINE n == len[l]
<1>1. /\ l \in Q /\ n >= commit /\ term' = term + 1 /\ leader' = l
      /\ seen' = [i \in Node |-> IF i \in Q THEN term + 1 ELSE seen[i]]
      /\ log' = SubSeq(log, 1, n)
      /\ len' = [i \in Node |-> Smaller(len[i], n)]
      /\ start' = n + 1
      /\ next' = [i \in Node |-> n + 1] /\ match' = [i \in Node |-> 0]
      /\ CallersGone(Shorten(n))
      /\ reading' = [i \in Node |-> IF i \in Q THEN NoRead ELSE reading[i]]
      /\ UNCHANGED <<commit, applied, snap, db, reach, answer>>
  BY DEF Elect, InitLeaderState, dbVars
<1>2. n \in Nat /\ n <= Len(log) /\ Len(log) \in Nat /\ commit \in Nat /\ commit <= n
      /\ term \in Nat
  BY <1>1, NodeFacts DEF KvTypeOK
<1> HIDE DEF n
<1>3. log' \in Seq(Command) /\ Len(log') = n /\ \A x \in 1 .. n : log'[x] = log[x]
  <2>1. log \in Seq(Command)
    BY DEF KvTypeOK
  <2>2. log' = SubSeq(log, 1, n)
    BY <1>1
  <2> QED BY <1>2, <2>1, <2>2
<1>4. job' = [t \in Thread |-> Idle] /\ \A t \in Thread : job'[t].stage = "idle"
  BY <1>1 DEF CallersGone, Idle
<1>5. \A y \in late' : \E m \in Requests :
        /\ m \in late \cup {job[t].msg : t \in Thread}
        /\ y = Shorten(n)[m]
  <2>1. PICK S \in SUBSET {job[t].msg : t \in {u \in Thread : job[u].stage = "sent"}} :
           late' = {Shorten(n)[m] : m \in late \cup S}
    BY <1>1 DEF CallersGone
  <2>2. late \cup S \subseteq Requests
    BY DEF Requests
  <2>3. late \cup S \subseteq late \cup {job[t].msg : t \in Thread}
    OBVIOUS
  <2> QED BY <2>1, <2>2, <2>3
<1>6. Requests' = late'
  BY <1>4 DEF Requests
<1>7. \A y \in Requests' : \E m \in Requests :
        /\ y \in Appends \cup Snapshots
        /\ y.kind = m.kind /\ y.to = m.to /\ y.term = m.term
        /\ m.kind = "append" => y.commit = m.commit /\ y.last = Smaller(m.last, n)
        /\ m.kind = "snapshot" => y = m
  <2> SUFFICES ASSUME NEW y \in late'
               PROVE  \E m \in Requests :
                        /\ y \in Appends \cup Snapshots
                        /\ y.kind = m.kind /\ y.to = m.to /\ y.term = m.term
                        /\ m.kind = "append" => y.commit = m.commit /\ y.last = Smaller(m.last, n)
                        /\ m.kind = "snapshot" => y = m
    BY <1>6
  <2>1. PICK m \in Requests : /\ m \in late \cup {job[t].msg : t \in Thread}
                              /\ y = Shorten(n)[m]
    BY <1>5
  <2> QED BY <1>2, <2>1, ShortenFacts
<1>8. SnapshotRequests' \subseteq SnapshotRequests
  BY <1>7 DEF SnapshotRequests
<1>9. \A m \in Requests : m.term \in Nat /\ m.term <= term /\ m.to \in Node
  BY RequestTypes DEF RequestsInv
<1>10. \A i \in Node : /\ seen[i] \in Nat /\ seen[i] <= term
                       /\ seen'[i] = IF i \in Q THEN term + 1 ELSE seen[i]
  BY <1>1 DEF KvTypeOK, PositionsInv
<1>11. \A i \in Node : seen'[i] \in Nat /\ seen[i] <= seen'[i] /\ seen'[i] <= term + 1
  BY <1>2, <1>10
<1>12. \A i \in Node : /\ len'[i] = Smaller(len[i], n) /\ len'[i] \in Nat /\ len'[i] <= n
                       /\ applied[i] <= len'[i] /\ applied[i] \in Nat
                       /\ applied[i] <= commit
  <2> SUFFICES ASSUME NEW i \in Node
               PROVE  /\ len'[i] = Smaller(len[i], n) /\ len'[i] \in Nat /\ len'[i] <= n
                      /\ applied[i] <= len'[i] /\ applied[i] \in Nat
                      /\ applied[i] <= commit
    OBVIOUS
  <2>1. len'[i] = Smaller(len[i], n)
    BY <1>1
  <2>2. /\ applied[i] \in Nat /\ reach[i] \in Nat /\ len[i] \in Nat
        /\ applied[i] <= len[i] /\ applied[i] <= reach[i] /\ reach[i] <= commit
    BY NodeFacts
  <2>3. applied[i] <= commit /\ applied[i] <= n
    BY <1>2, <2>2
  <2> QED BY <1>2, <2>1, <2>2, <2>3 DEF Smaller
<1>13. ASSUME NEW d, NEW a \in Nat, NEW r \in Nat, a <= r, r <= commit, Reflects(log, d, a, r)
       PROVE  Reflects(log', d, a, r)
  <2>1. \A x \in 1 .. r : log'[x] = log[x]
    BY <1>2, <1>3, <1>13
  <2> QED BY <1>13, <2>1, ReflectsPrefix
<1>14. KvTypeOK'
  <2>1. late' \subseteq Appends \cup Snapshots
    BY <1>6, <1>7
  <2>2. job' \in [Thread -> [stage : {"idle", "sent", "answered"}, ok : BOOLEAN,
                             msg : Appends \cup Snapshots \cup {NoCall}]]
    BY <1>4 DEF Idle
  <2>3. reading' \in [Node -> [key : Key \cup {NoKey}, from : Nat]]
    BY <1>1 DEF KvTypeOK, NoRead
  <2>4. len' \in [Node -> Nat] /\ seen' \in [Node -> Nat]
    BY <1>1, <1>11, <1>12
  <2>5. next' \in [Node -> 0 .. Len(log') + 1] /\ match' \in [Node -> 0 .. Len(log')]
    BY <1>1, <1>2, <1>3
  <2>6. term' \in Nat /\ start' \in Nat \ {0} /\ leader' \in Node \cup {Nil} /\ commit' \in Nat
    BY <1>1, <1>2
  <2>7. /\ applied' \in [Node -> Nat] /\ snap' \in [Node -> Nat]
        /\ db' \in [Node -> [Key -> Nat]] /\ reach' \in [Node -> Nat]
    BY <1>1, StateTypes
  <2>8. answer' \in [key : Key \cup {NoKey}, value : Nat]
    BY <1>1 DEF KvTypeOK
  <2> QED BY <1>3, <2>1, <2>2, <2>3, <2>4, <2>5, <2>6, <2>7, <2>8 DEF KvTypeOK
<1>15. DatabasesReflectLog'
  <2> SUFFICES ASSUME NEW i \in Node
               PROVE  /\ snap[i] <= applied[i] /\ applied[i] <= reach[i] /\ reach[i] <= commit
                      /\ Reflects(log', db[i], applied[i], reach[i])
    BY <1>1 DEF DatabasesReflectLog
  <2>1. /\ snap[i] <= applied[i] /\ applied[i] <= reach[i] /\ reach[i] <= commit
        /\ applied[i] \in Nat /\ reach[i] \in Nat
        /\ Reflects(log, db[i], applied[i], reach[i])
    BY NodeFacts
  <2> QED BY <1>13, <2>1
<1>16. SnapshotsAreNews'
  <2> SUFFICES ASSUME NEW y \in SnapshotRequests, IsNews(y)' PROVE applied[y.to] <= y.base
    BY <1>1, <1>8 DEF SnapshotsAreNews
  <2>1. y \in Requests /\ y.to \in Node /\ y.term \in Nat
    BY <1>9 DEF SnapshotRequests
  <2>2. y.term >= seen[y.to]
    BY <1>10, <1>11, <2>1 DEF IsNews
  <2> QED BY <1>1, <2>2 DEF SnapshotsAreNews, IsNews, NewSnapshot
<1>17. PositionsInv'
  <2>1. /\ seen'[l] = term' /\ len'[l] = Len(log') /\ start' <= Len(log') + 1
    BY <1>1, <1>2, <1>3, <1>10, <1>12 DEF Smaller, n
  <2>2. ~(applied[l] >= start') /\ commit < start'
    BY <1>1, <1>2, <1>12
  <2> QED BY <1>1, <1>2, <1>3, <1>11, <1>12, <2>1, <2>2 DEF PositionsInv
<1>18. NextInv'
  <2> SUFFICES ASSUME NEW j \in Node PROVE applied[j] < n + 1
    BY <1>1 DEF NextInv
  <2> QED BY <1>2, <1>12
<1>19. RequestsInv'
  <2> SUFFICES ASSUME NEW y \in Requests' PROVE RequestsInv!(y)'
    BY DEF RequestsInv
  <2>1. PICK m \in Requests :
          /\ y.kind = m.kind /\ y.to = m.to /\ y.term = m.term
          /\ m.kind = "append" => y.commit = m.commit /\ y.last = Smaller(m.last, n)
          /\ m.kind = "snapshot" => y = m
    BY <1>7
  <2>2. y.term <= term' /\ y.term # term'
    BY <1>1, <1>2, <1>9, <2>1
  <2>3. y.kind = "append" => y.commit <= y.last /\ y.commit <= commit /\ y.last <= Len(log')
    <3> SUFFICES ASSUME m.kind = "append"
                 PROVE  /\ m.commit <= Smaller(m.last, n) /\ m.commit <= commit
                        /\ Smaller(m.last, n) <= n
      BY <1>3, <2>1
    <3>1. m.commit \in Nat /\ m.last \in Nat /\ m.commit <= m.last /\ m.commit <= commit
      BY RequestTypes DEF RequestsInv
    <3> QED BY <1>2, <3>1 DEF Smaller
  <2>4. y.kind = "snapshot" =>
          /\ y.index <= y.base /\ y.base <= y.reach /\ y.reach <= commit
          /\ Reflects(log', y.data, y.base, y.reach)
    <3> SUFFICES ASSUME m.kind = "snapshot"
                 PROVE  /\ m.index <= m.base /\ m.base <= m.reach /\ m.reach <= commit
                        /\ Reflects(log', m.data, m.base, m.reach)
      BY <2>1
    <3>1. /\ m.index <= m.base /\ m.base <= m.reach /\ m.reach <= commit
          /\ Reflects(log, m.data, m.base, m.reach)
          /\ m.base \in Nat /\ m.reach \in Nat
      BY RequestTypes DEF RequestsInv
    <3> QED BY <1>13, <3>1
  <2> QED BY <1>1, <2>2, <2>3, <2>4
<1>20. JobInv'
  BY <1>4 DEF JobInv
<1>21. NewsInv'
  <2> SUFFICES ASSUME NEW y \in SnapshotRequests, y.term = term' PROVE FALSE
    BY <1>8 DEF NewsInv
  <2> QED BY <1>1, <1>2, <1>9 DEF SnapshotRequests
<1>22. OvertakenInv'
  <2> SUFFICES ASSUME NEW y \in SnapshotRequests, NEW a \in Requests', a.kind = "append",
                      a.to = y.to, a.term <= y.term, a.term >= seen'[a.to], NewSnapshot(y)
               PROVE  a.commit <= y.base
    BY <1>1, <1>8 DEF OvertakenInv, NewSnapshot
  <2>1. PICK m \in Requests : /\ m.kind = "append" /\ a.to = m.to /\ a.term = m.term
                              /\ a.commit = m.commit
    BY <1>7
  <2>2. m.term >= seen[m.to]
    BY <1>9, <1>10, <1>11, <2>1
  <2> QED BY <2>1, <2>2 DEF OvertakenInv
<1>23. ReadingInv'
  <2> SUFFICES ASSUME NEW i \in Node, reading'[i] # NoRead PROVE ReadingInv!(i)'
    BY DEF ReadingInv
  <2>1. i \notin Q /\ reading'[i] = reading[i]
    BY <1>1
  <2>2. seen'[i] = seen[i] /\ seen'[i] # term'
    BY <1>1, <1>2, <1>10, <2>1
  <2>3. ReadingInv!(i)
    BY <2>1 DEF ReadingInv
  <2>4. \A y \in Requests' : y.to = i => y.term # seen[i]
    <3> SUFFICES ASSUME NEW y \in Requests', y.to = i PROVE y.term # seen[i]
      OBVIOUS
    <3>1. PICK m \in Requests : y.to = m.to /\ y.term = m.term
      BY <1>7
    <3> QED BY <2>1, <2>3, <3>1
  <2> QED BY <1>1, <2>1, <2>2, <2>3, <2>4
<1> QED BY <1>14, <1>15, <1>16, <1>17, <1>18, <1>19, <1>20, <1>21, <1>22, <1>23

\* The initial state.
LEMMA InitStep ==
    ASSUME ReplayInit
    PROVE  ReplayInv
<1> USE DEF ReplayInit
<1>1. Requests = {} /\ SnapshotRequests = {} /\ \A t \in Thread : job[t].stage = "idle"
  BY DEF Requests, SnapshotRequests, Idle
<1>2. KvTypeOK
  <2>1. log \in Seq(Command) /\ Len(log) = 0
    OBVIOUS
  <2>2. next \in [Node -> 0 .. Len(log) + 1] /\ match \in [Node -> 0 .. Len(log)]
    BY <2>1
  <2>3. db \in [Node -> [Key -> Nat]]
    BY DEF Empty, Absent
  <2>4. job \in [Thread -> [stage : {"idle", "sent", "answered"}, ok : BOOLEAN,
                            msg : Appends \cup Snapshots \cup {NoCall}]]
    BY DEF Idle
  <2> QED BY <2>1, <2>2, <2>3, <2>4 DEF KvTypeOK, NoRead, NoAnswer, Absent
<1>3. DatabasesReflectLog
  BY ReflectsEmpty DEF DatabasesReflectLog
<1>4. SnapshotsAreNews /\ RequestsInv /\ JobInv /\ NewsInv /\ OvertakenInv
  BY <1>1 DEF SnapshotsAreNews, RequestsInv, JobInv, NewsInv, OvertakenInv
<1>5. PositionsInv /\ NextInv
  BY DEF PositionsInv, NextInv
<1>6. ReadingInv
  BY DEF ReadingInv
<1> QED BY <1>2, <1>3, <1>4, <1>5, <1>6 DEF ReplayInv

\* Nothing happens.
LEMMA StutterStep ==
    ASSUME ReplayInv, UNCHANGED vars
    PROVE  ReplayInv'
<1>1. UNCHANGED <<logVars, next, match, dbVars, readVars>> /\ late' = late /\ job' = job
  BY DEF vars, peerVars
<1>2. Requests' = Requests
  BY <1>1 DEF Requests
<1> QED BY <1>1, <1>2, FewerRequestsStep DEF ReplayInv, KvTypeOK

\* Every step keeps the invariant.
LEMMA NextStep ==
    ASSUME OneThread, ReplayInv, [ReplayNext]_vars
    PROVE  ReplayInv'
BY ElectStep, WriteStep, CommitStep, CallStep, CallFailsStep, HandleStep,
   HandleLateStep,
   RefuseLateStep, ReceiveStep, CrashStep, CrashInCallStep, CrashInLateStep, BeginReadStep,
   EndReadStep, StutterStep DEF ReplayNext

\* With one thread that replicates, the inductive invariant holds of every behaviour.
THEOREM ReplayInvHolds ==
    ASSUME OneThread
    PROVE  ReplaySpec => []ReplayInv
<1>1. ReplayInit => ReplayInv
  BY InitStep
<1>2. ReplayInv /\ [ReplayNext]_vars => ReplayInv'
  BY NextStep
<1> QED BY <1>1, <1>2, PTL DEF ReplaySpec

\* The type invariant of the database model.
THEOREM KvTypeHolds ==
    ASSUME OneThread
    PROVE  ReplaySpec => []KvTypeOK
<1>1. ReplayInv => KvTypeOK
  BY DEF ReplayInv
<1> QED BY <1>1, ReplayInvHolds, PTL

\* A database is what the applied entries make of it, or ahead of them by entries
\* still to be applied, through crashes and snapshots.
THEOREM DatabasesHold ==
    ASSUME OneThread
    PROVE  ReplaySpec => []DatabasesReflectLog
<1>1. ReplayInv => DatabasesReflectLog
  BY DEF ReplayInv
<1> QED BY <1>1, ReplayInvHolds, PTL

\* A snapshot that handleInstallSnapshot would install holds all that its receiver
\* has applied.
THEOREM SnapshotsHold ==
    ASSUME OneThread
    PROVE  ReplaySpec => []SnapshotsAreNews
<1>1. ReplayInv => SnapshotsAreNews
  BY DEF ReplayInv
<1> QED BY <1>1, ReplayInvHolds, PTL

-----------------------------------------------------------------------------
(*****************************************************************************)
(* The register.                                                             *)
(*****************************************************************************)

\* Two logs with the same beginning have the same contents up to there.
LEMMA ContentsPrefix ==
    ASSUME NEW lg, NEW lg2, NEW a \in Nat, \A x \in 1 .. a : lg2[x] = lg[x], NEW k \in Key
    PROVE  Contents(lg2, a)[k] = Contents(lg, a)[k]
<1> DEFINE d == Contents(lg, a)
<1>1. Reflects(lg, d, a, a)
  BY DEF Reflects
<1> HIDE DEF d
<1>2. Reflects(lg2, d, a, a)
  BY <1>1, ReflectsPrefix
<1>3. d[k] = Contents(lg2, a)[k]
  BY <1>2, ReflectsExactly
<1> QED BY <1>3 DEF d

\* The register speaks of contents as the nodes do.
LEMMA SameContents ==
    ASSUME NEW lg, NEW n
    PROVE  Register!Contents(lg, n) = Contents(lg, n)
BY DEF Register!Contents, Register!Apply, Register!LastTouch, Register!Outcome,
   Register!Absent,
       Register!Empty, Contents, Apply, LastTouch, Outcome, Absent, Empty

\* The history is the committed part of the log.
LEMMA History ==
    ASSUME ReplayInv
    PROVE  /\ commit \in Nat /\ Len(SubSeq(log, 1, commit)) = commit
           /\ \A x \in 1 .. commit : SubSeq(log, 1, commit)[x] = log[x]
<1>1. log \in Seq(Command) /\ commit \in Nat /\ commit <= Len(log)
  BY DEF ReplayInv, KvTypeOK, PositionsInv
<1> QED BY <1>1

\* Cutting a log beyond a position, or appending to it, leaves the beginning.
LEMMA PrefixOfPrefix ==
    ASSUME NEW S, NEW lg \in Seq(S), NEW a \in Nat, NEW b \in Nat, a <= b, b <= Len(lg)
    PROVE  SubSeq(SubSeq(lg, 1, b), 1, a) = SubSeq(lg, 1, a)
OBVIOUS

\* The same for a log that grows.
LEMMA PrefixOfAppend ==
    ASSUME NEW S, NEW lg \in Seq(S), NEW c \in S, NEW a \in Nat, a <= Len(lg)
    PROVE  SubSeq(Append(lg, c), 1, a) = SubSeq(lg, 1, a)
OBVIOUS

\* Reads that end without an answer.
LEMMA RegisterFail ==
    ASSUME ReplayInv, SubSeq(log, 1, commit)' = SubSeq(log, 1, commit), answer' = answer,
           DOMAIN reading' = Node, \A i \in Node : reading'[i] \in {reading[i], NoRead}
    PROVE  Register!Fail
BY DEF Register!Fail, Register!NoRead, NoRead

\* A node that stops serving its read, as the register sees it.
LEMMA ReadingEnds ==
    ASSUME ReplayInv, NEW j \in Node, UNCHANGED <<log, commit, answer>>,
           reading' = [reading EXCEPT ![j] = NoRead]
    PROVE  Register!Fail
<1>1. reading \in [Node -> [key : Key \cup {NoKey}, from : Nat]]
  BY DEF ReplayInv, KvTypeOK
<1>2. DOMAIN reading' = Node /\ \A i \in Node : reading'[i] \in {reading[i], NoRead}
  BY <1>1
<1> QED BY <1>2, RegisterFail

\* Requests and crashes end reads and do nothing else to the register.
LEMMA AcceptIsFail ==
    ASSUME ReplayInv, NEW m \in Requests, m.term >= seen[m.to], Accept(m)
    PROVE  Register!Fail
<1>1. m.to \in Node
  BY NotToLeader
<1>2. reading' = [reading EXCEPT ![m.to] = NoRead]
  BY FollowEndsRead DEF Accept
<1>3. UNCHANGED <<log, commit, answer>>
  BY DEF Accept
<1> QED BY <1>1, <1>2, <1>3, ReadingEnds

\* So does a crash during handleInstallSnapshot.
LEMMA CrashInInstallIsFail ==
    ASSUME ReplayInv, NEW m \in Requests, CrashInInstall(m)
    PROVE  Register!Fail
<1>1. m.to \in Node
  BY NotToLeader DEF CrashInInstall
<1>2. /\ UNCHANGED <<log, commit, answer>>
      /\ reading' = [reading EXCEPT ![m.to] = NoRead]
  BY DEF CrashInInstall, Die
<1> QED BY <1>1, <1>2, ReadingEnds

\* A commit makes the history longer.
LEMMA CommitExtends ==
    ASSUME ReplayInv, NEW n \in 1 .. Len(log), Commit(n)
    PROVE  Register!Extend
<1>1. log \in Seq(Command) /\ commit \in Nat
  BY DEF ReplayInv, KvTypeOK
<1>2. commit' = n /\ log' = log /\ UNCHANGED <<reading, answer>> /\ leader # Nil
      /\ n \in Larger(start, applied[leader] + 1) .. Len(log)
  BY DEF Commit, readVars
<1>3. /\ start \in Nat /\ leader \in Node
      /\ IF applied[leader] >= start THEN applied[leader] = commit ELSE commit < start
  BY <1>2, LeaderFacts
<1>4. applied[leader] \in Nat
  BY <1>3, StateTypes
<1>5. commit < n /\ n <= Len(log) /\ n \in Nat
  BY <1>1, <1>2, <1>3, <1>4 DEF Larger
<1>6. Len(SubSeq(log, 1, n)) = n /\ Len(SubSeq(log, 1, commit)) = commit
  BY <1>1, <1>5
<1>7. SubSeq(SubSeq(log, 1, n), 1, commit) = SubSeq(log, 1, commit)
  BY <1>1, <1>5, PrefixOfPrefix
<1>8. SubSeq(log, 1, commit)' = SubSeq(log, 1, n)
  BY <1>2
<1> QED BY <1>2, <1>5, <1>6, <1>7, <1>8 DEF Register!Extend

\* A read begins with all of the history committed and applied by the leader.
LEMMA BeginReadBegins ==
    ASSUME ReplayInv, NEW k \in Key, BeginRead(k)
    PROVE  Register!Begin(leader, k) /\ leader \in Node
<1>1. leader \in Node /\ applied[leader] = commit
  BY LeaderFacts DEF BeginRead, MayRead
<1>2. Len(SubSeq(log, 1, commit)) = commit
  BY History
<1>3. UNCHANGED <<log, commit>>
  BY DEF BeginRead, logVars
<1>4. /\ reading[leader] = NoRead /\ answer' = NoAnswer
      /\ reading' = [reading EXCEPT ![leader] = [key |-> k, from |-> applied[leader]]]
  BY DEF BeginRead
<1> QED BY <1>1, <1>2, <1>3, <1>4
        DEF Register!Begin, Register!NoRead, Register!NoAnswer, Register!Absent,
            NoRead, NoAnswer, Absent

\* The value read is that of the history up to what the node has applied.
LEMMA EndReadEnds ==
    ASSUME ReplayInv, NEW i \in Node, EndRead(i)
    PROVE  Register!End(i)
<1> DEFINE k == reading[i].key
           h == SubSeq(log, 1, commit)
<1>1. /\ reading[i] # NoRead /\ answer' = [key |-> k, value |-> db[i][k]]
      /\ reading' = [reading EXCEPT ![i] = NoRead]
  BY DEF EndRead
<1>2. UNCHANGED <<log, commit>>
  BY DEF EndRead, logVars
<1>3. k \in Key /\ reading[i].from <= applied[i] /\ reach[i] <= applied[i]
  BY <1>1 DEF ReplayInv, ReadingInv
<1>4. reading[i].from \in Nat
  BY DEF ReplayInv, KvTypeOK
<1>5. /\ applied[i] \in Nat /\ reach[i] \in Nat /\ commit \in Nat
      /\ applied[i] <= reach[i] /\ reach[i] <= commit
      /\ Reflects(log, db[i], applied[i], reach[i])
  BY NodeFacts
<1>6. Len(h) = commit /\ \A x \in 1 .. commit : h[x] = log[x]
  BY History
<1>7. h' = h
  BY <1>2
<1> HIDE DEF k, h
<1>8. db[i][k] = Contents(log, applied[i])[k]
  BY <1>3, <1>5, ReflectsExactly
<1>9. Contents(h, applied[i])[k] = Contents(log, applied[i])[k]
  <2>1. \A x \in 1 .. applied[i] : h[x] = log[x]
    BY <1>5, <1>6
  <2> QED BY <1>3, <1>5, <2>1, ContentsPrefix
<1>10. applied[i] \in reading[i].from .. Len(h)
  BY <1>3, <1>4, <1>5, <1>6
<1>11. answer' = [key |-> k, value |-> Register!Contents(h, applied[i])[k]]
  BY <1>1, <1>8, <1>9, SameContents
<1> QED BY <1>1, <1>7, <1>10, <1>11 DEF Register!End, Register!NoRead, NoRead, k, h

\* Every step is one of the register or leaves it alone.
LEMMA ReplayImplementsStep ==
    ASSUME ReplayInv, [ReplayNext]_vars
    PROVE  [Register!RegisterNext]_(Register!regVars)
<1>1. ASSUME UNCHANGED <<log, commit, reading, answer>>
      PROVE  UNCHANGED Register!regVars
  BY <1>1 DEF Register!regVars
<1>2. ASSUME Register!Fail PROVE Register!RegisterNext
  BY <1>2 DEF Register!RegisterNext
<1>3. ASSUME NEW l \in Node, NEW Q \in SUBSET Node, Elect(l, Q) PROVE Register!Fail
  <2>1. log \in Seq(Command) /\ commit \in Nat /\ len[l] \in Nat /\ len[l] <= Len(log)
    BY NodeFacts DEF ReplayInv, KvTypeOK
  <2>2. commit <= len[l] /\ log' = SubSeq(log, 1, len[l]) /\ commit' = commit
    BY <1>3, <2>1 DEF Elect
  <2>3. SubSeq(log', 1, commit') = SubSeq(log, 1, commit)
    BY <2>1, <2>2, PrefixOfPrefix
  <2>4. DOMAIN reading' = Node /\ \A i \in Node : reading'[i] \in {reading[i], NoRead}
    BY <1>3 DEF Elect
  <2>5. answer' = answer
    BY <1>3 DEF Elect
  <2> QED BY <2>3, <2>4, <2>5, RegisterFail
<1>4. ASSUME NEW c \in Command, Write(c) PROVE UNCHANGED Register!regVars
  <2>1. log \in Seq(Command) /\ commit \in Nat /\ commit <= Len(log)
    BY DEF ReplayInv, KvTypeOK, PositionsInv
  <2>2. log' = Append(log, c) /\ UNCHANGED <<commit, reading, answer>>
    BY <1>4 DEF Write, readVars
  <2>3. SubSeq(log', 1, commit') = SubSeq(log, 1, commit)
    BY <2>1, <2>2, PrefixOfAppend
  <2> QED BY <2>2, <2>3 DEF Register!regVars
<1>5. ASSUME NEW n \in 1 .. Len(log), Commit(n) PROVE Register!RegisterNext
  BY <1>5, CommitExtends DEF Register!RegisterNext
<1>6. ASSUME NEW t \in Thread, NEW j \in Node, Call(t, j)
      PROVE  UNCHANGED <<log, commit, reading, answer>>
  BY <1>6 DEF Call, logVars, readVars
<1>7. ASSUME NEW t \in Thread, CallFails(t) \/ Receive(t)
      PROVE  UNCHANGED <<log, commit, reading, answer>>
  BY <1>7 DEF CallFails, Receive, logVars, readVars
<1>8. ASSUME NEW t \in Thread, Handle(t) PROVE Register!Fail
  <2>1. job[t].stage = "sent" /\ job[t].msg \in Requests /\ Accept(job[t].msg)
    BY <1>8 DEF Handle, Requests
  <2>2. job[t].msg.term = term /\ job[t].msg.to \in Node
    BY <2>1, JobTypes DEF ReplayInv, JobInv
  <2>3. /\ seen[job[t].msg.to] <= term /\ seen[job[t].msg.to] \in Nat /\ term \in Nat
    BY <2>2 DEF ReplayInv, PositionsInv, KvTypeOK
  <2>4. job[t].msg.term >= seen[job[t].msg.to]
    BY <2>2, <2>3
  <2> QED BY <2>1, <2>4, AcceptIsFail
<1>9. ASSUME NEW m \in late, HandleLate(m) PROVE Register!Fail
  <2>1. m \in Requests /\ m.term >= seen[m.to] /\ Accept(m)
    BY <1>9 DEF HandleLate, Requests
  <2> QED BY <2>1, AcceptIsFail
<1>10. ASSUME NEW m \in late, RefuseLate(m) PROVE UNCHANGED <<log, commit, reading, answer>>
  BY <1>10 DEF RefuseLate, logVars, readVars
<1>11. ASSUME NEW i \in Node, Crash(i) PROVE Register!Fail
  BY <1>11, ReadingEnds DEF Crash, Die
<1>12. ASSUME NEW t \in Thread, CrashInCall(t) PROVE Register!Fail
  BY <1>12, CrashInInstallIsFail DEF CrashInCall, Requests
<1>13. ASSUME NEW m \in late, CrashInLate(m) PROVE Register!Fail
  BY <1>13, CrashInInstallIsFail DEF CrashInLate, Requests
<1>14. ASSUME NEW k \in Key, BeginRead(k) PROVE Register!RegisterNext
  BY <1>14, BeginReadBegins DEF Register!RegisterNext
<1>15. ASSUME NEW i \in Node, EndRead(i) PROVE Register!RegisterNext
  BY <1>15, EndReadEnds DEF Register!RegisterNext
<1>16. ASSUME UNCHANGED vars PROVE UNCHANGED <<log, commit, reading, answer>>
  BY <1>16 DEF vars, logVars, readVars
<1> QED BY <1>1, <1>2, <1>3, <1>4, <1>5, <1>6, <1>7, <1>8, <1>9, <1>10, <1>11, <1>12, <1>13,
           <1>14, <1>15, <1>16 DEF ReplayNext

\* The nodes with their logs, databases, snapshots and crashes implement one history
\* of writes: every read returns a value its key had between the read's beginning
\* and its end.
THEOREM ReplayImplementsRegister ==
    ASSUME OneThread
    PROVE  ReplaySpec => ImplementsRegister
<1>1. ReplayInit => Register!RegisterInit
  <2>1. ASSUME ReplayInit PROVE SubSeq(log, 1, commit) = <<>>
    BY <2>1 DEF ReplayInit
  <2> QED BY <2>1 DEF ReplayInit, Register!RegisterInit, Register!NoRead, Register!NoAnswer,
                  Register!Absent, NoRead, NoAnswer, Absent
<1>2. ReplayInv /\ [ReplayNext]_vars => [Register!RegisterNext]_(Register!regVars)
  BY ReplayImplementsStep
<1> QED BY <1>1, <1>2, ReplayInvHolds, PTL DEF ReplaySpec, ImplementsRegister, Register!RegisterSpec
=============================================================================
