------------------------- MODULE ClientServiceProofs -------------------------
(***************************************************************************)
(* Proofs about ClientService: whatever is given up, asked again, elected  *)
(* and crashes, for every cluster and every set of clients.                *)
(*                                                                         *)
(* The invariant speaks of two things the state does not hold: el, the     *)
(* leaders that were elected with their terms, and tl, by term, the log    *)
(* its leader had when it last led.  ServiceSound says that some el and    *)
(* tl exist for which all its parts hold.                                  *)
(***************************************************************************)
EXTENDS ClientService, FiniteSetTheorems, WellFoundedInduction, TLAPS

-----------------------------------------------------------------------------
(***************************************************************************)
(* Logs.                                                                   *)
(***************************************************************************)

Entry == [client : Client, op : Nat, term : Nat]

Ledgers == [Nat -> Seq(Entry)]

\* The first n entries of two logs are there and the same.
Agree(s, t, n) ==
    /\ n \in 0 .. Len(s)
    /\ n \in 0 .. Len(t)
    /\ \A k \in 1 .. n : s[k] = t[k]

\* The log holds an entry of term T at n.
Has(s, n, T) == n \in DOMAIN s /\ s[n].term = T

\* Every entry of s was written by the leader of its term, after the same entries.
Rooted(tl, s) == \A n \in DOMAIN s : Agree(tl[s[n].term], s, n)

\* The ledger only grows.
Extends(tl, tl2) == \A t \in Nat : Agree(tl[t], tl2[t], Len(tl[t]))

-----------------------------------------------------------------------------
(***************************************************************************)
(* The servers' part of the invariant.                                     *)
(***************************************************************************)

Calls ==
    {NoCall}
    \cup [stage : {"sent", "failed"}, to : Server, term : Nat, prev : Nat,
          log : Seq(Entry)]
    \cup [stage : {"stored", "refused"}, to : Server, sent : Nat, term : Nat,
          upto : Nat]

RaftTypes ==
    /\ up \in [Server -> BOOLEAN]
    /\ leads \in [Server -> BOOLEAN]
    /\ term \in [Server -> Nat]
    /\ log \in [Server -> Seq(Entry)]
    /\ commit \in [Server -> Nat]
    /\ next \in [Server -> [Server -> Nat \ {0}]]
    /\ match \in [Server -> [Server -> Nat]]
    /\ call \in [Server -> [Threads -> Calls]]

\* One leader per term; its voters do not go back behind its term.
ElectedInv(el) ==
    /\ el \subseteq [term : Nat, leader : Server]
    /\ \A e, f \in el : e.term = f.term => e = f
    /\ \A e \in el : Majority({p \in Server : term[p] >= e.term})
    /\ \A s \in Server : leads[s] => [term |-> term[s], leader |-> s] \in el

\* A leader's log is made of what the leaders before it wrote.
LedgerInv(el, tl) ==
    /\ tl \in Ledgers
    /\ \A t \in Nat :
        /\ Rooted(tl, tl[t])
        /\ \A n \in DOMAIN tl[t] : tl[t][n].term <= t
        /\ tl[t] # <<>> => \E e \in el : e.term = t

\* So is every log, up to the server's own term.
LogsInv(tl) ==
    \A s \in Server :
        /\ Rooted(tl, log[s])
        /\ \A n \in DOMAIN log[s] : log[s][n].term <= term[s]
        /\ leads[s] => log[s] = tl[term[s]]

\* Server p stores the first n entries of the leader of term T, or has moved on.
Stored(tl, T, p, n) ==
    /\ n \in 0 .. Len(tl[T])
    /\ n > 0 => /\ term[p] >= T
                /\ term[p] = T => Agree(log[p], tl[T], n)

\* A request carries a piece of its leader's log; who answers that it is stored has
\* stored it.
CallsInv(el, tl) ==
    \A s \in Server, h \in Threads :
        LET m == call[s][h] IN
        /\ m.stage = "sent" => /\ \E e \in el : e.term = m.term
                               /\ Agree(m.log, tl[m.term], Len(m.log))
        /\ m.stage = "stored" => m.term = m.sent /\ Stored(tl, m.sent, m.to, m.upto)

MatchInv(tl) ==
    \A s, p \in Server : leads[s] => Stored(tl, term[s], p, match[s][p])

\* Leader s knows, or is about to learn, that p stores everything up to n.
AckedBy(s, p, n) ==
    \/ n <= match[s][p]
    \/ \E h \in Threads : /\ call[s][h].stage = "stored"
                          /\ call[s][h].to = p
                          /\ call[s][h].sent = term[s]
                          /\ n <= call[s][h].upto

\* Entry (n, T) is in the log of every later leader, and in that of every server of Q
\* that has left term T.
Held(el, tl, T, n, Q) ==
    /\ \A e \in el : e.term > T => Has(tl[e.term], n, T)
    /\ \A p \in Q : term[p] > T => Has(log[p], n, T)

\* Whatever a leader may still come to commit is out of reach of every later election.
ChoosableInv(el, tl) ==
    \A s \in Server : leads[s] =>
        \A n \in Nat, Q \in SUBSET Server :
            /\ Has(tl[term[s]], n, term[s])
            /\ Majority(Q)
            /\ \A p \in Q : term[p] <= term[s] \/ AckedBy(s, p, n)
            => Held(el, tl, term[s], n, Q)

\* The entry (n, T) is stored by a majority that holds it.
Chosen(el, tl, T, n) ==
    /\ Has(tl[T], n, T)
    /\ \E Q \in SUBSET Server :
         /\ Majority(Q)
         /\ Held(el, tl, T, n, Q)
         /\ \A p \in Q : term[p] >= T /\ Has(log[p], n, T)

CommitInv(el, tl) ==
    \A s \in Server : commit[s] # 0 =>
        \E T \in Nat : /\ T <= term[s]
                       /\ Chosen(el, tl, T, commit[s])
                       /\ Has(log[s], commit[s], T)

\* What a client was told is done is below a chosen entry.
DoneAt(el, tl, d) ==
    \E T \in Nat, n \in Nat : \E x \in 1 .. n :
        /\ Chosen(el, tl, T, n)
        /\ tl[T][x].client = d.client
        /\ tl[T][x].op = d.op

DoneInv(el, tl) == \A d \in done : DoneAt(el, tl, d)

-----------------------------------------------------------------------------
(***************************************************************************)
(* The clients' part.                                                      *)
(***************************************************************************)

ClientTypes ==
    /\ work \in [Server -> [client : Client \cup {Nil}, op : Nat, left : Seq(Server)]]
    /\ \A s \in Server : work[s].left \in Seq(Server \ {s})
    /\ queue \subseteq [client : Client, op : Nat \ {0}, to : Server]
    /\ clerk \in [Client -> [op : Nat, hint : 0 .. Len(Order) - 1,
                             tries : 0 .. Len(Order), stage : {"none", "ask", "wait"}]]
    /\ \A c \in Client : clerk[c].stage # "none" => clerk[c].op # 0
    /\ \A c \in Client : clerk[c].stage = "wait" => clerk[c].tries < Len(Order)
    /\ done \subseteq [client : Client, op : Nat \ {0}]
    /\ crashed \subseteq Unsteady

\* A request in a queue is the one its client waits for.
QueuedAt(q) ==
    /\ up[q.to]
    /\ q.op = clerk[q.client].op
    /\ WaitsFor(q.client, q.to)

QueueInv == \A q \in queue : QueuedAt(q)

\* The client of a server thread at work waits for it; the thread does not lose the
\* entry it has appended.
WorkAt(s) ==
    LET c == work[s].client
        o == work[s].op
    IN /\ up[s] /\ c \in Client
       /\ o = clerk[c].op
       /\ WaitsFor(c, s)
       /\ \A q \in queue : q.client # c
       /\ Program[c][o] = "put" =>
            \E x \in DOMAIN log[s] : log[s][x].client = c /\ log[s][x].op = o

WorkInv == \A s \in Server : work[s] # Free => WorkAt(s)

\* Server s will not get operation o of client c again.
Taken(s, c, o) ==
    \/ o < clerk[c].op
    \/ o = clerk[c].op /\ clerk[c].stage = "none"
    \/ o = clerk[c].op /\ \E k \in 0 .. clerk[c].tries - 1 : Target(c, k) = s
    \/ o = clerk[c].op /\ WaitsFor(c, s) /\ \A q \in queue : q.client # c

InOrder(lg) ==
    \A x, y \in DOMAIN lg : x < y /\ lg[x].client = lg[y].client => lg[x].op <= lg[y].op

Once(lg) == \A x, y \in DOMAIN lg : x # y => lg[x] # lg[y]

OrderInv(tl) ==
    \A t \in Nat :
        /\ InOrder(tl[t])
        /\ \A n \in DOMAIN tl[t] : tl[t][n].op <= clerk[tl[t][n].client].op

OnceInv(el, tl) ==
    /\ \A t \in Nat : Once(tl[t])
    /\ \A e \in el : \A n \in DOMAIN tl[e.term] :
         tl[e.term][n].term = e.term
            => Taken(e.leader, tl[e.term][n].client, tl[e.term][n].op)

-----------------------------------------------------------------------------
RaftInv(el, tl) ==
    /\ RaftTypes
    /\ ElectedInv(el)
    /\ LedgerInv(el, tl)
    /\ LogsInv(tl)
    /\ CallsInv(el, tl)
    /\ MatchInv(tl)
    /\ ChoosableInv(el, tl)
    /\ CommitInv(el, tl)

ClientInv(el, tl) ==
    /\ ClientTypes
    /\ QueueInv
    /\ WorkInv
    /\ OrderInv(tl)
    /\ OnceInv(el, tl)
    /\ DoneInv(el, tl)

ServiceInv(el, tl) == RaftInv(el, tl) /\ ClientInv(el, tl)

ServiceSound == \E el, tl : ServiceInv(el, tl)

-----------------------------------------------------------------------------
(***************************************************************************)
(* Numbers, majorities and the order of the servers.                       *)
(***************************************************************************)

LEMMA LargestExists ==
    ASSUME NEW S \in SUBSET Nat, S # {}, NEW b \in Nat, \A x \in S : x <= b
    PROVE  \E m \in S : \A x \in S : x <= m
<1> DEFINE T == {b - x : x \in S}
<1>1. \A x \in S : b - x \in Nat
  OBVIOUS
<1>2. T \in SUBSET Nat /\ T # {}
  BY <1>1
<1>3. \E x \in T : \A y \in T : ~(<<y, x>> \in OpToRel(<, Nat))
  <2>. HIDE DEF T
  <2>. QED  BY <1>2, NatLessThanWellFounded, WFMin, Zenon
<1>4. \A x, y \in Nat : y < x => <<y, x>> \in OpToRel(<, Nat)
  <2>. SUFFICES ASSUME NEW x \in Nat, NEW y \in Nat, y < x
                PROVE  <<y, x>> \in OpToRel(<, Nat)
    OBVIOUS
  <2>1. <<y, x>>[1] < <<y, x>>[2] /\ <<y, x>> \in Nat \X Nat
    OBVIOUS
  <2>. QED  BY <2>1, Zenon DEF OpToRel
<1>5. PICK x \in T : \A y \in T : ~(y < x)
  <2>. HIDE DEF T
  <2>. QED  BY <1>2, <1>3, <1>4
<1>6. PICK m \in S : x = b - m
  BY <1>5
<1>7. ASSUME NEW y \in S
      PROVE  y <= m
  <2>1. ~(b - y < b - m)
    <3>1. b - y \in T
      OBVIOUS
    <3>. QED  BY <1>5, <1>6, <3>1
  <2>. QED  BY <2>1
<1>. QED  BY <1>7

LEMMA MajoritiesMeet ==
    ASSUME NEW S \in SUBSET Server, NEW T \in SUBSET Server, Majority(S), Majority(T)
    PROVE  S \cap T # {}
<1>1. IsFiniteSet(Server) /\ IsFiniteSet(S) /\ IsFiniteSet(T)
  BY ServiceAssumption, FS_Subset
<1>2. /\ Cardinality(Server) \in Nat /\ Len(Order) = Cardinality(Server)
      /\ Cardinality(S) \in Nat /\ Cardinality(T) \in Nat
  BY <1>1, FS_CardinalityType, ServiceAssumption
<1>3. Cardinality(S) + Cardinality(T) > Cardinality(Server)
  BY <1>2 DEF Majority
<1>. QED  BY <1>1, <1>3, FS_MajoritiesIntersect

LEMMA MajorityGrows ==
    ASSUME NEW S, NEW T \in SUBSET Server, S \subseteq T, Majority(S)
    PROVE  Majority(T)
<1>1. IsFiniteSet(T) /\ IsFiniteSet(S)
  BY ServiceAssumption, FS_Subset
<1>2. Cardinality(S) <= Cardinality(T)
  BY <1>1, FS_Subset
<1>3. Cardinality(S) \in Nat /\ Cardinality(T) \in Nat /\ Len(Order) \in Nat
  BY <1>1, FS_CardinalityType, ServiceAssumption
<1>. QED  BY <1>2, <1>3 DEF Majority

LEMMA MajorityMember ==
    ASSUME NEW Q \in SUBSET Server, Majority(Q)
    PROVE  \E p \in Q : TRUE
  BY MajoritiesMeet

LEMMA OrderLength == Len(Order) \in Nat \ {0} /\ DOMAIN Order = 1 .. Len(Order)
<1>1. Order \in Seq(Server) /\ Server # {} /\ Range(Order) = Server
  BY ServiceAssumption
<1>2. Len(Order) \in Nat /\ DOMAIN Order = 1 .. Len(Order)
  BY <1>1
<1>3. Len(Order) # 0
  <2>. SUFFICES ASSUME Len(Order) = 0 PROVE FALSE
    OBVIOUS
  <2>1. DOMAIN Order = {}
    BY <1>2
  <2>. QED  BY <1>1, <2>1 DEF Range
<1>. QED  BY <1>2, <1>3

\* Every server is in the file once.
LEMMA OrderOnce == \A x, y \in DOMAIN Order : Order[x] = Order[y] => x = y
<1>1. Order \in Surjection(DOMAIN Order, Server)
  <2>1. Order \in [DOMAIN Order -> Server]
    BY ServiceAssumption
  <2>. QED  BY <2>1, ServiceAssumption DEF Surjection, Range
<1>2. IsFiniteSet(DOMAIN Order) /\ Cardinality(DOMAIN Order) = Len(Order)
  BY OrderLength, FS_Interval
<1>3. Order \in Injection(DOMAIN Order, Server)
  BY <1>1, <1>2, ServiceAssumption, FS_SurjSameCardinalityImpliesInj
<1>. QED BY <1>3 DEF Injection, IsInjective

LEMMA ModValue ==
    ASSUME NEW N \in Nat \ {0}, NEW h \in 0 .. N - 1, NEW a \in 0 .. N - 1
    PROVE  /\ (h + a) % N \in 0 .. N - 1
           /\ h + a < N => (h + a) % N = h + a
           /\ h + a >= N => (h + a) % N = h + a - N
  OBVIOUS

\* The servers a clerk asks during one operation are all different.
LEMMA TargetsDiffer ==
    ASSUME NEW c, clerk[c].hint \in 0 .. Len(Order) - 1,
           NEW k \in Nat, NEW n \in Nat, k < n, n < Len(Order)
    PROVE  Target(c, k) \in Server /\ Target(c, k) # Target(c, n)
<1> DEFINE N == Len(Order)
           h == clerk[c].hint
<1>1. N \in Nat \ {0} /\ DOMAIN Order = 1 .. N /\ h \in 0 .. N - 1
  BY OrderLength
<1>2. k \in 0 .. N - 1 /\ n \in 0 .. N - 1
  BY <1>1
<1> HIDE DEF N, h
<1>3. /\ (h + k) % N \in 0 .. N - 1
      /\ (h + n) % N \in 0 .. N - 1
      /\ (h + k) % N # (h + n) % N
  <2>1. /\ (h + k) % N \in 0 .. N - 1
        /\ h + k < N => (h + k) % N = h + k
        /\ h + k >= N => (h + k) % N = h + k - N
    BY <1>1, <1>2, ModValue
  <2>2. /\ (h + n) % N \in 0 .. N - 1
        /\ h + n < N => (h + n) % N = h + n
        /\ h + n >= N => (h + n) % N = h + n - N
    BY <1>1, <1>2, ModValue
  <2> DEFINE a == (h + k) % N
             b == (h + n) % N
  <2> HIDE DEF a, b
  <2>3. a # b
    <3>1. /\ a \in 0 .. N - 1 /\ b \in 0 .. N - 1
          /\ h + k < N => a = h + k
          /\ h + k >= N => a = h + k - N
          /\ h + n < N => b = h + n
          /\ h + n >= N => b = h + n - N
      BY <2>1, <2>2 DEF a, b
    <3>. QED  BY <1>1, <1>2, <3>1
  <2>. QED  BY <2>1, <2>2, <2>3 DEF a, b
<1>4. /\ ((h + k) % N) + 1 \in DOMAIN Order
      /\ ((h + n) % N) + 1 \in DOMAIN Order
      /\ ((h + k) % N) + 1 # ((h + n) % N) + 1
  <2> DEFINE a == (h + k) % N
             b == (h + n) % N
  <2> HIDE DEF a, b
  <2>1. a \in 0 .. N - 1 /\ b \in 0 .. N - 1 /\ a # b
    BY <1>3 DEF a, b
  <2>2. a + 1 \in DOMAIN Order /\ b + 1 \in DOMAIN Order /\ a + 1 # b + 1
    BY <1>1, <2>1
  <2>. QED  BY <2>2 DEF a, b
<1>5. Order[((h + k) % N) + 1] # Order[((h + n) % N) + 1]
  BY <1>4, OrderOnce
<1>6. Order[((h + k) % N) + 1] \in Server
  BY <1>4, ServiceAssumption
<1>. QED  BY <1>5, <1>6 DEF Target, N, h

LEMMA TargetType ==
    ASSUME NEW c, clerk[c].hint \in 0 .. Len(Order) - 1, NEW n \in 0 .. Len(Order) - 1
    PROVE  Target(c, n) \in Server
<1> DEFINE N == Len(Order)
           h == clerk[c].hint
<1>1. N \in Nat \ {0} /\ DOMAIN Order = 1 .. N /\ h \in 0 .. N - 1 /\ n \in 0 .. N - 1
  BY OrderLength
<1> HIDE DEF N, h
<1>2. (h + n) % N \in 0 .. N - 1
  BY <1>1, ModValue
<1>3. ((h + n) % N) + 1 \in DOMAIN Order
  <2> DEFINE a == (h + n) % N
  <2> HIDE DEF a
  <2>1. a \in 0 .. N - 1
    BY <1>2 DEF a
  <2>2. a + 1 \in DOMAIN Order
    BY <1>1, <2>1
  <2>. QED  BY <2>2 DEF a
<1>. QED  BY <1>3, ServiceAssumption DEF Target, N, h

\* A server calls all the others.
LEMMA PeersType ==
    ASSUME NEW s \in Server
    PROVE  Peers(s) \in Seq(Server \ {s})
<1> DEFINE k == CHOOSE x \in DOMAIN Order : Order[x] = s
           N == Len(Order)
<1>1. \E x \in DOMAIN Order : Order[x] = s
  BY ServiceAssumption DEF Range
<1>2. k \in DOMAIN Order /\ Order[k] = s
  BY <1>1
<1> HIDE DEF k
<1>3. N \in Nat /\ DOMAIN Order = 1 .. N /\ k \in 1 .. N /\ Order \in Seq(Server)
  BY <1>2, OrderLength, ServiceAssumption
<1>4. \A x \in DOMAIN Order : x # k => Order[x] \in Server \ {s}
  BY <1>2, OrderOnce, ServiceAssumption
<1> HIDE DEF N
<1>5. SubSeq(Order, 1, k - 1) \in Seq(Server \ {s})
  <2>1. \A x \in 1 .. k - 1 : Order[x] \in Server \ {s}
    BY <1>3, <1>4
  <2>. QED  BY <1>3, <2>1
<1>6. SubSeq(Order, k + 1, N) \in Seq(Server \ {s})
  <2>1. \A x \in k + 1 .. N : Order[x] \in Server \ {s}
    BY <1>3, <1>4
  <2>. QED  BY <1>3, <2>1
<1>7. Peers(s) = SubSeq(Order, 1, k - 1) \o SubSeq(Order, k + 1, N)
  BY DEF Peers, RemoveAt, k, N
<1>. QED  BY <1>5, <1>6, <1>7

-----------------------------------------------------------------------------
(***************************************************************************)
(* Pieces of the ledger.                                                   *)
(***************************************************************************)

LEMMA SeqFacts ==
    ASSUME NEW s \in Seq(Entry)
    PROVE  /\ Len(s) \in Nat /\ DOMAIN s = 1 .. Len(s)
           /\ \A n \in DOMAIN s : s[n] \in Entry /\ s[n].term \in Nat
<1>1. Len(s) \in Nat /\ DOMAIN s = 1 .. Len(s) /\ \A n \in DOMAIN s : s[n] \in Entry
  OBVIOUS
<1>2. \A e \in Entry : e.term \in Nat
  BY DEF Entry
<1>. QED  BY <1>1, <1>2

LEMMA LedgerFacts ==
    ASSUME NEW el, NEW tl, LedgerInv(el, tl), NEW t \in Nat
    PROVE  /\ tl[t] \in Seq(Entry) /\ Len(tl[t]) \in Nat
           /\ DOMAIN tl[t] = 1 .. Len(tl[t])
           /\ \A n \in DOMAIN tl[t] : tl[t][n] \in Entry /\ tl[t][n].term \in Nat
<1>1. tl[t] \in Seq(Entry)
  BY DEF LedgerInv, Ledgers
<1>. QED  BY <1>1, SeqFacts

LEMMA RootedHas ==
    ASSUME NEW tl, NEW s, NEW n, NEW T, Rooted(tl, s), Has(s, n, T)
    PROVE  Agree(tl[T], s, n)
  BY DEF Rooted, Has

\* Terms do not decrease along a log.
LEMMA TermsRise ==
    ASSUME NEW el, NEW tl, LedgerInv(el, tl), NEW s \in Seq(Entry), Rooted(tl, s),
           NEW m \in DOMAIN s, NEW n \in 1 .. m
    PROVE  n \in DOMAIN s /\ s[n].term <= s[m].term
<1>1. /\ Len(s) \in Nat /\ DOMAIN s = 1 .. Len(s) /\ n \in DOMAIN s
      /\ s[m].term \in Nat
  BY SeqFacts
<1> DEFINE T == s[m].term
<1>2. Agree(tl[T], s, m)
  BY DEF Rooted
<1>3. n \in DOMAIN tl[T] /\ tl[T][n] = s[n]
  BY <1>1, <1>2, LedgerFacts DEF Agree
<1>4. tl[T][n].term <= T
  BY <1>1, <1>3 DEF LedgerInv
<1>. QED  BY <1>1, <1>3, <1>4

LEMMA RootedExtends ==
    ASSUME NEW el, NEW tl, NEW tl2, LedgerInv(el, tl), Extends(tl, tl2),
           NEW s \in Seq(Entry), Rooted(tl, s)
    PROVE  Rooted(tl2, s)
<1>. SUFFICES ASSUME NEW n \in DOMAIN s
              PROVE  Agree(tl2[s[n].term], s, n)
  BY DEF Rooted
<1> DEFINE T == s[n].term
<1>1. T \in Nat /\ n \in 1 .. Len(s) /\ Len(s) \in Nat
  BY SeqFacts
<1>2. Agree(tl[T], s, n) /\ Agree(tl[T], tl2[T], Len(tl[T])) /\ Len(tl[T]) \in Nat
  BY <1>1, LedgerFacts DEF Rooted, Extends
<1>. QED  BY <1>1, <1>2 DEF Agree

\* A piece of a leader's log is rooted.
LEMMA RootedPiece ==
    ASSUME NEW el, NEW tl, LedgerInv(el, tl), NEW t \in Nat, NEW s \in Seq(Entry),
           Agree(s, tl[t], Len(s))
    PROVE  /\ Rooted(tl, s)
           /\ \A n \in DOMAIN s : s[n].term <= t
<1>1. Len(s) \in Nat /\ DOMAIN s = 1 .. Len(s)
  BY SeqFacts
<1>2. \A n \in DOMAIN s : n \in DOMAIN tl[t] /\ tl[t][n] = s[n]
  BY <1>1, LedgerFacts DEF Agree
<1>3. ASSUME NEW n \in DOMAIN s
      PROVE  Agree(tl[s[n].term], s, n)
  <2>1. Agree(tl[s[n].term], tl[t], n)
    BY <1>2 DEF LedgerInv, Rooted
  <2>2. \A k \in 1 .. n : s[k] = tl[t][k]
    BY <1>1 DEF Agree
  <2>. QED  BY <1>1, <2>1, <2>2 DEF Agree
<1>. QED  BY <1>2, <1>3 DEF LedgerInv, Rooted

LEMMA HasExtends ==
    ASSUME NEW el, NEW tl, NEW tl2, LedgerInv(el, tl), Extends(tl, tl2),
           NEW t \in Nat, NEW n, NEW T, Has(tl[t], n, T), tl2[t] \in Seq(Entry)
    PROVE  Has(tl2[t], n, T)
<1>1. /\ n \in 1 .. Len(tl[t]) /\ Len(tl[t]) \in Nat
      /\ DOMAIN tl2[t] = 1 .. Len(tl2[t])
  BY LedgerFacts, SeqFacts DEF Has
<1>2. Agree(tl[t], tl2[t], Len(tl[t]))
  BY DEF Extends
<1>. QED  BY <1>1, <1>2 DEF Agree, Has

LEMMA PrefixMeans ==
    ASSUME NEW s \in Seq(Entry), NEW t \in Seq(Entry)
    PROVE  IsPrefix(s, t) <=> Agree(s, t, Len(s))
<1>1. Len(s) \in Nat /\ Len(t) \in Nat /\ DOMAIN s = 1 .. Len(s) /\ DOMAIN t = 1 .. Len(t)
  BY SeqFacts
<1>2. IsPrefix(s, t) <=> Len(s) <= Len(t) /\ SubSeq(s, 1, Len(s)) = SubSeq(t, 1, Len(s))
  BY DEF IsPrefix
<1>3. ASSUME Len(s) <= Len(t)
      PROVE  SubSeq(s, 1, Len(s)) = SubSeq(t, 1, Len(s))
               <=> \A k \in 1 .. Len(s) : s[k] = t[k]
  <2> DEFINE a == SubSeq(s, 1, Len(s))
             b == SubSeq(t, 1, Len(s))
  <2>1. /\ a \in Seq(Entry) /\ b \in Seq(Entry)
        /\ Len(a) = Len(s) /\ Len(b) = Len(s)
        /\ \A k \in 1 .. Len(s) : a[k] = s[k] /\ b[k] = t[k]
    BY <1>1, <1>3
  <2> HIDE DEF a, b
  <2>2. (\A k \in 1 .. Len(s) : a[k] = b[k]) => a = b
    BY <2>1
  <2>3. a = b <=> \A k \in 1 .. Len(s) : s[k] = t[k]
    BY <2>1, <2>2
  <2>. QED  BY <2>3 DEF a, b
<1>. QED  BY <1>1, <1>2, <1>3 DEF Agree

\* A candidate with a log as up to date as p's has what p has.
LEMMA UpToDateHas ==
    ASSUME NEW el, NEW tl, LedgerInv(el, tl), LogsInv(tl), RaftTypes,
           NEW l \in Server, NEW p \in Server, UpToDate(l, p),
           NEW n \in Nat, NEW T \in Nat, Has(tl[T], n, T), Has(log[p], n, T),
           \A e \in el : e.term > T => Has(tl[e.term], n, T)
    PROVE  Has(log[l], n, T)
<1>1. /\ log[l] \in Seq(Entry) /\ log[p] \in Seq(Entry)
      /\ Rooted(tl, log[l]) /\ Rooted(tl, log[p])
  BY DEF RaftTypes, LogsInv
<1>2. /\ Len(log[l]) \in Nat /\ DOMAIN log[l] = 1 .. Len(log[l])
      /\ Len(log[p]) \in Nat /\ DOMAIN log[p] = 1 .. Len(log[p])
      /\ \A k \in DOMAIN log[l] : log[l][k].term \in Nat
      /\ \A k \in DOMAIN log[p] : log[p][k].term \in Nat
  BY <1>1, SeqFacts
<1>3. n \in 1 .. Len(log[p]) /\ log[p][n].term = T
  BY <1>2 DEF Has
<1>4. LastTerm(p) = log[p][Len(log[p])].term /\ LastTerm(p) \in Nat /\ LastTerm(p) >= T
  <2>1. log[p] # <<>> /\ Len(log[p]) \in DOMAIN log[p] /\ n \in 1 .. Len(log[p])
    BY <1>2, <1>3
  <2>2. log[p][n].term <= log[p][Len(log[p])].term
    BY <1>1, <2>1, TermsRise
  <2>. QED  BY <1>2, <1>3, <2>1, <2>2 DEF LastTerm
<1> DEFINE L == Len(log[l])
           U == log[l][L].term
<1>5. /\ L \in DOMAIN log[l] /\ U \in Nat /\ U = LastTerm(l)
      /\ U > LastTerm(p) \/ (U = LastTerm(p) /\ L >= Len(log[p]))
  <2>1. CASE log[l] = <<>>
    <3>1. LastTerm(l) = 0 /\ L = 0
      BY <2>1 DEF LastTerm
    <3>. QED  BY <1>2, <1>3, <1>4, <3>1 DEF UpToDate
  <2>2. CASE log[l] # <<>>
    <3>1. L \in DOMAIN log[l]
      BY <1>1, <1>2, <2>2
    <3>2. LastTerm(l) = U
      BY <2>2 DEF LastTerm
    <3>. QED  BY <1>2, <3>1, <3>2 DEF UpToDate
  <2>. QED  BY <2>1, <2>2
<1>6. Agree(tl[U], log[l], L)
  BY <1>1, <1>5 DEF Rooted
<1> HIDE DEF U, L
<1>7. CASE U = T
  <2>1. LastTerm(p) = T /\ L >= Len(log[p])
    BY <1>4, <1>5, <1>7
  <2>2. n \in 1 .. L
    BY <1>2, <1>3, <1>5, <2>1 DEF L
  <2>3. log[l][n] = tl[T][n]
    BY <1>6, <1>7, <2>2 DEF Agree
  <2>. QED  BY <1>2, <2>2, <2>3 DEF Has, L
<1>8. CASE U # T
  <2>1. U > T
    BY <1>4, <1>5, <1>8
  <2>2. Has(tl[U], n, T)
    <3>1. L \in DOMAIN tl[U] /\ L >= 1
      BY <1>2, <1>5, <1>6, LedgerFacts DEF Agree, L
    <3>2. tl[U] # <<>>
      BY <3>1
    <3>3. \E e \in el : e.term = U
      BY <1>5, <3>2 DEF LedgerInv
    <3>. QED  BY <2>1, <3>3
  <2>3. n <= L
    <3>. SUFFICES ASSUME L < n PROVE FALSE
      BY <1>2, <1>5 DEF L
    <3>1. n \in DOMAIN tl[U] /\ L \in 1 .. n /\ tl[U] \in Seq(Entry) /\ Rooted(tl, tl[U])
      BY SMTT(30), <1>2, <1>5, <2>2, LedgerFacts DEF Has, L, LedgerInv
    <3>2. tl[U][L].term <= tl[U][n].term
      BY <3>1, TermsRise
    <3>3. tl[U][L] = log[l][L] /\ log[l][L].term = U
      BY <1>2, <1>5, <1>6 DEF Agree, U, L
    <3>. QED  BY <1>5, <2>1, <2>2, <3>2, <3>3 DEF Has
  <2>4. n \in 1 .. L /\ log[l][n] = tl[U][n]
    BY <1>3, <1>6, <2>3 DEF Agree
  <2>. QED  BY <1>2, <2>2, <2>4 DEF Has, L
<1>. QED  BY <1>7, <1>8

-----------------------------------------------------------------------------
(***************************************************************************)
(* What one step does to terms, logs and leaders.                          *)
(***************************************************************************)

\* A log stays, a leader appends to it, or a request of an elected leader replaces it.
LogChange(el, tl, tl2, p) ==
    \/ log'[p] = log[p]
    \/ leads[p] /\ term'[p] = term[p] /\ log'[p] = tl2[term[p]]
    \/ /\ \E e \in el : e.term = term'[p]
       /\ Agree(log'[p], tl[term'[p]], Len(log'[p]))
       /\ ~IsPrefix(log'[p], log[p])

Wins(el, tl2, el2, l, Q, t) ==
    /\ el2 = el \cup {[term |-> t, leader |-> l]}
    /\ Majority(Q)
    /\ l \in Q
    /\ tl2[t] = log[l]
    /\ log' = log
    /\ \A p \in Q : t > term[p] /\ term'[p] = t /\ UpToDate(l, p)

ElectFacts(el, tl2, el2) ==
    \/ el2 = el
    \/ \E l \in Server, Q \in SUBSET Server, t \in Nat : Wins(el, tl2, el2, l, Q, t)

GhostStep(el, tl, el2, tl2) ==
    /\ ElectFacts(el, tl2, el2)
    /\ LedgerInv(el2, tl2)
    /\ Extends(tl, tl2)
    /\ term' \in [Server -> Nat]
    /\ log' \in [Server -> Seq(Entry)]
    /\ \A p \in Server : term[p] <= term'[p]
    /\ \A p \in Server : LogChange(el, tl, tl2, p)

\* Who leads after a step did so before, in the same term, or has just won.
LeadFacts(el2, tl2) ==
    \A s \in Server : leads'[s] =>
        /\ [term |-> term'[s], leader |-> s] \in el2
        /\ log'[s] = tl2[term'[s]]
        /\ \/ leads[s] /\ term'[s] = term[s]
           \/ /\ term[s] < term'[s]
              /\ log'[s] = log[s]
              /\ \A p \in Server : match'[s][p] = 0

\* Stored, in the state after the step.
StoredAfter(tl, T, p, n) ==
    /\ n \in 0 .. Len(tl[T])
    /\ n > 0 => /\ term'[p] >= T
                /\ term'[p] = T => Agree(log'[p], tl[T], n)

\* Held and Chosen, in the state after the step.
HeldAfter(el, tl, T, n, Q) ==
    /\ \A e \in el : e.term > T => Has(tl[e.term], n, T)
    /\ \A p \in Q : term'[p] > T => Has(log'[p], n, T)

ChosenAfter(el, tl, T, n) ==
    /\ Has(tl[T], n, T)
    /\ \E Q \in SUBSET Server :
         /\ Majority(Q)
         /\ HeldAfter(el, tl, T, n, Q)
         /\ \A p \in Q : term'[p] >= T /\ Has(log'[p], n, T)

\* Requests are built by leaders from their logs, answers tell what is stored.
CallFacts(tl2) ==
    \A s \in Server, h \in Threads :
        LET m == call'[s][h] IN
        m.stage \in {"sent", "stored"} =>
            \/ m = call[s][h]
            \/ m.stage = "sent" /\ leads[s] /\ m.term = term[s] /\ m.log = log[s]
            \/ m.stage = "stored" /\ m.term = m.sent /\ StoredAfter(tl2, m.sent, m.to, m.upto)

\* What a leader newly has an answer for was stored by a server of its term or before.
AckFacts ==
    \A s, p \in Server : \A n \in Nat :
        leads[s] /\ leads'[s] /\ term'[s] = term[s] /\ AckedBy(s, p, n)'
            => \/ AckedBy(s, p, n)
               \/ n = 0
               \/ term[p] <= term[s] /\ term'[p] = term[s]

MatchFacts ==
    \A s, p \in Server :
        leads[s] /\ leads'[s] /\ term'[s] = term[s]
            => match'[s][p] = 0 \/ AckedBy(s, p, match'[s][p])

CommitFacts ==
    \A s \in Server :
        \/ commit'[s] \in {0, commit[s]}
        \/ /\ leads[s] /\ UNCHANGED <<term, log>>
           /\ Has(log[s], commit'[s], term[s])
           /\ Majority({s} \cup {p \in Server : match[s][p] >= commit'[s]})

RaftStep(el, tl, el2, tl2) ==
    /\ RaftTypes'
    /\ GhostStep(el, tl, el2, tl2)
    /\ LeadFacts(el2, tl2)
    /\ CallFacts(tl2)
    /\ AckFacts
    /\ MatchFacts
    /\ CommitFacts

LEMMA ElectedStep ==
    ASSUME NEW el, NEW tl, NEW el2, NEW tl2, RaftTypes, ElectedInv(el),
           GhostStep(el, tl, el2, tl2), LeadFacts(el2, tl2)
    PROVE  /\ ElectedInv(el2)'
           /\ el \subseteq el2
           /\ \A e \in el2 \ el : \A f \in el : f.term # e.term
<1> DEFINE Back(t) == {p \in Server : term[p] >= t}
           Ahead(t) == {p \in Server : term'[p] >= t}
<1>1. ASSUME NEW t \in Nat, Majority(Back(t))
      PROVE  Majority(Ahead(t))
  <2>1. Back(t) \subseteq Ahead(t)
    BY DEF GhostStep, RaftTypes
  <2>. QED  BY <1>1, <2>1, MajorityGrows
<1>2. \A e \in el : e.term \in Nat /\ Majority(Back(e.term))
  BY DEF ElectedInv
<1>3. \A e \in el : Majority(Ahead(e.term))
  BY <1>1, <1>2
<1>4. CASE el2 = el
  BY <1>3, <1>4 DEF ElectedInv, LeadFacts
<1>5. ASSUME NEW l \in Server, NEW Q \in SUBSET Server, NEW t \in Nat,
             Wins(el, tl2, el2, l, Q, t)
      PROVE  /\ ElectedInv(el2)'
             /\ el \subseteq el2
             /\ \A e \in el2 \ el : \A f \in el : f.term # e.term
  <2> DEFINE new == [term |-> t, leader |-> l]
  <2>1. el2 = el \cup {new} /\ new \in [term : Nat, leader : Server]
    BY <1>5 DEF Wins
  <2>2. ASSUME NEW f \in el
        PROVE  f.term # t
    <3>1. PICK p \in Back(f.term) \cap Q : TRUE
      BY <1>2, <1>5, MajoritiesMeet DEF Wins
    <3>2. t > term[p] /\ term[p] >= f.term /\ term[p] \in Nat
      BY <1>5, <3>1 DEF Wins, RaftTypes
    <3>. QED  BY <1>2, <3>2
  <2>3. Majority(Ahead(t))
    <3>1. Q \subseteq Ahead(t)
      BY <1>5 DEF Wins
    <3>. QED  BY <1>5, <3>1, MajorityGrows DEF Wins
  <2>4. \A e \in el2 : Majority(Ahead(e.term))
    BY SMTT(30), <1>3, <2>1, <2>3
  <2>5. \A e, f \in el2 : e.term = f.term => e = f
    BY <2>1, <2>2 DEF ElectedInv
  <2>6. el2 \subseteq [term : Nat, leader : Server]
    BY <2>1 DEF ElectedInv
  <2>. QED  BY <2>1, <2>2, <2>4, <2>5, <2>6 DEF ElectedInv, LeadFacts
<1>. QED  BY <1>4, <1>5 DEF GhostStep, ElectFacts

LEMMA LogsStep ==
    ASSUME NEW el, NEW tl, NEW el2, NEW tl2, RaftTypes, LedgerInv(el, tl), LogsInv(tl),
           GhostStep(el, tl, el2, tl2), LeadFacts(el2, tl2)
    PROVE  LogsInv(tl2)'
<1>. SUFFICES ASSUME NEW s \in Server
              PROVE  /\ Rooted(tl2, log'[s])
                     /\ \A n \in DOMAIN log'[s] : log'[s][n].term <= term'[s]
                     /\ leads'[s] => log'[s] = tl2[term'[s]]
  BY DEF LogsInv
<1>1. /\ log[s] \in Seq(Entry) /\ log'[s] \in Seq(Entry)
      /\ term[s] \in Nat /\ term'[s] \in Nat /\ term[s] <= term'[s]
  BY DEF RaftTypes, GhostStep
<1>2. leads'[s] => log'[s] = tl2[term'[s]]
  BY DEF LeadFacts
<1>3. CASE log'[s] = log[s]
  <2>1. Rooted(tl2, log[s])
    BY <1>1, RootedExtends DEF GhostStep, LogsInv
  <2>2. \A n \in DOMAIN log[s] : log[s][n].term \in Nat /\ log[s][n].term <= term[s]
    BY <1>1, SeqFacts DEF LogsInv
  <2>. QED  BY <1>1, <1>2, <1>3, <2>1, <2>2
<1>4. CASE leads[s] /\ term'[s] = term[s] /\ log'[s] = tl2[term[s]]
  BY <1>1, <1>2, <1>4 DEF GhostStep, LedgerInv
<1>5. CASE Agree(log'[s], tl[term'[s]], Len(log'[s]))
  <2>1. Rooted(tl, log'[s]) /\ \A n \in DOMAIN log'[s] : log'[s][n].term <= term'[s]
    BY <1>1, <1>5, RootedPiece
  <2>2. Rooted(tl2, log'[s])
    BY <1>1, <2>1, RootedExtends DEF GhostStep
  <2>. QED  BY <1>2, <2>1, <2>2
<1>. QED  BY <1>3, <1>4, <1>5 DEF GhostStep, LogChange

\* An entry stays in a log if the leader who is obeyed has it.
LEMMA LogKeeps ==
    ASSUME NEW el, NEW tl, NEW el2, NEW tl2, RaftTypes, LedgerInv(el, tl), LogsInv(tl),
           GhostStep(el, tl, el2, tl2), NEW p \in Server, NEW n \in Nat, NEW T \in Nat,
           Has(log[p], n, T), Has(tl[T], n, T),
           (\E e \in el : e.term = term'[p]) => Has(tl[term'[p]], n, T)
    PROVE  Has(log'[p], n, T)
<1>1. /\ log[p] \in Seq(Entry) /\ log'[p] \in Seq(Entry)
      /\ term[p] \in Nat /\ term'[p] \in Nat
      /\ Rooted(tl, log[p])
  BY DEF RaftTypes, GhostStep, LogsInv
<1>2. CASE log'[p] = log[p]
  BY <1>2
<1>3. CASE leads[p] /\ term'[p] = term[p] /\ log'[p] = tl2[term[p]]
  <2>1. Has(tl[term[p]], n, T)
    BY <1>3 DEF LogsInv
  <2>2. tl2[term[p]] \in Seq(Entry)
    BY <1>1, <1>3
  <2>. QED  BY <1>1, <1>3, <2>1, <2>2, HasExtends DEF GhostStep
<1>4. CASE /\ \E e \in el : e.term = term'[p]
           /\ Agree(log'[p], tl[term'[p]], Len(log'[p]))
           /\ ~IsPrefix(log'[p], log[p])
  <2> DEFINE new == log'[p]
             U == term'[p]
  <2>1. Has(tl[U], n, T) /\ tl[U] \in Seq(Entry) /\ Rooted(tl, tl[U])
    BY <1>1, <1>4, LedgerFacts DEF LedgerInv
  <2>2. Agree(tl[T], tl[U], n) /\ Agree(tl[T], log[p], n)
    BY <1>1, <2>1, RootedHas
  <2>3. /\ Len(new) \in Nat /\ DOMAIN new = 1 .. Len(new)
        /\ Len(log[p]) \in Nat /\ DOMAIN log[p] = 1 .. Len(log[p])
        /\ n \in 1 .. Len(log[p])
    BY <1>1, SeqFacts DEF Has
  <2>4. Len(new) >= n
    <3>. SUFFICES ASSUME Len(new) < n PROVE FALSE
      BY <2>3
    <3>1. Agree(new, log[p], Len(new))
      BY SMTT(30), <1>4, <2>2, <2>3 DEF Agree
    <3>. QED  BY <1>1, <1>4, <3>1, PrefixMeans
  <2>5. n \in 1 .. Len(new) /\ new[n] = tl[U][n]
    BY <1>4, <2>3, <2>4 DEF Agree
  <2>. QED  BY <2>1, <2>3, <2>5 DEF Has
<1>. QED  BY <1>2, <1>3, <1>4 DEF GhostStep, LogChange

LEMMA StoredStep ==
    ASSUME NEW el, NEW tl, NEW el2, NEW tl2, RaftTypes, LedgerInv(el, tl), LogsInv(tl),
           GhostStep(el, tl, el2, tl2), NEW p \in Server, NEW T \in Nat, NEW n,
           Stored(tl, T, p, n)
    PROVE  StoredAfter(tl2, T, p, n)
<1>1. /\ log[p] \in Seq(Entry) /\ log'[p] \in Seq(Entry)
      /\ term[p] \in Nat /\ term'[p] \in Nat /\ term[p] <= term'[p]
      /\ Len(log'[p]) \in Nat /\ Len(log[p]) \in Nat
  BY SeqFacts DEF RaftTypes, GhostStep
<1>2. /\ tl[T] \in Seq(Entry) /\ Len(tl[T]) \in Nat
      /\ tl2[T] \in Seq(Entry) /\ Len(tl2[T]) \in Nat
      /\ Agree(tl[T], tl2[T], Len(tl[T]))
  BY LedgerFacts DEF GhostStep, Extends
<1>3. n \in 0 .. Len(tl2[T])
  BY <1>2 DEF Stored, Agree
<1>4. CASE n > 0 /\ term'[p] = T
  <2>1. term[p] = T /\ Agree(log[p], tl[T], n) /\ n \in Nat
    BY <1>1, <1>2, <1>4 DEF Stored
  <2>2. Agree(log[p], tl2[T], n)
    BY SMTT(30), <1>2, <2>1 DEF Agree
  <2>3. Agree(log'[p], tl2[T], n)
    <3>1. CASE log'[p] = log[p]
      BY <2>2, <3>1
    <3>2. CASE log'[p] = tl2[term[p]]
      BY <1>2, <1>3, <2>1, <3>2 DEF Agree
    <3>3. CASE Agree(log'[p], tl[term'[p]], Len(log'[p])) /\ ~IsPrefix(log'[p], log[p])
      <4>1. Agree(log'[p], tl[T], Len(log'[p]))
        BY <1>4, <3>3
      <4>2. Len(log'[p]) >= n
        <5>. SUFFICES ASSUME Len(log'[p]) < n PROVE FALSE
          BY <1>1, <2>1
        <5>1. Agree(log'[p], log[p], Len(log'[p]))
          BY <1>1, <2>1, <4>1 DEF Agree
        <5>. QED  BY <1>1, <3>3, <5>1, PrefixMeans
      <4>. QED  BY SMTT(30), <1>1, <1>2, <2>1, <4>1, <4>2 DEF Agree
    <3>. QED  BY <3>1, <3>2, <3>3 DEF GhostStep, LogChange
  <2>. QED  BY <1>1, <1>3, <1>4, <2>3 DEF StoredAfter
<1>5. CASE ~(n > 0 /\ term'[p] = T)
  <2>1. n > 0 => term'[p] >= T
    BY <1>1 DEF Stored
  <2>. QED  BY <1>3, <1>5, <2>1 DEF StoredAfter
<1>. QED  BY <1>4, <1>5

\* Who has told a leader that it stores an entry of the leader's term has it.
LEMMA StoredHas ==
    ASSUME NEW el, NEW tl, RaftTypes, LedgerInv(el, tl), NEW p \in Server, NEW T \in Nat,
           NEW n \in Nat, NEW k \in Nat, n <= k, Stored(tl, T, p, k), Has(tl[T], n, T),
           term[p] <= T
    PROVE  Has(log[p], n, T) /\ term[p] = T
<1>1. n \in 1 .. Len(tl[T]) /\ k > 0 /\ term[p] = T /\ Agree(log[p], tl[T], k)
  BY LedgerFacts DEF Has, Stored, RaftTypes
<1>2. log[p] \in Seq(Entry)
  BY DEF RaftTypes
<1>3. n \in 1 .. k /\ n \in 1 .. Len(log[p]) /\ log[p][n] = tl[T][n]
  BY <1>1, <1>2, SeqFacts DEF Agree
<1>. QED  BY <1>1, <1>2, <1>3, SeqFacts DEF Has

-----------------------------------------------------------------------------
(***************************************************************************)
(* What is held stays held, what is chosen stays chosen.                   *)
(***************************************************************************)

LEMMA HeldStep ==
    ASSUME NEW el, NEW tl, NEW el2, NEW tl2, RaftTypes, ElectedInv(el),
           LedgerInv(el, tl), LogsInv(tl), GhostStep(el, tl, el2, tl2),
           NEW T \in Nat, NEW n \in Nat, NEW Q \in SUBSET Server, Majority(Q),
           Has(tl[T], n, T), Held(el, tl, T, n, Q),
           \A p \in Q : term'[p] > T /\ term[p] <= T => Has(log[p], n, T)
    PROVE  HeldAfter(el2, tl2, T, n, Q)
<1>1. \A p \in Q : term[p] \in Nat /\ term'[p] \in Nat /\ term[p] <= term'[p]
  BY DEF RaftTypes, GhostStep
<1>2. \A p \in Q : term'[p] > T => Has(log[p], n, T)
  BY <1>1 DEF Held
<1>3. \A e \in el : e.term \in Nat /\ (e.term > T => Has(tl[e.term], n, T))
  BY DEF ElectedInv, Held
<1>4. ASSUME NEW e \in el, e.term > T
      PROVE  Has(tl2[e.term], n, T)
  <2>1. tl2[e.term] \in Seq(Entry)
    BY <1>3, LedgerFacts DEF GhostStep
  <2>. QED  BY <1>3, <1>4, <2>1, HasExtends DEF GhostStep
<1>5. ASSUME NEW e \in el2, e.term > T
      PROVE  Has(tl2[e.term], n, T)
  <2>1. CASE el2 = el
    BY <1>4, <1>5, <2>1
  <2>2. ASSUME NEW l \in Server, NEW R \in SUBSET Server, NEW t \in Nat,
               Wins(el, tl2, el2, l, R, t), e \notin el
        PROVE  Has(tl2[e.term], n, T)
    <3>1. e.term = t /\ tl2[t] = log[l]
      BY <2>2 DEF Wins
    <3>2. PICK p \in Q \cap R : TRUE
      BY <2>2, MajoritiesMeet DEF Wins
    <3>3. Has(log[p], n, T) /\ UpToDate(l, p)
      BY <1>2, <1>5, <2>2, <3>1, <3>2 DEF Wins
    <3>4. Has(log[l], n, T)
      BY <1>3, <3>2, <3>3, UpToDateHas
    <3>. QED  BY <3>1, <3>4
  <2>. QED  BY <1>4, <1>5, <2>1, <2>2 DEF GhostStep, ElectFacts
<1>6. ASSUME NEW p \in Q, term'[p] > T
      PROVE  Has(log'[p], n, T)
  <2>1. Has(log[p], n, T)
    BY <1>2, <1>6
  <2>2. (\E e \in el : e.term = term'[p]) => Has(tl[term'[p]], n, T)
    BY <1>3, <1>6
  <2>. QED  BY <2>1, <2>2, LogKeeps
<1>. QED  BY <1>5, <1>6 DEF HeldAfter

\* A server with an entry that is held everywhere later keeps it.
LEMMA HolderKeeps ==
    ASSUME NEW el, NEW tl, NEW el2, NEW tl2, RaftTypes, ElectedInv(el),
           LedgerInv(el, tl), LogsInv(tl), GhostStep(el, tl, el2, tl2),
           NEW T \in Nat, NEW n \in Nat, NEW p \in Server,
           Has(tl[T], n, T), \A e \in el : e.term > T => Has(tl[e.term], n, T),
           term[p] >= T, Has(log[p], n, T)
    PROVE  Has(log'[p], n, T)
<1>1. term[p] \in Nat /\ term'[p] \in Nat /\ term[p] <= term'[p]
  BY DEF RaftTypes, GhostStep
<1>2. (\E e \in el : e.term = term'[p]) => Has(tl[term'[p]], n, T)
  <2>1. term'[p] = T \/ term'[p] > T
    BY <1>1
  <2>. QED  BY <2>1
<1>. QED  BY <1>2, LogKeeps

LEMMA ChosenStep ==
    ASSUME NEW el, NEW tl, NEW el2, NEW tl2, RaftTypes, ElectedInv(el),
           LedgerInv(el, tl), LogsInv(tl), GhostStep(el, tl, el2, tl2),
           NEW T \in Nat, NEW n \in Nat, Chosen(el, tl, T, n)
    PROVE  ChosenAfter(el2, tl2, T, n)
<1>1. PICK Q \in SUBSET Server :
        /\ Majority(Q)
        /\ Held(el, tl, T, n, Q)
        /\ \A p \in Q : term[p] >= T /\ Has(log[p], n, T)
  BY DEF Chosen
<1>2. Has(tl[T], n, T)
  BY DEF Chosen
<1>3. HeldAfter(el2, tl2, T, n, Q)
  BY <1>1, <1>2, HeldStep
<1>4. ASSUME NEW p \in Q
      PROVE  term'[p] >= T /\ Has(log'[p], n, T)
  <2>1. Has(log'[p], n, T)
    BY <1>1, <1>2, HolderKeeps DEF Held
  <2>2. term[p] \in Nat /\ term'[p] \in Nat /\ term[p] <= term'[p] /\ term[p] >= T
    BY <1>1 DEF RaftTypes, GhostStep
  <2>. QED  BY <2>1, <2>2
<1>5. Has(tl2[T], n, T)
  <2>1. tl2[T] \in Seq(Entry)
    BY LedgerFacts DEF GhostStep
  <2>. QED  BY <1>2, <2>1, HasExtends DEF GhostStep
<1>. QED  BY <1>1, <1>3, <1>4, <1>5 DEF ChosenAfter

LEMMA AckedIsStored ==
    ASSUME NEW el, NEW tl, RaftTypes, CallsInv(el, tl), MatchInv(tl),
           NEW s \in Server, leads[s], NEW p \in Server, NEW n \in Nat, AckedBy(s, p, n)
    PROVE  \E k \in Nat : n <= k /\ Stored(tl, term[s], p, k)
<1>1. CASE n <= match[s][p]
  BY <1>1 DEF MatchInv, RaftTypes
<1>2. ASSUME NEW h \in Threads, call[s][h].stage = "stored", call[s][h].to = p,
             call[s][h].sent = term[s], n <= call[s][h].upto
      PROVE  \E k \in Nat : n <= k /\ Stored(tl, term[s], p, k)
  <2>1. call[s][h] \in Calls
    BY DEF RaftTypes
  <2>2. call[s][h].upto \in Nat
    BY <1>2, <2>1 DEF Calls, NoCall
  <2>. QED  BY <1>2, <2>2 DEF CallsInv
<1>. QED  BY <1>1, <1>2 DEF AckedBy

LEMMA ChoosableStep ==
    ASSUME NEW el, NEW tl, NEW el2, NEW tl2, RaftInv(el, tl), RaftStep(el, tl, el2, tl2)
    PROVE  ChoosableInv(el2, tl2)'
<1>. SUFFICES ASSUME NEW s \in Server, leads'[s], NEW n \in Nat, NEW Q \in SUBSET Server,
                     Has(tl2[term'[s]], n, term'[s]), Majority(Q),
                     \A p \in Q : term'[p] <= term'[s] \/ AckedBy(s, p, n)'
              PROVE  HeldAfter(el2, tl2, term'[s], n, Q)
  BY DEF ChoosableInv, Held, HeldAfter
<1> DEFINE T == term'[s]
<1>0. /\ RaftTypes /\ ElectedInv(el) /\ LedgerInv(el, tl) /\ LogsInv(tl)
      /\ CallsInv(el, tl) /\ MatchInv(tl) /\ ChoosableInv(el, tl)
      /\ GhostStep(el, tl, el2, tl2) /\ LeadFacts(el2, tl2) /\ AckFacts
  BY DEF RaftInv, RaftStep
<1>1. /\ T \in Nat /\ term[s] \in Nat
      /\ tl[T] \in Seq(Entry) /\ Len(tl[T]) \in Nat /\ DOMAIN tl[T] = 1 .. Len(tl[T])
      /\ \A p \in Q : term[p] \in Nat /\ term'[p] \in Nat /\ term[p] <= term'[p]
  BY <1>0, LedgerFacts DEF RaftTypes, GhostStep
<1>2. leads[s] /\ term[s] = T
  <2>. SUFFICES ASSUME ~(leads[s] /\ term[s] = T) PROVE FALSE
    OBVIOUS
  <2>1. term[s] < T /\ tl2[T] = log[s]
    BY <1>0 DEF LeadFacts
  <2>2. log[s][n].term = T /\ n \in DOMAIN log[s]
    BY <2>1 DEF Has
  <2>3. log[s][n].term <= term[s]
    BY <1>0, <2>2 DEF LogsInv
  <2>. QED  BY <1>1, <2>1, <2>2, <2>3
<1>3. \A p \in Q : term'[p] <= T \/ AckedBy(s, p, n)
  <2>. SUFFICES ASSUME NEW p \in Q, ~(term'[p] <= T)
                PROVE  AckedBy(s, p, n)
    OBVIOUS
  <2>1. AckedBy(s, p, n)'
    OBVIOUS
  <2>2. \/ AckedBy(s, p, n) \/ n = 0
        \/ term[p] <= term[s] /\ term'[p] = term[s]
    BY <1>0, <1>2, <2>1 DEF AckFacts
  <2>3. n # 0
    <3>1. tl2[T] \in Seq(Entry)
      BY <1>0, <1>1, LedgerFacts DEF GhostStep
    <3>. QED  BY <3>1, SeqFacts DEF Has
  <2>. QED  BY <1>1, <1>2, <2>2, <2>3
<1> HIDE DEF T
<1>4. CASE Has(tl[T], n, T)
  <2>1. Held(el, tl, T, n, Q)
    <3>1. \A p \in Q : term[p] <= T \/ AckedBy(s, p, n)
      BY <1>1, <1>3
    <3>. QED  BY <1>0, <1>2, <1>4, <3>1 DEF ChoosableInv
  <2>2. ASSUME NEW p \in Q, term'[p] > T, term[p] <= T
        PROVE  Has(log[p], n, T)
    <3>1. AckedBy(s, p, n)
      BY <1>1, <1>3, <2>2
    <3>2. PICK k \in Nat : n <= k /\ Stored(tl, T, p, k)
      BY <1>0, <1>2, <3>1, AckedIsStored
    <3>. QED  BY <1>0, <1>1, <1>4, <2>2, <3>2, StoredHas
  <2>3. HeldAfter(el2, tl2, T, n, Q)
    BY <1>0, <1>1, <1>4, <2>1, <2>2, HeldStep
  <2>. QED  BY <2>3 DEF T
<1>5. CASE ~Has(tl[T], n, T)
  <2>1. n \notin DOMAIN tl[T]
    <3>. SUFFICES ASSUME n \in DOMAIN tl[T] PROVE FALSE
      OBVIOUS
    <3>1. Agree(tl[T], tl2[T], Len(tl[T]))
      BY <1>0, <1>1 DEF GhostStep, Extends
    <3>2. tl2[T][n] = tl[T][n]
      BY <1>1, <3>1 DEF Agree
    <3>. QED  BY <1>5, <3>2 DEF Has, T
  <2>2. \A p \in Q : term'[p] <= T
    <3>. SUFFICES ASSUME NEW p \in Q, ~(term'[p] <= T) PROVE FALSE
      OBVIOUS
    <3>1. PICK k \in Nat : n <= k /\ Stored(tl, T, p, k)
      BY <1>0, <1>2, <1>3, AckedIsStored
    <3>2. n \in 0 .. Len(tl[T])
      BY <1>1, <3>1 DEF Stored
    <3>3. n # 0
      <4>1. tl2[T] \in Seq(Entry)
        BY <1>0, <1>1, LedgerFacts DEF GhostStep
      <4>. QED  BY <4>1, SeqFacts DEF Has, T
    <3>. QED  BY <1>1, <2>1, <3>2, <3>3
  <2>3. ASSUME NEW e \in el2
        PROVE  ~(e.term > T)
    <3>1. ElectedInv(el2)'
      BY <1>0, ElectedStep
    <3>2. PICK p \in {r \in Server : term'[r] >= e.term} \cap Q : TRUE
      BY <3>1, MajoritiesMeet DEF ElectedInv
    <3>3. e.term \in Nat
      BY <3>1 DEF ElectedInv
    <3>. QED  BY <1>1, <2>2, <3>2, <3>3
  <2>4. \A p \in Q : ~(term'[p] > T)
    BY <1>1, <2>2
  <2>. QED  BY <2>3, <2>4 DEF HeldAfter, T
<1>. QED  BY <1>4, <1>5

LEMMA MatchStep ==
    ASSUME NEW el, NEW tl, NEW el2, NEW tl2, RaftInv(el, tl), RaftStep(el, tl, el2, tl2)
    PROVE  MatchInv(tl2)'
<1>. SUFFICES ASSUME NEW s \in Server, NEW p \in Server, leads'[s]
              PROVE  StoredAfter(tl2, term'[s], p, match'[s][p])
  BY DEF MatchInv, Stored, StoredAfter
<1>0. /\ RaftTypes /\ RaftTypes' /\ LedgerInv(el, tl) /\ LogsInv(tl)
      /\ CallsInv(el, tl) /\ MatchInv(tl)
      /\ GhostStep(el, tl, el2, tl2) /\ LeadFacts(el2, tl2) /\ MatchFacts
  BY DEF RaftInv, RaftStep
<1>1. match'[s][p] \in Nat /\ term'[s] \in Nat
  BY <1>0 DEF RaftTypes
<1>2. CASE match'[s][p] = 0
  <2>1. Len(tl2[term'[s]]) \in Nat
    BY <1>0, <1>1, LedgerFacts DEF GhostStep
  <2>. QED  BY <1>2, <2>1 DEF StoredAfter
<1>3. CASE leads[s] /\ term'[s] = term[s] /\ AckedBy(s, p, match'[s][p])
  <2>1. PICK k \in Nat : match'[s][p] <= k /\ Stored(tl, term[s], p, k)
    BY <1>0, <1>1, <1>3, AckedIsStored
  <2>2. StoredAfter(tl2, term[s], p, k)
    BY <1>0, <1>1, <1>3, <2>1, StoredStep
  <2>3. match'[s][p] \in 0 .. Len(tl2[term'[s]])
    BY <1>1, <1>3, <2>1, <2>2 DEF StoredAfter
  <2>4. ASSUME match'[s][p] > 0
        PROVE  /\ term'[p] >= term[s]
               /\ term'[p] = term[s] => Agree(log'[p], tl2[term[s]], match'[s][p])
    <3>1. k > 0
      BY <1>1, <2>1, <2>4
    <3>2. term'[p] >= term[s] /\ (term'[p] = term[s] => Agree(log'[p], tl2[term[s]], k))
      BY <2>2, <3>1 DEF StoredAfter
    <3>. QED  BY <1>1, <2>1, <3>2 DEF Agree
  <2>. QED  BY <1>3, <2>3, <2>4 DEF StoredAfter
<1>. QED  BY <1>0, <1>2, <1>3 DEF LeadFacts, MatchFacts

LEMMA CallsStep ==
    ASSUME NEW el, NEW tl, NEW el2, NEW tl2, RaftInv(el, tl), RaftStep(el, tl, el2, tl2)
    PROVE  CallsInv(el2, tl2)'
<1>0. /\ RaftTypes /\ RaftTypes' /\ ElectedInv(el) /\ LedgerInv(el, tl) /\ LogsInv(tl)
      /\ CallsInv(el, tl) /\ GhostStep(el, tl, el2, tl2) /\ CallFacts(tl2)
      /\ el \subseteq el2
  BY ElectedStep DEF RaftInv, RaftStep
<1>. SUFFICES ASSUME NEW s \in Server, NEW h \in Threads
              PROVE  LET m == call'[s][h] IN
                     /\ m.stage = "sent" => /\ \E e \in el2 : e.term = m.term
                                            /\ Agree(m.log, tl2[m.term], Len(m.log))
                     /\ m.stage = "stored" => /\ m.term = m.sent
                                              /\ StoredAfter(tl2, m.sent, m.to, m.upto)
  BY DEF CallsInv, Stored, StoredAfter
<1> DEFINE m == call'[s][h]
<1>1. ASSUME NEW t \in Nat, NEW lg, Agree(lg, tl[t], Len(lg)), Len(lg) \in Nat
      PROVE  Agree(lg, tl2[t], Len(lg))
  <2>1. Agree(tl[t], tl2[t], Len(tl[t])) /\ Len(tl[t]) \in Nat
    BY <1>0, LedgerFacts DEF GhostStep, Extends
  <2>. QED  BY <1>1, <2>1 DEF Agree
<1>2. m \in Calls
  BY <1>0 DEF RaftTypes
<1>3. CASE m.stage = "sent"
  <2>1. m.term \in Nat /\ m.log \in Seq(Entry) /\ Len(m.log) \in Nat
    BY <1>2, <1>3, SeqFacts DEF Calls, NoCall
  <2>2. /\ \E e \in el : e.term = m.term
        /\ Agree(m.log, tl[m.term], Len(m.log))
    <3>1. CASE m = call[s][h]
      BY <1>0, <1>3, <3>1 DEF CallsInv
    <3>2. CASE leads[s] /\ m.term = term[s] /\ m.log = log[s]
      <4>1. \E e \in el : e.term = m.term
        BY <1>0, <3>2 DEF ElectedInv
      <4>2. m.log = tl[m.term]
        BY <1>0, <3>2 DEF LogsInv
      <4>3. Agree(m.log, m.log, Len(m.log))
        BY <2>1 DEF Agree
      <4>. QED  BY <4>1, <4>2, <4>3
    <3>. QED  BY <1>0, <1>3, <3>1, <3>2 DEF CallFacts
  <2>3. Agree(m.log, tl2[m.term], Len(m.log))
    BY <1>1, <2>1, <2>2
  <2>. QED  BY <1>0, <1>3, <2>2, <2>3
<1>4. CASE m.stage = "stored"
  <2>1. m.sent \in Nat /\ m.to \in Server
    BY <1>2, <1>4 DEF Calls, NoCall
  <2>2. m.term = m.sent /\ StoredAfter(tl2, m.sent, m.to, m.upto)
    <3>1. CASE m = call[s][h]
      <4>1. m.term = m.sent /\ Stored(tl, m.sent, m.to, m.upto)
        BY <1>0, <1>4, <3>1 DEF CallsInv
      <4>. QED  BY <1>0, <2>1, <4>1, StoredStep
    <3>2. CASE m.term = m.sent /\ StoredAfter(tl2, m.sent, m.to, m.upto)
      BY <3>2
    <3>. QED  BY <1>0, <1>4, <3>1, <3>2 DEF CallFacts
  <2>. QED  BY <1>4, <2>2
<1>. QED  BY <1>3, <1>4

\* What updateCommitIndex finds stored by a majority is chosen.
LEMMA CommittableIsChosen ==
    ASSUME NEW el, NEW tl, RaftInv(el, tl), NEW s \in Server, leads[s], NEW n \in Nat,
           Has(log[s], n, term[s]), Majority({s} \cup {p \in Server : match[s][p] >= n})
    PROVE  Chosen(el, tl, term[s], n)
<1> DEFINE Q == {s} \cup {p \in Server : match[s][p] >= n}
           T == term[s]
<1>0. /\ RaftTypes /\ LedgerInv(el, tl) /\ LogsInv(tl) /\ MatchInv(tl)
      /\ ChoosableInv(el, tl)
  BY DEF RaftInv
<1>1. T \in Nat /\ log[s] = tl[T] /\ Has(tl[T], n, T)
  BY <1>0 DEF RaftTypes, LogsInv
<1>2. \A p \in Q : p # s => n <= match[s][p] /\ match[s][p] \in Nat
  BY <1>0 DEF RaftTypes
<1>3. Held(el, tl, T, n, Q)
  <2>1. \A p \in Q : term[p] <= T \/ AckedBy(s, p, n)
    BY <1>1, <1>2 DEF AckedBy
  <2>2. Q \in SUBSET Server /\ Majority(Q)
    OBVIOUS
  <2>. HIDE DEF Q
  <2>. QED  BY <1>0, <1>1, <2>1, <2>2 DEF ChoosableInv
<1>4. ASSUME NEW p \in Q
      PROVE  term[p] >= T /\ Has(log[p], n, T)
  <2>1. CASE p = s
    BY <1>1, <2>1
  <2>2. CASE p # s
    <3>1. Stored(tl, T, p, match[s][p])
      BY <1>0 DEF MatchInv
    <3>2. n # 0
      BY <1>1, LedgerFacts, <1>0 DEF Has
    <3>3. term[p] >= T /\ term[p] \in Nat
      BY <1>0, <1>2, <2>2, <3>1, <3>2 DEF Stored, RaftTypes
    <3>4. CASE term[p] > T
      BY <1>3, <3>3, <3>4 DEF Held
    <3>5. CASE term[p] <= T
      <4>1. Has(log[p], n, T)
        BY <1>0, <1>1, <1>2, <2>2, <3>1, <3>5, StoredHas
      <4>. QED  BY <3>3, <4>1
    <3>. QED  BY <1>1, <3>3, <3>4, <3>5
  <2>. QED  BY <2>1, <2>2
<1>. QED  BY <1>1, <1>3, <1>4 DEF Chosen

LEMMA CommitStep ==
    ASSUME NEW el, NEW tl, NEW el2, NEW tl2, RaftInv(el, tl), RaftStep(el, tl, el2, tl2)
    PROVE  CommitInv(el2, tl2)'
<1>0. /\ RaftTypes /\ RaftTypes' /\ ElectedInv(el) /\ LedgerInv(el, tl) /\ LogsInv(tl)
      /\ CommitInv(el, tl) /\ GhostStep(el, tl, el2, tl2) /\ CommitFacts
  BY DEF RaftInv, RaftStep
<1>. SUFFICES ASSUME NEW s \in Server, commit'[s] # 0
              PROVE  \E T \in Nat : /\ T <= term'[s]
                                    /\ ChosenAfter(el2, tl2, T, commit'[s])
                                    /\ Has(log'[s], commit'[s], T)
  BY DEF CommitInv, Chosen, ChosenAfter, Held, HeldAfter
<1>1. PICK n \in Nat : n = commit'[s]
  BY <1>0 DEF RaftTypes
<1>2. \E T \in Nat : T <= term[s] /\ Chosen(el, tl, T, n) /\ Has(log[s], n, T)
  <2>1. CASE commit'[s] = commit[s]
    BY <1>0, <1>1, <2>1 DEF CommitInv
  <2>2. CASE /\ leads[s]
             /\ Has(log[s], commit'[s], term[s])
             /\ Majority({s} \cup {p \in Server : match[s][p] >= commit'[s]})
    <3>1. term[s] \in Nat
      BY <1>0 DEF RaftTypes
    <3>2. Chosen(el, tl, term[s], n)
      BY <1>1, <2>2, CommittableIsChosen
    <3>. QED  BY <1>1, <2>2, <3>1, <3>2
  <2>. QED  BY <1>0, <2>1, <2>2 DEF CommitFacts
<1>3. PICK T \in Nat : T <= term[s] /\ Chosen(el, tl, T, n) /\ Has(log[s], n, T)
  BY <1>2
<1>4. ChosenAfter(el2, tl2, T, n)
  BY <1>0, <1>3, ChosenStep
<1>5. Has(log'[s], n, T)
  <2>1. Has(tl[T], n, T) /\ \A e \in el : e.term > T => Has(tl[e.term], n, T)
    BY <1>3 DEF Chosen, Held
  <2>2. term[s] >= T
    BY <1>0, <1>3 DEF RaftTypes
  <2>. QED  BY <1>0, <1>3, <2>1, <2>2, HolderKeeps
<1>6. T <= term'[s]
  BY <1>0, <1>3 DEF RaftTypes, GhostStep
<1>. QED  BY <1>1, <1>4, <1>5, <1>6

\* The servers' part of the invariant follows from the facts of a step.
LEMMA RaftInvStep ==
    ASSUME NEW el, NEW tl, NEW el2, NEW tl2, RaftInv(el, tl), RaftStep(el, tl, el2, tl2)
    PROVE  RaftInv(el2, tl2)'
<1>0. /\ RaftTypes /\ ElectedInv(el) /\ LedgerInv(el, tl) /\ LogsInv(tl)
      /\ RaftTypes' /\ GhostStep(el, tl, el2, tl2) /\ LeadFacts(el2, tl2)
  BY DEF RaftInv, RaftStep
<1>1. ElectedInv(el2)' /\ LogsInv(tl2)'
  BY <1>0, ElectedStep, LogsStep
<1>2. LedgerInv(el2, tl2)'
  BY <1>0 DEF GhostStep, LedgerInv, Rooted, Agree, Ledgers
<1>. QED  BY <1>0, <1>1, <1>2, ChoosableStep, MatchStep, CallsStep, CommitStep DEF RaftInv

-----------------------------------------------------------------------------
(***************************************************************************)
(* The facts of each action.                                               *)
(***************************************************************************)

\* Nothing happens to terms, logs and roles.
LEMMA QuietFacts ==
    ASSUME NEW el, NEW tl, RaftInv(el, tl), RaftTypes', UNCHANGED <<leads, term, log>>,
           CallFacts(tl), AckFacts, MatchFacts, CommitFacts
    PROVE  RaftStep(el, tl, el, tl)
<1>0. RaftTypes /\ ElectedInv(el) /\ LedgerInv(el, tl) /\ LogsInv(tl)
  BY DEF RaftInv
<1>1. Extends(tl, tl)
  BY <1>0, LedgerFacts DEF Extends, Agree
<1>2. GhostStep(el, tl, el, tl)
  BY <1>0, <1>1 DEF GhostStep, ElectFacts, LogChange, RaftTypes
<1>3. LeadFacts(el, tl)
  BY <1>0 DEF LeadFacts, ElectedInv, LogsInv
<1>. QED  BY <1>2, <1>3 DEF RaftStep

LEMMA MatchIsAcked ==
    ASSUME RaftTypes, NEW s \in Server, NEW p \in Server
    PROVE  AckedBy(s, p, match[s][p])
  BY DEF AckedBy, RaftTypes

LEMMA SameRaftFacts ==
    ASSUME NEW el, NEW tl, RaftInv(el, tl), UNCHANGED <<raftVars, call>>,
           up' \in [Server -> BOOLEAN]
    PROVE  RaftStep(el, tl, el, tl)
<1>1. RaftTypes
  BY DEF RaftInv
<1>2. RaftTypes'
  BY <1>1 DEF RaftTypes, raftVars
<1>3. CallFacts(tl)
  BY DEF CallFacts
<1>4. AckFacts
  BY DEF AckFacts, AckedBy, raftVars
<1>5. MatchFacts
  BY <1>1, MatchIsAcked DEF MatchFacts, raftVars
<1>6. CommitFacts
  BY DEF CommitFacts, raftVars
<1>. QED  BY <1>2, <1>3, <1>4, <1>5, <1>6, QuietFacts DEF raftVars

\* sendMessage: the request is built, or the call has failed at once.
LEMMA SendFacts ==
    ASSUME NEW el, NEW tl, RaftInv(el, tl), NEW s \in Server, NEW h \in Threads,
           NEW p \in Server, leads[s], Send(s, h, p), UNCHANGED <<up, raftVars>>
    PROVE  RaftStep(el, tl, el, tl)
<1> DEFINE new == [stage |-> IF up[p] THEN "sent" ELSE "failed", to |-> p,
                   term |-> term[s], prev |-> next[s][p] - 1, log |-> log[s]]
<1>1. RaftTypes
  BY DEF RaftInv
<1>2. call' = [call EXCEPT ![s][h] = new]
  BY DEF Send
<1>3. new \in Calls
  <2>1. next[s][p] \in Nat \ {0} /\ term[s] \in Nat /\ log[s] \in Seq(Entry)
    BY <1>1 DEF RaftTypes
  <2>. QED  BY <2>1 DEF Calls
<1>4. \A r \in Server, k \in Threads :
        call'[r][k] = call[r][k] \/ (r = s /\ k = h /\ call'[r][k] = new)
  BY <1>1, <1>2 DEF RaftTypes
<1>5. call' \in [Server -> [Threads -> Calls]]
  BY <1>1, <1>2, <1>3 DEF RaftTypes
<1>6. new.stage # "stored" /\ new.term = term[s] /\ new.log = log[s]
      /\ (new.stage = "sent" \/ new.stage = "failed")
  OBVIOUS
<1> HIDE DEF new
<1>7. CallFacts(tl)
  BY <1>4, <1>6 DEF CallFacts
<1>8. AckFacts
  BY <1>4, <1>6 DEF AckFacts, AckedBy, raftVars
<1>9. MatchFacts /\ CommitFacts
  BY <1>1, MatchIsAcked DEF MatchFacts, CommitFacts, raftVars
<1>10. RaftTypes'
  BY <1>1, <1>5 DEF RaftTypes, raftVars
<1>. QED  BY <1>7, <1>8, <1>9, <1>10, QuietFacts DEF raftVars

LEMMA CallFailsFacts ==
    ASSUME NEW el, NEW tl, RaftInv(el, tl), NEW s \in Server, NEW h \in Threads,
           CallFails(s, h)
    PROVE  RaftStep(el, tl, el, tl)
<1>1. RaftTypes
  BY DEF RaftInv
<1>2. call' = [call EXCEPT ![s][h] = NoCall] /\ UNCHANGED <<up, raftVars>>
  BY DEF CallFails
<1>3. NoCall \in Calls /\ NoCall.stage = "none"
  BY DEF Calls, NoCall
<1>4. \A r \in Server, k \in Threads :
        call'[r][k] = call[r][k] \/ call'[r][k] = NoCall
  BY <1>1, <1>2 DEF RaftTypes
<1>5. call' \in [Server -> [Threads -> Calls]]
  BY <1>1, <1>2, <1>3 DEF RaftTypes
<1>6. CallFacts(tl)
  BY <1>3, <1>4 DEF CallFacts
<1>7. AckFacts
  BY <1>2, <1>3, <1>4 DEF AckFacts, AckedBy, raftVars
<1>8. MatchFacts /\ CommitFacts
  BY <1>1, <1>2, MatchIsAcked DEF MatchFacts, CommitFacts, raftVars
<1>9. RaftTypes'
  BY <1>1, <1>2, <1>5 DEF RaftTypes, raftVars
<1>. QED  BY <1>2, <1>6, <1>7, <1>8, <1>9, QuietFacts DEF raftVars

LEMMA CallPeerFacts ==
    ASSUME NEW el, NEW tl, RaftInv(el, tl), ClientTypes, NEW s \in Server, CallPeer(s)
    PROVE  RaftStep(el, tl, el, tl)
<1>1. work[s].left \in Seq(Server) /\ work[s].left # <<>>
  BY DEF ClientTypes, CallPeer
<1>2. Head(work[s].left) \in Server
  BY <1>1
<1>3. CASE leads[s]
  BY <1>2, <1>3, SendFacts DEF CallPeer, Threads
<1>4. CASE ~leads[s]
  BY <1>4, SameRaftFacts DEF CallPeer, RaftInv, RaftTypes
<1>. QED  BY <1>3, <1>4

LEMMA BeatFacts ==
    ASSUME NEW el, NEW tl, RaftInv(el, tl), NEW s \in Server, NEW p \in Server, Beat(s, p)
    PROVE  RaftStep(el, tl, el, tl)
  BY SendFacts DEF Beat, Threads

\* updateCommitIndex finds the largest of the positions it may commit.
LEMMA NewCommitIs ==
    ASSUME RaftTypes, NEW s \in Server
    PROVE  /\ NewCommit(s) \in Nat
           /\ \/ NewCommit(s) = commit[s]
              \/ /\ leads[s]
                 /\ Has(log[s], NewCommit(s), term[s])
                 /\ Majority({s} \cup {p \in Server : match[s][p] >= NewCommit(s)})
<1> DEFINE May(n) == /\ log[s][n].term = term[s]
                     /\ Majority({s} \cup {p \in Server : match[s][p] >= n})
           may == {n \in commit[s] + 1 .. Len(log[s]) : May(n)}
<1>1. commit[s] \in Nat /\ log[s] \in Seq(Entry)
  BY DEF RaftTypes
<1>2. Len(log[s]) \in Nat /\ DOMAIN log[s] = 1 .. Len(log[s])
  BY <1>1, SeqFacts
<1>3. NewCommit(s) = IF leads[s] /\ may # {}
                     THEN CHOOSE n \in may : \A m \in may : m <= n ELSE commit[s]
  BY DEF NewCommit
<1>4. CASE leads[s] /\ may # {}
  <2>1. may \in SUBSET Nat /\ \A n \in may : n <= Len(log[s])
    BY <1>1, <1>2
  <2>2. \E n \in may : \A m \in may : m <= n
    <3>. HIDE DEF may
    <3>. QED  BY <1>2, <1>4, <2>1, LargestExists
  <2>3. NewCommit(s) \in may
    <3>. HIDE DEF may
    <3>. QED  BY <1>3, <1>4, <2>2
  <2>4. NewCommit(s) \in DOMAIN log[s] /\ May(NewCommit(s)) /\ NewCommit(s) \in Nat
    BY <1>1, <1>2, <2>3
  <2>. QED  BY <1>4, <2>4 DEF Has
<1>5. CASE ~(leads[s] /\ may # {})
  <2>. HIDE DEF may
  <2>. QED  BY <1>1, <1>3, <1>5
<1>. QED  BY <1>4, <1>5

LEMMA CommittingFacts ==
    ASSUME NEW el, NEW tl, RaftInv(el, tl), NEW s \in Server,
           commit' = [commit EXCEPT ![s] = NewCommit(s)],
           UNCHANGED <<up, leads, term, log, next, match, call>>
    PROVE  RaftStep(el, tl, el, tl)
<1>1. RaftTypes
  BY DEF RaftInv
<1>2. RaftTypes'
  BY <1>1, NewCommitIs DEF RaftTypes
<1>3. CallFacts(tl) /\ AckFacts
  BY DEF CallFacts, AckFacts, AckedBy
<1>4. MatchFacts
  BY <1>1, MatchIsAcked DEF MatchFacts
<1>5. CommitFacts
  <2>. SUFFICES ASSUME NEW r \in Server
                PROVE  \/ commit'[r] \in {0, commit[r]}
                       \/ /\ leads[r]
                          /\ Has(log[r], commit'[r], term[r])
                          /\ Majority({r} \cup {p \in Server : match[r][p] >= commit'[r]})
    BY DEF CommitFacts
  <2>1. CASE r # s
    BY <1>1, <2>1 DEF RaftTypes
  <2>2. CASE r = s
    <3>1. commit'[r] = NewCommit(s)
      BY <1>1, <2>2 DEF RaftTypes
    <3>. QED  BY <1>1, <2>2, <3>1, NewCommitIs
  <2>. QED  BY <2>1, <2>2
<1>. QED  BY <1>2, <1>3, <1>4, <1>5, QuietFacts


\* Nobody is elected and no leader appends.
LEMMA CalmFacts ==
    ASSUME NEW el, NEW tl, RaftInv(el, tl), RaftTypes',
           \A p \in Server : term[p] <= term'[p],
           \A p \in Server : LogChange(el, tl, tl, p),
           \A s \in Server : leads'[s] =>
              leads[s] /\ term'[s] = term[s] /\ log'[s] = log[s],
           CallFacts(tl), AckFacts, MatchFacts, CommitFacts
    PROVE  RaftStep(el, tl, el, tl)
<1>0. RaftTypes /\ ElectedInv(el) /\ LedgerInv(el, tl) /\ LogsInv(tl)
  BY DEF RaftInv
<1>1. Extends(tl, tl)
  BY <1>0, LedgerFacts DEF Extends, Agree
<1>2. GhostStep(el, tl, el, tl)
  BY <1>0, <1>1 DEF GhostStep, ElectFacts, RaftTypes
<1>3. LeadFacts(el, tl)
  BY <1>0 DEF LeadFacts, ElectedInv, LogsInv
<1>. QED  BY <1>2, <1>3 DEF RaftStep

\* handleAppendEntries: the term, the log, and what the caller is told.
LEMMA HandleFacts ==
    ASSUME NEW el, NEW tl, RaftInv(el, tl), NEW s \in Server, NEW h \in Threads,
           Handle(s, h)
    PROVE  RaftStep(el, tl, el, tl)
<1> DEFINE m == call[s][h]
           p == m.to
           fits == m.prev <= Len(log[p])
                   /\ SubSeq(log[p], 1, m.prev) = SubSeq(m.log, 1, m.prev)
           reply == [stage |-> IF m.term >= term[p] /\ fits THEN "stored" ELSE "refused",
                     to |-> p, sent |-> m.term,
                     term |-> IF m.term < term[p] THEN term[p] ELSE m.term,
                     upto |-> Len(m.log)]
<1>0. RaftTypes /\ LedgerInv(el, tl) /\ CallsInv(el, tl)
  BY DEF RaftInv
<1>1. /\ m.stage = "sent"
      /\ call' = [call EXCEPT ![s][h] = reply]
      /\ UNCHANGED <<up, commit, next, match>>
      /\ \/ m.term < term[p] /\ UNCHANGED <<term, leads, log>>
         \/ /\ ~(m.term < term[p])
            /\ term' = [term EXCEPT ![p] = m.term]
            /\ leads' = [leads EXCEPT ![p] = FALSE]
            /\ log' = IF fits /\ ~IsPrefix(m.log, log[p])
                      THEN [log EXCEPT ![p] = m.log] ELSE log
  BY DEF Handle, raftVars
<1>2. m \in Calls
  BY <1>0 DEF RaftTypes
<1>3. p \in Server /\ m.term \in Nat /\ m.log \in Seq(Entry) /\ Len(m.log) \in Nat
  BY <1>1, <1>2, SeqFacts DEF Calls, NoCall
<1>4. term[p] \in Nat /\ log[p] \in Seq(Entry)
  BY <1>0, <1>3 DEF RaftTypes
<1>5. (\E e \in el : e.term = m.term) /\ Agree(m.log, tl[m.term], Len(m.log))
  BY <1>0, <1>1 DEF CallsInv
<1>6. /\ reply \in Calls
      /\ reply.to = p /\ reply.sent = m.term /\ reply.upto = Len(m.log)
      /\ reply.stage # "sent"
      /\ reply.stage = "stored" =>
           ~(m.term < term[p]) /\ fits /\ reply.term = m.term
  <2>. HIDE DEF fits, p
  <2>1. reply.stage = "stored" \/ reply.stage = "refused"
    OBVIOUS
  <2>2. reply.to = p /\ reply.sent = m.term /\ reply.upto = Len(m.log)
    OBVIOUS
  <2>3. reply \in [stage : {"stored", "refused"}, to : Server, sent : Nat, term : Nat,
                   upto : Nat]
    BY <1>3, <1>4
  <2>4. reply.stage = "stored" => ~(m.term < term[p]) /\ fits /\ reply.term = m.term
    BY <1>3, <1>4
  <2>. QED  BY <2>1, <2>2, <2>3, <2>4 DEF Calls
<1> HIDE DEF fits, reply
<1>7. \A r \in Server, k \in Threads :
        call'[r][k] = call[r][k] \/ (r = s /\ k = h /\ call'[r][k] = reply)
  BY <1>0, <1>1 DEF RaftTypes
<1>8. call' \in [Server -> [Threads -> Calls]]
  BY <1>0, <1>1, <1>6 DEF RaftTypes
<1> HIDE DEF p
<1> DEFINE lm == m.log
           tm == m.term
<1>9. /\ tm \in Nat /\ lm \in Seq(Entry) /\ Len(lm) \in Nat
      /\ (\E e \in el : e.term = tm) /\ Agree(lm, tl[tm], Len(lm))
      /\ reply.to = p /\ reply.sent = tm /\ reply.upto = Len(lm)
      /\ reply.stage = "stored" => ~(tm < term[p]) /\ fits /\ reply.term = tm
      /\ \/ tm < term[p] /\ UNCHANGED <<term, leads, log>>
         \/ /\ ~(tm < term[p])
            /\ term' = [term EXCEPT ![p] = tm]
            /\ leads' = [leads EXCEPT ![p] = FALSE]
            /\ log' = IF fits /\ ~IsPrefix(lm, log[p])
                      THEN [log EXCEPT ![p] = lm] ELSE log
  BY <1>1, <1>3, <1>5, <1>6
<1> HIDE DEF m, lm, tm
<1>10. /\ \A r \in Server : r # p => term'[r] = term[r] /\ log'[r] = log[r]
                                     /\ leads'[r] = leads[r]
       /\ tm < term[p] => term'[p] = term[p] /\ log'[p] = log[p] /\ leads'[p] = leads[p]
       /\ ~(tm < term[p]) =>
            /\ term'[p] = tm
            /\ leads'[p] = FALSE
            /\ log'[p] = IF fits /\ ~IsPrefix(lm, log[p]) THEN lm ELSE log[p]
  <2>1. CASE tm < term[p] /\ UNCHANGED <<term, leads, log>>
    BY <2>1
  <2>2. CASE /\ ~(tm < term[p])
             /\ term' = [term EXCEPT ![p] = tm]
             /\ leads' = [leads EXCEPT ![p] = FALSE]
             /\ log' = IF fits /\ ~IsPrefix(lm, log[p])
                       THEN [log EXCEPT ![p] = lm] ELSE log
    <3>1. \A r \in Server : term'[r] = IF r = p THEN tm ELSE term[r]
      BY <1>0, <1>3, <2>2 DEF RaftTypes
    <3>2. \A r \in Server : leads'[r] = IF r = p THEN FALSE ELSE leads[r]
      BY <1>0, <1>3, <2>2 DEF RaftTypes
    <3>3. \A r \in Server : log'[r] = IF r = p /\ fits /\ ~IsPrefix(lm, log[p])
                                     THEN lm ELSE log[r]
      BY <1>0, <1>3, <2>2 DEF RaftTypes
    <3>. QED  BY <1>3, <2>2, <3>1, <3>2, <3>3
  <2>. QED  BY <1>9, <2>1, <2>2
<1>11. RaftTypes'
  <2>1. term' \in [Server -> Nat]
    BY <1>0, <1>9 DEF RaftTypes
  <2>2. leads' \in [Server -> BOOLEAN]
    BY <1>0, <1>9 DEF RaftTypes
  <2>3. log' \in [Server -> Seq(Entry)]
    BY <1>0, <1>9 DEF RaftTypes
  <2>. QED  BY <1>0, <1>1, <1>8, <2>1, <2>2, <2>3 DEF RaftTypes
<1>12. ASSUME NEW r \in Server
       PROVE  term[r] <= term'[r]
  <2>1. term[r] \in Nat
    BY <1>0 DEF RaftTypes
  <2>2. term'[r] = term[r] \/ (r = p /\ ~(tm < term[p]) /\ term'[r] = tm)
    BY <1>10
  <2>. QED  BY <1>9, <2>1, <2>2
<1>13. ASSUME NEW r \in Server
       PROVE  LogChange(el, tl, tl, r)
  <2>1. CASE r = p /\ ~(tm < term[p]) /\ fits /\ ~IsPrefix(lm, log[p])
    <3>1. log'[r] = lm /\ term'[r] = tm
      BY <1>10, <2>1
    <3>. QED  BY <1>9, <2>1, <3>1 DEF LogChange
  <2>2. CASE ~(r = p /\ ~(tm < term[p]) /\ fits /\ ~IsPrefix(lm, log[p]))
    <3>1. log'[r] = log[r]
      BY <1>10, <2>2
    <3>. QED  BY <3>1 DEF LogChange
  <2>. QED  BY <2>1, <2>2
<1>14. \A r \in Server : leads'[r] =>
         leads[r] /\ term'[r] = term[r] /\ log'[r] = log[r]
  BY <1>10
<1>15. reply.stage = "stored" => StoredAfter(tl, tm, p, Len(lm))
  <2>. SUFFICES ASSUME reply.stage = "stored"
                PROVE  StoredAfter(tl, tm, p, Len(lm))
    OBVIOUS
  <2>1. /\ ~(tm < term[p]) /\ fits /\ term'[p] = tm
        /\ log'[p] = IF ~IsPrefix(lm, log[p]) THEN lm ELSE log[p]
    BY <1>9, <1>10
  <2>2. Agree(lm, log'[p], Len(lm))
    <3>1. CASE IsPrefix(lm, log[p])
      BY <1>4, <1>9, <2>1, <3>1, PrefixMeans
    <3>2. CASE ~IsPrefix(lm, log[p])
      BY <1>9, <2>1, <3>2 DEF Agree
    <3>. QED  BY <3>1, <3>2
  <2>3. Len(lm) \in 0 .. Len(tl[tm]) /\ Agree(log'[p], tl[tm], Len(lm))
    BY <1>9, <2>2 DEF Agree
  <2>. QED  BY <1>9, <2>1, <2>3 DEF StoredAfter
<1>16. CallFacts(tl)
  <2>. SUFFICES ASSUME NEW r \in Server, NEW k \in Threads,
                       call'[r][k].stage \in {"sent", "stored"},
                       call'[r][k] # call[r][k]
                PROVE  /\ call'[r][k].stage = "stored"
                       /\ call'[r][k].term = call'[r][k].sent
                       /\ StoredAfter(tl, call'[r][k].sent, call'[r][k].to, call'[r][k].upto)
    BY DEF CallFacts
  <2>1. call'[r][k] = reply
    BY <1>7
  <2>. QED  BY <1>6, <1>9, <1>15, <2>1
<1>17. AckFacts
  <2>. SUFFICES ASSUME NEW r \in Server, NEW i \in Server, NEW n \in Nat,
                       leads[r], leads'[r], term'[r] = term[r], AckedBy(r, i, n)',
                       ~AckedBy(r, i, n)
                PROVE  term[i] <= term[r] /\ term'[i] = term[r]
    BY DEF AckFacts
  <2>1. PICK k \in Threads : /\ call'[r][k].stage = "stored"
                             /\ call'[r][k].to = i
                             /\ call'[r][k].sent = term[r]
                             /\ n <= call'[r][k].upto
    BY <1>1 DEF AckedBy
  <2>2. call'[r][k] = reply
    BY <1>7, <2>1 DEF AckedBy
  <2>3. i = p /\ tm = term[r] /\ ~(tm < term[p])
    BY <1>9, <2>1, <2>2
  <2>. QED  BY <1>4, <1>9, <1>10, <2>3
<1>18. MatchFacts /\ CommitFacts
  BY <1>0, <1>1, MatchIsAcked DEF MatchFacts, CommitFacts
<1>. QED  BY <1>11, <1>12, <1>13, <1>14, <1>16, <1>17, <1>18, CalmFacts

\* replicateToPeer takes the answer in.
LEMMA ReceiveFacts ==
    ASSUME NEW el, NEW tl, RaftInv(el, tl), NEW s \in Server, NEW h \in Threads,
           Receive(s, h)
    PROVE  RaftStep(el, tl, el, tl)
<1> DEFINE m == call[s][h]
<1>0. RaftTypes
  BY DEF RaftInv
<1>1. /\ m.stage \in {"stored", "refused"}
      /\ call' = [call EXCEPT ![s][h] = NoCall]
      /\ UNCHANGED <<up, log, commit>>
  BY DEF Receive
<1>2. m \in Calls
  BY <1>0 DEF RaftTypes
<1>3. m.to \in Server /\ m.sent \in Nat /\ m.term \in Nat /\ m.upto \in Nat
  BY <1>1, <1>2 DEF Calls, NoCall
<1>4. NoCall \in Calls /\ NoCall.stage = "none"
  BY DEF Calls, NoCall
<1>5. /\ call' \in [Server -> [Threads -> Calls]]
      /\ \A r \in Server, k \in Threads :
           call'[r][k] = call[r][k] \/ call'[r][k] = NoCall
  BY <1>0, <1>1, <1>4 DEF RaftTypes
<1>6. CallFacts(tl)
  BY <1>4, <1>5 DEF CallFacts
<1>7. CommitFacts
  BY <1>1 DEF CommitFacts
<1>8. \A p \in Server : LogChange(el, tl, tl, p)
  BY <1>1 DEF LogChange
<1>9. ASSUME match' = match
      PROVE  AckFacts /\ MatchFacts
  <2>1. AckFacts
    BY <1>4, <1>5, <1>9 DEF AckFacts, AckedBy
  <2>2. MatchFacts
    BY <1>0, <1>9, MatchIsAcked DEF MatchFacts
  <2>. QED  BY <2>1, <2>2
<1>10. CASE UNCHANGED <<term, leads, next, match>>
  <2>1. RaftTypes'
    BY <1>0, <1>1, <1>5, <1>10 DEF RaftTypes
  <2>. QED  BY <1>1, <1>6, <1>7, <1>9, <1>10, <2>1, QuietFacts
<1>11. CASE /\ m.term > term[s]
            /\ term' = [term EXCEPT ![s] = m.term]
            /\ leads' = [leads EXCEPT ![s] = FALSE]
            /\ UNCHANGED <<next, match>>
  <2>1. RaftTypes'
    BY <1>0, <1>1, <1>3, <1>5, <1>11 DEF RaftTypes
  <2>2. \A p \in Server : term[p] <= term'[p]
    <3>1. \A p \in Server : term[p] \in Nat /\ (p # s => term'[p] = term[p])
      BY <1>0, <1>11 DEF RaftTypes
    <3>2. term'[s] = m.term
      BY <1>0, <1>11 DEF RaftTypes
    <3>. QED  BY <1>3, <1>11, <3>1, <3>2
  <2>3. \A r \in Server : leads'[r] =>
          leads[r] /\ term'[r] = term[r] /\ log'[r] = log[r]
    BY <1>0, <1>1, <1>11 DEF RaftTypes
  <2>. QED  BY <1>6, <1>7, <1>8, <1>9, <1>11, <2>1, <2>2, <2>3, CalmFacts
<1>12. CASE /\ m.stage = "stored" /\ m.sent = term[s]
            /\ LET n == Larger(match[s][m.to], m.upto) IN
               /\ match' = [match EXCEPT ![s][m.to] = n]
               /\ next' = [next EXCEPT ![s][m.to] = n + 1]
            /\ UNCHANGED <<term, leads>>
  <2> DEFINE n == Larger(match[s][m.to], m.upto)
  <2>1. match[s][m.to] \in Nat
    BY <1>0, <1>3 DEF RaftTypes
  <2>2. n \in Nat /\ n + 1 \in Nat \ {0} /\ (n = match[s][m.to] \/ n = m.upto)
    BY <1>3, <2>1 DEF Larger
  <2>3. AckedBy(s, m.to, n)
    BY <1>0, <1>3, <1>12, <2>2, MatchIsAcked DEF AckedBy
  <2>4. /\ match' = [match EXCEPT ![s][m.to] = n]
        /\ next' = [next EXCEPT ![s][m.to] = n + 1]
    BY <1>12
  <2> HIDE DEF n
  <2>5. RaftTypes'
    <3>1. match' \in [Server -> [Server -> Nat]]
      BY <1>0, <1>3, <2>2, <2>4 DEF RaftTypes
    <3>2. next' \in [Server -> [Server -> Nat \ {0}]]
      BY <1>0, <1>3, <2>2, <2>4 DEF RaftTypes
    <3>. QED  BY <1>0, <1>1, <1>5, <1>12, <3>1, <3>2 DEF RaftTypes
  <2>6. \A r, p \in Server :
          match'[r][p] = match[r][p] \/ (r = s /\ p = m.to /\ match'[r][p] = n)
    BY <1>0, <1>3, <2>4 DEF RaftTypes
  <2>7. MatchFacts
    BY <1>0, <1>12, <2>3, <2>6, MatchIsAcked DEF MatchFacts
  <2>8. AckFacts
    <3>. SUFFICES ASSUME NEW r \in Server, NEW p \in Server, NEW k \in Nat, AckedBy(r, p, k)'
                  PROVE  AckedBy(r, p, k)
      BY DEF AckFacts
    <3>1. CASE k <= match'[r][p]
      <4>1. CASE match'[r][p] = match[r][p]
        BY <3>1, <4>1 DEF AckedBy
      <4>2. CASE r = s /\ p = m.to /\ match'[r][p] = n
        <5>1. k <= n
          BY <3>1, <4>2
        <5>. QED  BY <1>3, <1>12, <2>1, <2>2, <4>2, <5>1 DEF AckedBy
      <4>. QED  BY <2>6, <4>1, <4>2
    <3>2. CASE ~(k <= match'[r][p])
      BY <1>4, <1>5, <1>12, <3>2 DEF AckedBy
    <3>. QED  BY <3>1, <3>2
  <2>. QED  BY <1>1, <1>6, <1>7, <1>12, <2>5, <2>7, <2>8, QuietFacts
<1>13. CASE /\ next' = [next EXCEPT ![s][m.to] = Larger(1, @ - 1)]
            /\ UNCHANGED <<term, leads, match>>
  <2>1. next[s][m.to] \in Nat \ {0}
    BY <1>0, <1>3 DEF RaftTypes
  <2>2. Larger(1, next[s][m.to] - 1) \in Nat \ {0}
    BY <2>1 DEF Larger
  <2>3. next' \in [Server -> [Server -> Nat \ {0}]]
    BY <1>0, <1>3, <1>13, <2>2 DEF RaftTypes
  <2>4. RaftTypes'
    BY <1>0, <1>1, <1>5, <1>13, <2>3 DEF RaftTypes
  <2>. QED  BY <1>1, <1>6, <1>7, <1>9, <1>13, <2>4, QuietFacts
<1>. QED  BY <1>10, <1>11, <1>12, <1>13 DEF Receive

\* A majority elects l in term t: its log becomes what the ledger has for t.
LEMMA ElectStepFacts ==
    ASSUME NEW el, NEW tl, RaftInv(el, tl), NEW l \in Server, NEW Q \in SUBSET Server,
           NEW t \in Nat, Elect(l, Q, t)
    PROVE  RaftStep(el, tl, el \cup {[term |-> t, leader |-> l]}, [tl EXCEPT ![t] = log[l]])
<1> DEFINE el2 == el \cup {[term |-> t, leader |-> l]}
           tl2 == [tl EXCEPT ![t] = log[l]]
<1>0. RaftTypes /\ ElectedInv(el) /\ LedgerInv(el, tl) /\ LogsInv(tl)
  BY DEF RaftInv
<1>1. /\ l \in Q /\ Majority(Q)
      /\ \A p \in Q : t > term[p] /\ UpToDate(l, p)
      /\ term' = [s \in Server |-> IF s \in Q THEN t ELSE term[s]]
      /\ leads' = [s \in Server |-> s = l \/ (leads[s] /\ s \notin Q)]
      /\ commit' = [commit EXCEPT ![l] = 0]
      /\ next' = [next EXCEPT ![l] = [p \in Server |-> Len(log[l]) + 1]]
      /\ match' = [match EXCEPT ![l] = [p \in Server |-> 0]]
      /\ UNCHANGED <<up, log, call>>
  BY DEF Elect, threadVars
<1>2. \A e \in el : e.term # t
  <2>. SUFFICES ASSUME NEW e \in el, e.term = t PROVE FALSE
    OBVIOUS
  <2> DEFINE B == {r \in Server : term[r] >= e.term}
  <2>0. Majority(B) /\ B \in SUBSET Server
    BY <1>0 DEF ElectedInv
  <2>1. PICK p \in B \cap Q : TRUE
    <3>. HIDE DEF B
    <3>. QED  BY <1>1, <2>0, MajoritiesMeet
  <2>. QED  BY <1>0, <1>1, <2>1 DEF RaftTypes
<1>3. tl \in Ledgers /\ tl[t] = <<>> /\ log[l] \in Seq(Entry) /\ Len(log[l]) \in Nat
      /\ Rooted(tl, log[l]) /\ term[l] \in Nat /\ term[l] < t
  BY <1>0, <1>1, <1>2, SeqFacts DEF LedgerInv, RaftTypes, LogsInv
<1>4. tl2 \in Ledgers /\ tl2[t] = log[l] /\ \A u \in Nat : u # t => tl2[u] = tl[u]
  BY <1>3 DEF Ledgers
<1>5. /\ \A e \in el2 : e \in el \/ e = [term |-> t, leader |-> l]
      /\ el \subseteq el2 /\ [term |-> t, leader |-> l] \in el2
  OBVIOUS
<1>6. Wins(el, tl2, el2, l, Q, t)
  BY <1>1, <1>4 DEF Wins
<1> HIDE DEF el2, tl2
<1>7. Extends(tl, tl2)
  <2>. SUFFICES ASSUME NEW u \in Nat
                PROVE  Agree(tl[u], tl2[u], Len(tl[u]))
    BY DEF Extends
  <2>1. CASE u = t
    BY <1>3, <1>4, <2>1 DEF Agree
  <2>2. CASE u # t
    BY <1>0, <1>4, <2>2, LedgerFacts DEF Agree
  <2>. QED  BY <2>1, <2>2
<1>8. LedgerInv(el2, tl2)
  <2>. SUFFICES ASSUME NEW u \in Nat
                PROVE  /\ Rooted(tl2, tl2[u])
                       /\ \A n \in DOMAIN tl2[u] : tl2[u][n].term <= u
                       /\ tl2[u] # <<>> => \E e \in el2 : e.term = u
    BY <1>4 DEF LedgerInv
  <2>1. CASE u = t
    <3>1. Rooted(tl2, log[l])
      BY <1>0, <1>3, <1>7, RootedExtends
    <3>2. \A n \in DOMAIN log[l] : log[l][n].term \in Nat /\ log[l][n].term <= term[l]
      BY <1>0, <1>3, SeqFacts DEF LogsInv
    <3>. QED  BY <1>3, <1>4, <1>5, <2>1, <3>1, <3>2
  <2>2. CASE u # t
    <3>1. Rooted(tl2, tl[u])
      <4>1. tl[u] \in Seq(Entry) /\ Rooted(tl, tl[u])
        BY <1>0, LedgerFacts DEF LedgerInv
      <4>. QED  BY <1>0, <1>7, <4>1, RootedExtends
    <3>. QED  BY <1>0, <1>4, <1>5, <2>2, <3>1 DEF LedgerInv
  <2>. QED  BY <2>1, <2>2
<1>9. \A s \in Server : /\ term[s] \in Nat
                        /\ term'[s] = IF s \in Q THEN t ELSE term[s]
                        /\ leads'[s] = (s = l \/ (leads[s] /\ s \notin Q))
  BY <1>0, <1>1 DEF RaftTypes
<1>10. \A s \in Server : /\ commit'[s] \in {0, commit[s]}
                         /\ s # l => match'[s] = match[s]
                         /\ s = l => \A p \in Server : match'[s][p] = 0
  BY <1>0, <1>1 DEF RaftTypes
<1>11. RaftTypes'
  <2>1. term' \in [Server -> Nat] /\ leads' \in [Server -> BOOLEAN]
    BY <1>0, <1>1 DEF RaftTypes
  <2>2. commit' \in [Server -> Nat] /\ match' \in [Server -> [Server -> Nat]]
    BY <1>0, <1>1 DEF RaftTypes
  <2>3. Len(log[l]) + 1 \in Nat \ {0}
    BY <1>3
  <2>4. next' \in [Server -> [Server -> Nat \ {0}]]
    BY <1>0, <1>1, <2>3 DEF RaftTypes
  <2>. QED  BY <1>0, <1>1, <2>1, <2>2, <2>4 DEF RaftTypes
<1>12. GhostStep(el, tl, el2, tl2)
  <2>1. \A p \in Server : term[p] <= term'[p]
    BY <1>1, <1>9
  <2>2. \A p \in Server : LogChange(el, tl, tl2, p)
    BY <1>1 DEF LogChange
  <2>3. ElectFacts(el, tl2, el2)
    BY <1>6 DEF ElectFacts
  <2>. QED  BY <1>7, <1>8, <1>11, <2>1, <2>2, <2>3 DEF GhostStep, RaftTypes
<1>13. LeadFacts(el2, tl2)
  <2>. SUFFICES ASSUME NEW s \in Server, leads'[s]
                PROVE  /\ [term |-> term'[s], leader |-> s] \in el2
                       /\ log'[s] = tl2[term'[s]]
                       /\ \/ leads[s] /\ term'[s] = term[s]
                          \/ /\ term[s] < term'[s]
                             /\ log'[s] = log[s]
                             /\ \A p \in Server : match'[s][p] = 0
    BY DEF LeadFacts
  <2>1. CASE s = l
    BY <1>1, <1>3, <1>4, <1>5, <1>9, <1>10, <2>1
  <2>2. CASE s # l
    <3>1. leads[s] /\ s \notin Q /\ term'[s] = term[s]
      BY <1>9, <2>2
    <3>2. [term |-> term[s], leader |-> s] \in el /\ log[s] = tl[term[s]]
      BY <1>0, <3>1 DEF ElectedInv, LogsInv
    <3>3. term[s] # t
      BY <1>2, <3>2
    <3>. QED  BY <1>1, <1>4, <1>5, <1>9, <3>1, <3>2, <3>3
  <2>. QED  BY <2>1, <2>2
<1>14. CallFacts(tl2)
  BY <1>1 DEF CallFacts
<1>15. \A s \in Server : leads[s] /\ leads'[s] /\ term'[s] = term[s] => s # l
  BY <1>1, <1>9
<1>16. AckFacts
  BY <1>1, <1>10, <1>15 DEF AckFacts, AckedBy
<1>17. MatchFacts
  BY <1>0, <1>10, <1>15, MatchIsAcked DEF MatchFacts
<1>18. CommitFacts
  BY <1>10 DEF CommitFacts
<1>19. RaftStep(el, tl, el2, tl2)
  BY <1>11, <1>12, <1>13, <1>14, <1>16, <1>17, <1>18 DEF RaftStep
<1>. QED  BY <1>19 DEF el2, tl2

LEMMA CrashFacts ==
    ASSUME NEW el, NEW tl, RaftInv(el, tl), NEW s \in Server, Crash(s)
    PROVE  RaftStep(el, tl, el, tl)
<1> DEFINE Left(r, h) == IF r = s THEN NoCall
                         ELSE IF call[r][h].stage = "sent" /\ call[r][h].to = s
                              THEN [call[r][h] EXCEPT !.stage = "failed"] ELSE call[r][h]
<1>0. RaftTypes
  BY DEF RaftInv
<1>1. /\ up' = [up EXCEPT ![s] = FALSE]
      /\ leads' = [leads EXCEPT ![s] = FALSE]
      /\ commit' = [commit EXCEPT ![s] = 0]
      /\ call' = [r \in Server |-> [h \in Threads |-> Left(r, h)]]
      /\ UNCHANGED <<term, log, next, match>>
  BY DEF Crash
<1>2. ASSUME NEW r \in Server, NEW h \in Threads
      PROVE  /\ Left(r, h) \in Calls
             /\ Left(r, h) = call[r][h] \/ Left(r, h).stage \notin {"sent", "stored"}
  <2>1. call[r][h] \in Calls
    BY <1>0 DEF RaftTypes
  <2>2. CASE r = s
    BY <2>2 DEF Calls, NoCall
  <2>3. CASE r # s /\ call[r][h].stage = "sent" /\ call[r][h].to = s
    <3> DEFINE m == call[r][h]
    <3>1. m \in [stage : {"sent", "failed"}, to : Server, term : Nat, prev : Nat,
                 log : Seq(Entry)]
      BY <2>1, <2>3 DEF Calls, NoCall
    <3>2. Left(r, h) = [m EXCEPT !.stage = "failed"]
      BY <2>3
    <3> HIDE DEF m, Left
    <3>3. /\ Left(r, h) \in [stage : {"sent", "failed"}, to : Server, term : Nat,
                             prev : Nat, log : Seq(Entry)]
          /\ Left(r, h).stage = "failed"
      BY <3>1, <3>2
    <3>. QED  BY <3>3 DEF Calls
  <2>4. CASE r # s /\ ~(call[r][h].stage = "sent" /\ call[r][h].to = s)
    BY <2>1, <2>4
  <2>. QED  BY <2>2, <2>3, <2>4
<1> HIDE DEF Left
<1>3. \A r \in Server, h \in Threads : call'[r][h] = Left(r, h)
  BY <1>1
<1>4. call' \in [Server -> [Threads -> Calls]]
  BY <1>1, <1>2
<1>5. RaftTypes'
  BY <1>0, <1>1, <1>4 DEF RaftTypes
<1>6. CallFacts(tl)
  BY <1>2, <1>3 DEF CallFacts
<1>7. AckFacts
  BY <1>1, <1>2, <1>3 DEF AckFacts, AckedBy
<1>8. MatchFacts
  BY <1>0, <1>1, MatchIsAcked DEF MatchFacts
<1>9. CommitFacts
  BY <1>0, <1>1 DEF CommitFacts, RaftTypes
<1>10. \A r \in Server : leads'[r] =>
         leads[r] /\ term'[r] = term[r] /\ log'[r] = log[r]
  BY <1>0, <1>1 DEF RaftTypes
<1>11. /\ \A p \in Server : term[p] <= term'[p]
       /\ \A p \in Server : LogChange(el, tl, tl, p)
  BY <1>0, <1>1 DEF RaftTypes, LogChange
<1>. QED  BY <1>5, <1>6, <1>7, <1>8, <1>9, <1>10, <1>11, CalmFacts

\* The entry of a put.
EntryOf(s, q) == [client |-> q.client, op |-> q.op, term |-> term[s]]

\* The ledger after Begin(s, q).
LedgerOfBegin(tl, s, q) ==
    IF Program[q.client][q.op] = "put"
    THEN [tl EXCEPT ![term[s]] = Append(tl[term[s]], EntryOf(s, q))] ELSE tl

LEMMA BeginFacts ==
    ASSUME NEW el, NEW tl, RaftInv(el, tl), ClientTypes, NEW s \in Server, NEW q \in queue,
           Begin(s, q)
    PROVE  RaftStep(el, tl, el, LedgerOfBegin(tl, s, q))
<1> DEFINE e == EntryOf(s, q)
           T == term[s]
           tl2 == [tl EXCEPT ![T] = Append(tl[T], e)]
<1>0. RaftTypes /\ ElectedInv(el) /\ LedgerInv(el, tl) /\ LogsInv(tl)
  BY DEF RaftInv
<1>1. leads[s] /\ UNCHANGED <<up, leads, term, commit, next, match, call>>
  BY DEF Begin
<1>2. CASE Program[q.client][q.op] # "put"
  <2>1. log' = log
    BY <1>2 DEF Begin
  <2>2. RaftStep(el, tl, el, tl)
    BY <1>0, <1>1, <2>1, SameRaftFacts DEF raftVars, RaftTypes
  <2>. QED  BY <1>2, <2>2 DEF LedgerOfBegin
<1>3. CASE Program[q.client][q.op] = "put"
  <2>1. log' = [log EXCEPT ![s] = Append(log[s], e)]
    BY <1>3 DEF Begin, EntryOf
  <2>2. T \in Nat /\ e \in Entry /\ e.term = T
    BY <1>0 DEF RaftTypes, ClientTypes, Entry, EntryOf
  <2>3. /\ tl[T] = log[s] /\ tl[T] \in Seq(Entry) /\ Len(tl[T]) \in Nat
        /\ tl \in Ledgers /\ DOMAIN tl[T] = 1 .. Len(tl[T])
        /\ Rooted(tl, tl[T])
    <3>1. tl[T] = log[s] /\ tl \in Ledgers /\ Rooted(tl, tl[T])
      BY <1>0, <1>1, <2>2 DEF LogsInv, LedgerInv
    <3>2. tl[T] \in Seq(Entry) /\ Len(tl[T]) \in Nat /\ DOMAIN tl[T] = 1 .. Len(tl[T])
      BY <1>0, <2>2, LedgerFacts
    <3>. QED  BY <3>1, <3>2
  <2> DEFINE new == Append(tl[T], e)
  <2>4. /\ tl2 \in Ledgers /\ tl2[T] = new
        /\ \A u \in Nat : u # T => tl2[u] = tl[u]
    <3>1. new \in Seq(Entry)
      BY <2>2, <2>3
    <3>2. tl2 = [tl EXCEPT ![T] = new]
      OBVIOUS
    <3>. HIDE DEF new, T, tl2
    <3>. QED  BY <2>2, <2>3, <3>1, <3>2 DEF Ledgers
  <2> HIDE DEF tl2, e
  <2>5. /\ new \in Seq(Entry) /\ Len(new) = Len(tl[T]) + 1
        /\ DOMAIN new = 1 .. Len(tl[T]) + 1
        /\ \A k \in 1 .. Len(tl[T]) : new[k] = tl[T][k]
        /\ new[Len(tl[T]) + 1] = e
    BY <2>2, <2>3
  <2> HIDE DEF new, T
  <2>6. Extends(tl, tl2)
    <3>. SUFFICES ASSUME NEW u \in Nat
                  PROVE  Agree(tl[u], tl2[u], Len(tl[u]))
      BY DEF Extends
    <3>1. CASE u = T
      BY <2>3, <2>4, <2>5, <3>1 DEF Agree
    <3>2. CASE u # T
      BY <1>0, <2>4, <3>2, LedgerFacts DEF Agree
    <3>. QED  BY <3>1, <3>2
  <2>7. Rooted(tl2, new) /\ \A n \in DOMAIN new : new[n].term <= T
    <3>1. Rooted(tl2, tl[T])
      BY <1>0, <2>3, <2>6, RootedExtends
    <3>. SUFFICES ASSUME NEW n \in DOMAIN new
                  PROVE  Agree(tl2[new[n].term], new, n) /\ new[n].term <= T
      BY DEF Rooted
    <3>2. CASE n \in DOMAIN tl[T]
      <4>1. new[n] = tl[T][n]
        BY <2>3, <2>5, <3>2
      <4>2. Agree(tl2[tl[T][n].term], tl[T], n)
        BY <3>1, <3>2 DEF Rooted
      <4>3. tl[T][n].term <= T
        BY <1>0, <2>2, <3>2 DEF LedgerInv, T
      <4>4. /\ n \in 0 .. Len(new)
            /\ \A k \in 1 .. n : new[k] = tl[T][k]
        BY <2>3, <2>5, <3>2
      <4>. QED  BY <4>1, <4>2, <4>3, <4>4 DEF Agree
    <3>3. CASE n = Len(tl[T]) + 1
      <4>1. new[n].term = T /\ n = Len(new) /\ n \in Nat
        BY <2>2, <2>3, <2>5, <3>3 DEF T
      <4>2. Agree(tl2[T], new, n)
        BY <2>4, <4>1 DEF Agree
      <4>. QED  BY <2>2, <4>1, <4>2 DEF T
    <3>. QED  BY <2>3, <2>5, <3>2, <3>3
  <2>8. LedgerInv(el, tl2)
    <3>. SUFFICES ASSUME NEW u \in Nat
                  PROVE  /\ Rooted(tl2, tl2[u])
                         /\ \A n \in DOMAIN tl2[u] : tl2[u][n].term <= u
                         /\ tl2[u] # <<>> => \E f \in el : f.term = u
      BY <2>4 DEF LedgerInv
    <3>1. CASE u = T
      <4>1. \E f \in el : f.term = T
        BY <1>0, <1>1 DEF ElectedInv, T
      <4>. QED  BY <2>4, <2>7, <3>1, <4>1
    <3>2. CASE u # T
      <4>1. Rooted(tl2, tl[u])
        <5>1. tl[u] \in Seq(Entry) /\ Rooted(tl, tl[u])
          BY <1>0, LedgerFacts DEF LedgerInv
        <5>. QED  BY <1>0, <2>6, <5>1, RootedExtends
      <4>. QED  BY <1>0, <2>4, <3>2, <4>1 DEF LedgerInv
    <3>. QED  BY <3>1, <3>2
  <2>9. \A r \in Server : log'[r] = IF r = s THEN new ELSE log[r]
    BY <1>0, <2>1, <2>3 DEF RaftTypes, new
  <2>10. RaftTypes'
    <3>1. log' \in [Server -> Seq(Entry)]
      BY <1>0, <2>1, <2>3, <2>5 DEF RaftTypes, new
    <3>. QED  BY <1>0, <1>1, <3>1 DEF RaftTypes
  <2>11. GhostStep(el, tl, el, tl2)
    <3>1. \A p \in Server : LogChange(el, tl, tl2, p)
      BY <1>1, <2>4, <2>9 DEF LogChange, T
    <3>2. \A p \in Server : term[p] <= term'[p]
      BY <1>0, <1>1 DEF RaftTypes
    <3>. QED  BY <2>6, <2>8, <2>10, <3>1, <3>2 DEF GhostStep, ElectFacts, RaftTypes
  <2>12. LeadFacts(el, tl2)
    <3>. SUFFICES ASSUME NEW r \in Server, leads[r]
                  PROVE  /\ [term |-> term[r], leader |-> r] \in el
                         /\ log'[r] = tl2[term[r]]
      BY <1>1 DEF LeadFacts
    <3>1. [term |-> term[r], leader |-> r] \in el /\ log[r] = tl[term[r]]
      BY <1>0 DEF ElectedInv, LogsInv
    <3>2. CASE r = s
      BY <2>4, <2>9, <3>1, <3>2 DEF T
    <3>3. CASE r # s
      <4>1. [term |-> T, leader |-> s] \in el
        BY <1>0, <1>1 DEF ElectedInv, T
      <4>2. term[r] # T
        <5>. SUFFICES ASSUME term[r] = T PROVE FALSE
          OBVIOUS
        <5>1. [term |-> term[r], leader |-> r] = [term |-> T, leader |-> s]
          BY <1>0, <3>1, <4>1 DEF ElectedInv
        <5>2. [term |-> term[r], leader |-> r].leader = [term |-> T, leader |-> s].leader
          BY <5>1
        <5>. QED  BY <3>3, <5>2
      <4>3. term[r] \in Nat
        BY <1>0 DEF RaftTypes
      <4>. QED  BY <2>4, <2>9, <3>1, <3>3, <4>2, <4>3
    <3>. QED  BY <3>2, <3>3
  <2>13. CallFacts(tl2) /\ AckFacts
    BY <1>1 DEF CallFacts, AckFacts, AckedBy
  <2>14. MatchFacts /\ CommitFacts
    BY <1>0, <1>1, MatchIsAcked DEF MatchFacts, CommitFacts
  <2>15. RaftStep(el, tl, el, tl2)
    BY <2>10, <2>11, <2>12, <2>13, <2>14 DEF RaftStep
  <2>. QED  BY <1>3, <2>15 DEF LedgerOfBegin, tl2, T, e
<1>. QED  BY <1>2, <1>3

-----------------------------------------------------------------------------
(***************************************************************************)
(* The clients.                                                            *)
(***************************************************************************)

\* Nothing happens to client c.
SameClient(c) ==
    /\ clerk'[c] = clerk[c]
    /\ \A q \in queue' : q.client = c => q \in queue

\* The clerk of c begins an operation, ends one, asks the next server or asks one.
MovedOn(c) ==
    \/ clerk'[c].op = clerk[c].op + 1
    \/ clerk'[c].op = clerk[c].op /\ clerk'[c].stage = "none"
    \/ /\ clerk[c].stage = "ask"
       /\ clerk'[c].op = clerk[c].op /\ clerk'[c].hint = clerk[c].hint
       /\ clerk'[c].tries >= clerk[c].tries
    \/ /\ clerk[c].stage = "wait"
       /\ clerk'[c].op = clerk[c].op /\ clerk'[c].hint = clerk[c].hint
       /\ clerk'[c].tries = clerk[c].tries + 1

ClientsMove == \A c \in Client : SameClient(c) \/ MovedOn(c)

LEMMA ClerkTypes ==
    ASSUME ClientTypes, NEW c \in Client
    PROVE  /\ clerk[c].op \in Nat
           /\ clerk[c].hint \in 0 .. Len(Order) - 1
           /\ clerk[c].tries \in 0 .. Len(Order) /\ clerk[c].tries \in Nat
           /\ clerk[c].stage \in {"none", "ask", "wait"}
           /\ clerk[c].stage = "wait" => clerk[c].tries \in 0 .. Len(Order) - 1
<1>1. clerk[c] \in [op : Nat, hint : 0 .. Len(Order) - 1,
                    tries : 0 .. Len(Order), stage : {"none", "ask", "wait"}]
  BY DEF ClientTypes
<1>2. clerk[c].stage = "wait" => clerk[c].tries < Len(Order)
  BY DEF ClientTypes
<1>. QED  BY <1>1, <1>2, OrderLength

\* A client waits for one server.
LEMMA WaitsForOne ==
    ASSUME NEW c, NEW s, NEW r, WaitsFor(c, s), WaitsFor(c, r)
    PROVE  s = r
  BY DEF WaitsFor

\* And has at most one request in the queues.
LEMMA OneRequest ==
    ASSUME ClientTypes, QueueInv, NEW q \in queue, NEW p \in queue, q.client = p.client
    PROVE  q = p
<1>1. q.op = p.op /\ q.to = p.to
  BY WaitsForOne DEF QueueInv, QueuedAt
<1>2. q \in [client : Client, op : Nat \ {0}, to : Server]
      /\ p \in [client : Client, op : Nat \ {0}, to : Server]
  BY DEF ClientTypes
<1>. QED  BY <1>1, <1>2

LEMMA TakenStep ==
    ASSUME ClientTypes, ClientTypes', ClientsMove, NEW s \in Server, NEW c \in Client,
           NEW o \in Nat, Taken(s, c, o)
    PROVE  Taken(s, c, o)'
<1>1. /\ clerk[c].op \in Nat /\ clerk[c].tries \in Nat
      /\ clerk'[c].op \in Nat /\ clerk'[c].tries \in Nat
  BY DEF ClientTypes
<1>2. o <= clerk[c].op
  BY <1>1 DEF Taken
<1>3. ASSUME NEW k, clerk'[c].hint = clerk[c].hint
      PROVE  Target(c, k)' = Target(c, k)
  BY <1>3 DEF Target
<1>4. CASE SameClient(c)
  <2>1. WaitsFor(c, s)' <=> WaitsFor(c, s)
    BY <1>4 DEF SameClient, WaitsFor, Target
  <2>2. clerk'[c] = clerk[c] /\ \A k : Target(c, k)' = Target(c, k)
    BY <1>4 DEF SameClient, Target
  <2>3. (\A q \in queue : q.client # c) => \A q \in queue' : q.client # c
    BY <1>4 DEF SameClient
  <2>. QED  BY <2>1, <2>2, <2>3 DEF Taken
<1>5. CASE clerk'[c].op = clerk[c].op + 1
  BY <1>1, <1>2, <1>5 DEF Taken
<1>6. CASE clerk'[c].op = clerk[c].op /\ clerk'[c].stage = "none"
  BY <1>1, <1>2, <1>6 DEF Taken
<1>7. ASSUME clerk'[c].op = clerk[c].op, clerk'[c].hint = clerk[c].hint,
             clerk'[c].tries >= clerk[c].tries,
             NEW k \in 0 .. clerk[c].tries - 1, Target(c, k) = s, o = clerk[c].op
      PROVE  Taken(s, c, o)'
  <2>1. k \in 0 .. clerk'[c].tries - 1 /\ Target(c, k)' = s
    BY <1>1, <1>3, <1>7
  <2>. QED  BY <1>7, <2>1 DEF Taken
<1>8. CASE /\ clerk[c].stage = "ask"
           /\ clerk'[c].op = clerk[c].op /\ clerk'[c].hint = clerk[c].hint
           /\ clerk'[c].tries >= clerk[c].tries
  <2>1. CASE o < clerk[c].op
    BY <1>8, <2>1 DEF Taken
  <2>2. ASSUME o = clerk[c].op, NEW k \in 0 .. clerk[c].tries - 1, Target(c, k) = s
        PROVE  Taken(s, c, o)'
    BY <1>7, <1>8, <2>2
  <2>. QED  BY <1>8, <2>1, <2>2 DEF Taken, WaitsFor
<1>9. CASE /\ clerk[c].stage = "wait"
           /\ clerk'[c].op = clerk[c].op /\ clerk'[c].hint = clerk[c].hint
           /\ clerk'[c].tries = clerk[c].tries + 1
  <2>1. CASE o < clerk[c].op
    BY <1>9, <2>1 DEF Taken
  <2>2. ASSUME o = clerk[c].op, NEW k \in 0 .. clerk[c].tries - 1, Target(c, k) = s
        PROVE  Taken(s, c, o)'
    BY <1>1, <1>7, <1>9, <2>2
  <2>3. CASE o = clerk[c].op /\ WaitsFor(c, s)
    <3>1. PICK n \in Nat : n = clerk[c].tries
      BY <1>1
    <3>2. n \in 0 .. clerk'[c].tries - 1
      BY <1>1, <1>9, <3>1
    <3>3. Target(c, n) = s
      BY <2>3, <3>1 DEF WaitsFor
    <3>4. Target(c, n)' = s
      BY <1>3, <1>9, <3>3
    <3>. QED  BY <1>9, <2>3, <3>2, <3>4 DEF Taken
  <2>. QED  BY <1>9, <2>1, <2>2, <2>3 DEF Taken
<1>. QED  BY <1>4, <1>5, <1>6, <1>8, <1>9 DEF ClientsMove, MovedOn

\* What the ledger says of the order of operations holds of every log.
LEMMA OrderOfLog ==
    ASSUME NEW el, NEW tl, LedgerInv(el, tl), OrderInv(tl), NEW s \in Seq(Entry),
           Rooted(tl, s)
    PROVE  /\ InOrder(s)
           /\ \A n \in DOMAIN s : s[n].op <= clerk[s[n].client].op
<1>0. Len(s) \in Nat /\ DOMAIN s = 1 .. Len(s)
  BY SeqFacts
<1>1. CASE s = <<>>
  <2>1. DOMAIN s = {}
    BY <1>1
  <2>. QED  BY <2>1 DEF InOrder
<1>2. CASE s # <<>>
  <2> DEFINE L == Len(s)
             U == s[L].term
  <2>1. L \in DOMAIN s /\ U \in Nat
    <3>1. L # 0
      BY <1>2
    <3>2. L \in DOMAIN s
      BY <1>0, <3>1
    <3>. QED  BY <3>2, SeqFacts
  <2>2. Agree(tl[U], s, L)
    BY <2>1 DEF Rooted
  <2>3. \A n \in DOMAIN s : n \in DOMAIN tl[U] /\ tl[U][n] = s[n]
    BY <1>0, <2>1, <2>2, LedgerFacts DEF Agree
  <2> HIDE DEF U
  <2>4. /\ InOrder(tl[U])
        /\ \A n \in DOMAIN tl[U] : tl[U][n].op <= clerk[tl[U][n].client].op
    BY <2>1 DEF OrderInv
  <2>. QED  BY <2>3, <2>4 DEF InOrder
<1>. QED  BY <1>1, <1>2

LEMMA OnceOfLog ==
    ASSUME NEW el, NEW tl, LedgerInv(el, tl), OnceInv(el, tl), NEW s \in Seq(Entry),
           Rooted(tl, s)
    PROVE  Once(s)
<1>0. Len(s) \in Nat /\ DOMAIN s = 1 .. Len(s)
  BY SeqFacts
<1>1. ASSUME NEW x \in DOMAIN s, NEW y \in DOMAIN s, x < y
      PROVE  s[x] # s[y]
  <2>1. s[y].term \in Nat /\ Agree(tl[s[y].term], s, y)
    BY SeqFacts DEF Rooted
  <2>2. /\ x \in DOMAIN tl[s[y].term] /\ y \in DOMAIN tl[s[y].term]
        /\ tl[s[y].term][x] = s[x] /\ tl[s[y].term][y] = s[y] /\ x # y
    BY <1>0, <1>1, <2>1, LedgerFacts DEF Agree
  <2>3. Once(tl[s[y].term])
    BY <2>1 DEF OnceInv
  <2>. QED  BY <2>2, <2>3 DEF Once
<1>. QED  BY <1>0, <1>1 DEF Once

LEMMA EntryParts ==
    ASSUME NEW e \in Entry
    PROVE  e.client \in Client /\ e.op \in Nat /\ e.term \in Nat
  BY DEF Entry

\* No leader is elected and none appends.
LEMMA HistoryStep ==
    ASSUME NEW el, NEW tl, ElectedInv(el), LedgerInv(el, tl), OrderInv(tl),
           OnceInv(el, tl), ClientTypes, ClientTypes', ClientsMove
    PROVE  OrderInv(tl)' /\ OnceInv(el, tl)'
<1>1. \A c \in Client : /\ clerk[c].op \in Nat /\ clerk'[c].op \in Nat
                        /\ clerk[c].op <= clerk'[c].op
  <2>. SUFFICES ASSUME NEW c \in Client
                PROVE  /\ clerk[c].op \in Nat /\ clerk'[c].op \in Nat
                       /\ clerk[c].op <= clerk'[c].op
    OBVIOUS
  <2>1. clerk[c].op \in Nat /\ clerk'[c].op \in Nat
    BY DEF ClientTypes
  <2>2. \/ clerk'[c].op = clerk[c].op
        \/ clerk'[c].op = clerk[c].op + 1
    BY DEF ClientsMove, SameClient, MovedOn
  <2>. QED  BY <2>1, <2>2
<1>2. ASSUME NEW t \in Nat, NEW n \in DOMAIN tl[t]
      PROVE  tl[t][n].client \in Client /\ tl[t][n].op \in Nat
  BY <1>2, LedgerFacts, EntryParts
<1>3. OrderInv(tl)'
  <2>. SUFFICES ASSUME NEW t \in Nat
                PROVE  /\ InOrder(tl[t])
                       /\ \A n \in DOMAIN tl[t] : tl[t][n].op <= clerk'[tl[t][n].client].op
    BY DEF OrderInv, InOrder
  <2>1. InOrder(tl[t])
    BY DEF OrderInv
  <2>2. ASSUME NEW n \in DOMAIN tl[t]
        PROVE  tl[t][n].op <= clerk'[tl[t][n].client].op
    <3>1. tl[t][n].op <= clerk[tl[t][n].client].op
      BY DEF OrderInv
    <3>. QED  BY <1>1, <1>2, <3>1
  <2>. QED  BY <2>1, <2>2
<1>4. OnceInv(el, tl)'
  <2>. SUFFICES ASSUME NEW e \in el, NEW n \in DOMAIN tl[e.term],
                       tl[e.term][n].term = e.term
                PROVE  Taken(e.leader, tl[e.term][n].client, tl[e.term][n].op)'
    BY DEF OnceInv, Once
  <2>1. e.term \in Nat /\ e.leader \in Server
    BY DEF ElectedInv
  <2>2. Taken(e.leader, tl[e.term][n].client, tl[e.term][n].op)
    BY DEF OnceInv
  <2>. QED  BY <1>2, <2>1, <2>2, TakenStep
<1>. QED  BY <1>3, <1>4

LEMMA DoneStep ==
    ASSUME NEW el, NEW tl, NEW el2, NEW tl2, RaftInv(el, tl), RaftStep(el, tl, el2, tl2),
           NEW d, DoneAt(el, tl, d)
    PROVE  DoneAt(el2, tl2, d)'
<1>0. /\ RaftTypes /\ ElectedInv(el) /\ LedgerInv(el, tl) /\ LogsInv(tl)
      /\ GhostStep(el, tl, el2, tl2)
  BY DEF RaftInv, RaftStep
<1>1. PICK T \in Nat, n \in Nat : \E x \in 1 .. n :
        /\ Chosen(el, tl, T, n)
        /\ tl[T][x].client = d.client
        /\ tl[T][x].op = d.op
  BY DEF DoneAt
<1>2. PICK x \in 1 .. n : /\ Chosen(el, tl, T, n)
                          /\ tl[T][x].client = d.client
                          /\ tl[T][x].op = d.op
  BY <1>1
<1>3. ChosenAfter(el2, tl2, T, n)
  BY <1>0, <1>2, ChosenStep
<1>4. tl2[T][x] = tl[T][x]
  <2>1. n \in 1 .. Len(tl[T]) /\ Len(tl[T]) \in Nat
    BY <1>0, <1>2, LedgerFacts DEF Chosen, Has
  <2>2. Agree(tl[T], tl2[T], Len(tl[T]))
    BY <1>0 DEF GhostStep, Extends
  <2>. QED  BY <2>1, <2>2 DEF Agree
<1>5. Chosen(el2, tl2, T, n)'
  BY <1>3 DEF Chosen, ChosenAfter, Held, HeldAfter
<1>. QED  BY <1>2, <1>4, <1>5 DEF DoneAt

\* Requests and server threads that a step leaves alone.
LEMMA ServedStep ==
    ASSUME QueueInv, WorkInv,
           \A q \in queue' :
              \/ q \in queue /\ SameClient(q.client) /\ up'[q.to]
              \/ QueuedAt(q)',
           \A s \in Server : work'[s] # Free =>
              \/ /\ work[s] # Free
                 /\ work'[s].client = work[s].client /\ work'[s].op = work[s].op
                 /\ up'[s] /\ log'[s] = log[s]
                 /\ SameClient(work[s].client)
              \/ WorkAt(s)'
    PROVE  QueueInv' /\ WorkInv'
<1>1. ASSUME NEW c, SameClient(c)
      PROVE  clerk'[c] = clerk[c] /\ \A s : WaitsFor(c, s)' <=> WaitsFor(c, s)
  BY <1>1 DEF SameClient, WaitsFor, Target
<1>2. ASSUME NEW q \in queue', q \in queue, SameClient(q.client), up'[q.to]
      PROVE  QueuedAt(q)'
  BY <1>1, <1>2 DEF QueueInv, QueuedAt
<1>3. ASSUME NEW s \in Server, work[s] # Free,
             work'[s].client = work[s].client, work'[s].op = work[s].op,
             up'[s], log'[s] = log[s], SameClient(work[s].client)
      PROVE  WorkAt(s)'
  <2>1. PICK c, o : c = work[s].client /\ o = work[s].op
    OBVIOUS
  <2>2. /\ c \in Client /\ o = clerk[c].op /\ WaitsFor(c, s)
        /\ \A q \in queue : q.client # c
        /\ Program[c][o] = "put" =>
             \E x \in DOMAIN log[s] : log[s][x].client = c /\ log[s][x].op = o
    BY <1>3, <2>1 DEF WorkInv, WorkAt
  <2>3. SameClient(c) /\ work'[s].client = c /\ work'[s].op = o
    BY <1>3, <2>1
  <2>4. clerk'[c] = clerk[c] /\ WaitsFor(c, s)'
    BY <1>1, <2>2, <2>3
  <2>5. \A q \in queue' : q.client # c
    BY <2>2, <2>3 DEF SameClient
  <2>. QED  BY <1>3, <2>2, <2>3, <2>4, <2>5 DEF WorkAt
<1>. QED  BY <1>2, <1>3 DEF QueueInv, WorkInv

LEMMA CalmStep ==
    ASSUME NEW el, NEW tl, ServiceInv(el, tl), RaftStep(el, tl, el, tl),
           ClientTypes', ClientsMove, QueueInv', WorkInv',
           \A d \in done' : d \in done \/ DoneAt(el, tl, d)'
    PROVE  ServiceInv(el, tl)'
<1>1. RaftInv(el, tl)'
  BY RaftInvStep DEF ServiceInv
<1>2. OrderInv(tl)' /\ OnceInv(el, tl)'
  BY HistoryStep DEF ServiceInv, RaftInv, ClientInv
<1>3. DoneInv(el, tl)'
  <2>1. ASSUME NEW d \in done'
        PROVE  DoneAt(el, tl, d)'
    BY DoneStep DEF ServiceInv, ClientInv, DoneInv
  <2>. QED  BY <2>1 DEF DoneInv
<1>. QED  BY <1>1, <1>2, <1>3 DEF ServiceInv, ClientInv

\* Clients and server threads do not move.
LEMMA QuietClients ==
    ASSUME ClientTypes, QueueInv, WorkInv, UNCHANGED <<up, work, clientVars, crashed>>,
           \A s \in Server : work[s] # Free => log'[s] = log[s]
    PROVE  ClientTypes' /\ ClientsMove /\ QueueInv' /\ WorkInv'
<1>1. ClientTypes'
  BY DEF ClientTypes, clientVars
<1>2. \A c : SameClient(c)
  BY DEF SameClient, clientVars
<1>3. QueueInv' /\ WorkInv'
  <2>1. \A q \in queue' : q \in queue /\ up'[q.to]
    BY DEF QueueInv, QueuedAt, clientVars
  <2>2. \A s \in Server : work'[s] # Free =>
          /\ work[s] # Free
          /\ work'[s].client = work[s].client /\ work'[s].op = work[s].op
          /\ up'[s] /\ log'[s] = log[s]
    BY DEF WorkInv, WorkAt
  <2>. QED  BY <1>2, <2>1, <2>2, ServedStep
<1>. QED  BY <1>1, <1>2, <1>3 DEF ClientsMove

LEMMA QuietStep ==
    ASSUME NEW el, NEW tl, ServiceInv(el, tl), RaftStep(el, tl, el, tl),
           UNCHANGED <<up, work, clientVars, crashed>>,
           \A s \in Server : work[s] # Free => log'[s] = log[s]
    PROVE  ServiceInv(el, tl)'
<1>1. ClientTypes' /\ ClientsMove /\ QueueInv' /\ WorkInv'
  BY QuietClients DEF ServiceInv, ClientInv
<1>2. done' = done
  BY DEF clientVars
<1>. QED  BY <1>1, <1>2, CalmStep

LEMMA HandleStep ==
    ASSUME NEW el, NEW tl, ServiceInv(el, tl), NEW s \in Server, NEW h \in Threads,
           Handle(s, h)
    PROVE  ServiceInv(el, tl)'
<1>1. RaftStep(el, tl, el, tl)
  BY HandleFacts DEF ServiceInv
<1>2. RaftTypes
  BY DEF ServiceInv, RaftInv
<1>3. ASSUME NEW r \in Server, work[r] # Free
      PROVE  log'[r] = log[r]
  <2>1. r # call[s][h].to
    BY <1>3 DEF Handle, Idle
  <2>2. \/ log' = log
        \/ log' = [log EXCEPT ![call[s][h].to] = call[s][h].log]
    BY DEF Handle, raftVars
  <2>. QED  BY <1>2, <2>1, <2>2 DEF RaftTypes
<1>4. UNCHANGED <<up, work, clientVars, crashed>>
  BY DEF Handle
<1>. QED  BY <1>1, <1>3, <1>4, QuietStep

LEMMA ReceiveStep ==
    ASSUME NEW el, NEW tl, ServiceInv(el, tl), NEW s \in Server, NEW h \in Threads,
           Receive(s, h)
    PROVE  ServiceInv(el, tl)'
<1>1. RaftStep(el, tl, el, tl)
  BY ReceiveFacts DEF ServiceInv
<1>2. UNCHANGED <<up, work, clientVars, crashed, log>>
  BY DEF Receive
<1>. QED  BY <1>1, <1>2, QuietStep

LEMMA CallFailsStep ==
    ASSUME NEW el, NEW tl, ServiceInv(el, tl), NEW s \in Server, NEW h \in Threads,
           CallFails(s, h)
    PROVE  ServiceInv(el, tl)'
<1>1. RaftStep(el, tl, el, tl)
  BY CallFailsFacts DEF ServiceInv
<1>2. UNCHANGED <<up, work, clientVars, crashed, log>>
  BY DEF CallFails, raftVars
<1>. QED  BY <1>1, <1>2, QuietStep

LEMMA BeatStep ==
    ASSUME NEW el, NEW tl, ServiceInv(el, tl), NEW s \in Server, NEW p \in Server,
           Beat(s, p)
    PROVE  ServiceInv(el, tl)'
<1>1. RaftStep(el, tl, el, tl)
  BY BeatFacts DEF ServiceInv
<1>2. UNCHANGED <<up, work, clientVars, crashed, log>>
  BY DEF Beat, raftVars
<1>. QED  BY <1>1, <1>2, QuietStep

LEMMA BeatCommitStep ==
    ASSUME NEW el, NEW tl, ServiceInv(el, tl), NEW s \in Server, BeatCommit(s)
    PROVE  ServiceInv(el, tl)'
<1>1. RaftStep(el, tl, el, tl)
  BY CommittingFacts DEF ServiceInv, BeatCommit, threadVars
<1>2. UNCHANGED <<up, work, clientVars, crashed, log>>
  BY DEF BeatCommit, threadVars
<1>. QED  BY <1>1, <1>2, QuietStep

LEMMA ElectStep ==
    ASSUME NEW el, NEW tl, ServiceInv(el, tl), NEW l \in Server, NEW Q \in SUBSET Server,
           NEW t \in Nat, Elect(l, Q, t)
    PROVE  \E el2, tl2 : ServiceInv(el2, tl2)'
<1> DEFINE new == [term |-> t, leader |-> l]
<1>0. /\ RaftInv(el, tl) /\ RaftTypes /\ ElectedInv(el) /\ LedgerInv(el, tl) /\ LogsInv(tl)
      /\ ClientTypes /\ QueueInv /\ WorkInv /\ OrderInv(tl) /\ OnceInv(el, tl)
      /\ DoneInv(el, tl)
  BY DEF ServiceInv, RaftInv, ClientInv
<1>1. PICK el2, tl2 : el2 = el \cup {new} /\ tl2 = [tl EXCEPT ![t] = log[l]]
  OBVIOUS
<1>2. RaftStep(el, tl, el2, tl2)
  BY <1>0, <1>1, ElectStepFacts
<1>3. RaftInv(el2, tl2)'
  BY <1>0, <1>2, RaftInvStep
<1>4. UNCHANGED <<up, work, clientVars, crashed, log>>
  BY DEF Elect, threadVars
<1>5. ClientTypes' /\ ClientsMove /\ QueueInv' /\ WorkInv'
  BY <1>0, <1>4, QuietClients
<1>6. OrderInv(tl)' /\ OnceInv(el, tl)'
  BY <1>0, <1>5, HistoryStep
<1>7. DoneInv(el2, tl2)'
  <2>1. done' = done
    BY <1>4 DEF clientVars
  <2>2. ASSUME NEW d \in done
        PROVE  DoneAt(el2, tl2, d)'
    BY <1>0, <1>2, DoneStep DEF DoneInv
  <2>. QED  BY <2>1, <2>2 DEF DoneInv
<1>8. /\ log[l] \in Seq(Entry) /\ Rooted(tl, log[l]) /\ term[l] \in Nat /\ term[l] < t
      /\ \A n \in DOMAIN log[l] : log[l][n].term <= term[l] /\ log[l][n].term \in Nat
  BY <1>0, SeqFacts DEF RaftTypes, LogsInv, Elect
<1>9. /\ tl2[t] = log[l]
      /\ \A u \in Nat : u # t => tl2[u] = tl[u]
  BY <1>0, <1>1 DEF LedgerInv, Ledgers
<1>10. clerk' = clerk
  BY <1>4 DEF clientVars
<1>11. OrderInv(tl2)'
  <2>. SUFFICES ASSUME NEW u \in Nat
                PROVE  /\ InOrder(tl2[u])
                       /\ \A n \in DOMAIN tl2[u] : tl2[u][n].op <= clerk[tl2[u][n].client].op
    BY <1>10 DEF OrderInv, InOrder
  <2>1. CASE u = t
    BY <1>0, <1>8, <1>9, <2>1, OrderOfLog
  <2>2. CASE u # t
    BY <1>0, <1>9, <2>2 DEF OrderInv
  <2>. QED  BY <2>1, <2>2
<1>12. OnceInv(el2, tl2)'
  <2>1. ASSUME NEW u \in Nat
        PROVE  Once(tl2[u])
    <3>1. CASE u = t
      BY <1>0, <1>8, <1>9, <3>1, OnceOfLog
    <3>2. CASE u # t
      BY <1>0, <1>9, <3>2 DEF OnceInv
    <3>. QED  BY <3>1, <3>2
  <2>2. ASSUME NEW e \in el2, NEW n \in DOMAIN tl2[e.term], tl2[e.term][n].term = e.term
        PROVE  Taken(e.leader, tl2[e.term][n].client, tl2[e.term][n].op)'
    <3>1. e.term # t
      <4>. SUFFICES ASSUME e.term = t PROVE FALSE
        OBVIOUS
      <4>. QED  BY <1>8, <1>9, <2>2
    <3>2. e \in el
      BY <1>1, <3>1
    <3>3. e.term \in Nat
      BY <1>0, <3>2 DEF ElectedInv
    <3>4. tl2[e.term] = tl[e.term]
      BY <1>9, <3>1, <3>3
    <3>. QED  BY <1>6, <2>2, <3>2, <3>4 DEF OnceInv
  <2>. QED  BY <2>1, <2>2 DEF OnceInv, Once
<1>13. ServiceInv(el2, tl2)'
  BY <1>3, <1>5, <1>7, <1>11, <1>12 DEF ServiceInv, ClientInv
<1>. QED  BY <1>13

-----------------------------------------------------------------------------
(***************************************************************************)
(* The clerks' own steps, and the answers they get.                        *)
(***************************************************************************)

Clerk == [op : Nat, hint : 0 .. Len(Order) - 1,
          tries : 0 .. Len(Order), stage : {"none", "ask", "wait"}]

\* What a clerk may become.
ClerkOK(k) ==
    /\ k \in Clerk
    /\ k.stage # "none" => k.op # 0
    /\ k.stage = "wait" => k.tries < Len(Order)

\* The clerk of c becomes k; no server thread is serving c, and only c may get a request.
LEMMA ClientStep ==
    ASSUME NEW el, NEW tl, ServiceInv(el, tl), RaftStep(el, tl, el, tl),
           NEW c \in Client, NEW k, ClerkOK(k), clerk' = [clerk EXCEPT ![c] = k],
           MovedOn(c), UNCHANGED <<up, log, crashed>>,
           work' \in [Server -> [client : Client \cup {Nil}, op : Nat, left : Seq(Server)]],
           \A s \in Server : /\ work'[s].left \in Seq(Server \ {s})
                             /\ work'[s] # Free => work'[s] = work[s] /\ work[s].client # c,
           \A q \in queue' :
              \/ q \in queue /\ q.client # c
              \/ /\ q \in [client : Client, op : Nat \ {0}, to : Server]
                 /\ q.client = c /\ QueuedAt(q)',
           done' \subseteq [client : Client, op : Nat \ {0}],
           \A d \in done' : d \in done \/ DoneAt(el, tl, d)'
    PROVE  ServiceInv(el, tl)'
<1>0. ClientTypes /\ QueueInv /\ WorkInv
  BY DEF ServiceInv, ClientInv
<1>1. clerk \in [Client -> Clerk] /\ k \in Clerk
  BY <1>0 DEF ClientTypes, Clerk, ClerkOK
<1>2. clerk' \in [Client -> Clerk] /\ clerk'[c] = k
      /\ \A d \in Client : d # c => clerk'[d] = clerk[d]
  BY <1>1
<1>3. ClientTypes'
  <2>1. queue' \subseteq [client : Client, op : Nat \ {0}, to : Server]
    BY <1>0 DEF ClientTypes
  <2>2. /\ \A d \in Client : clerk'[d].stage # "none" => clerk'[d].op # 0
        /\ \A d \in Client : clerk'[d].stage = "wait" => clerk'[d].tries < Len(Order)
    BY <1>0, <1>2 DEF ClientTypes, ClerkOK
  <2>3. crashed' \subseteq Unsteady
    BY <1>0 DEF ClientTypes
  <2>. QED  BY <1>2, <2>1, <2>2, <2>3 DEF ClientTypes, Clerk
<1>4. \A d \in Client : d # c => SameClient(d)
  BY <1>2 DEF SameClient
<1>5. ClientsMove
  BY <1>4 DEF ClientsMove
<1>6. QueueInv' /\ WorkInv'
  <2>1. ASSUME NEW q \in queue'
        PROVE  \/ q \in queue /\ SameClient(q.client) /\ up'[q.to]
               \/ QueuedAt(q)'
    <3>1. CASE q \in queue /\ q.client # c
      <4>1. q.client \in Client
        BY <1>0, <3>1 DEF ClientTypes
      <4>2. up[q.to]
        BY <1>0, <3>1 DEF QueueInv, QueuedAt
      <4>. QED  BY <1>4, <3>1, <4>1, <4>2
    <3>. QED  BY <3>1
  <2>2. ASSUME NEW s \in Server, work'[s] # Free
        PROVE  /\ work[s] # Free
               /\ work'[s].client = work[s].client /\ work'[s].op = work[s].op
               /\ up'[s] /\ log'[s] = log[s]
               /\ SameClient(work[s].client)
    <3>1. work'[s] = work[s] /\ work[s].client # c
      BY <2>2
    <3>2. up[s] /\ work[s].client \in Client
      BY <1>0, <2>2, <3>1 DEF WorkInv, WorkAt
    <3>. QED  BY <1>4, <2>2, <3>1, <3>2
  <2>. QED  BY <1>0, <2>1, <2>2, ServedStep
<1>. QED  BY <1>3, <1>5, <1>6, CalmStep

\* No server has to do with a client that does not wait for one.
LEMMA NotServed ==
    ASSUME QueueInv, WorkInv, NEW c, clerk[c].stage # "wait"
    PROVE  /\ \A q \in queue : q.client # c
           /\ \A s \in Server : work[s] # Free => work[s].client # c
  BY DEF QueueInv, QueuedAt, WorkInv, WorkAt, WaitsFor

\* A client's step that leaves the server threads alone.
LEMMA AskStep ==
    ASSUME NEW el, NEW tl, ServiceInv(el, tl), NEW c \in Client, NEW k, ClerkOK(k),
           clerk' = [clerk EXCEPT ![c] = k], MovedOn(c),
           UNCHANGED <<up, raftVars, threadVars, crashed>>,
           \A s \in Server : work[s] # Free => work[s].client # c,
           \A q \in queue' :
              \/ q \in queue /\ q.client # c
              \/ /\ q \in [client : Client, op : Nat \ {0}, to : Server]
                 /\ q.client = c /\ QueuedAt(q)',
           done' \subseteq done
    PROVE  ServiceInv(el, tl)'
<1>1. RaftInv(el, tl) /\ RaftTypes /\ ClientTypes
  BY DEF ServiceInv, RaftInv, ClientInv
<1>2. up' \in [Server -> BOOLEAN]
  BY <1>1 DEF RaftTypes
<1>3. RaftStep(el, tl, el, tl)
  BY <1>1, <1>2, SameRaftFacts DEF threadVars
<1>4. work' = work /\ log' = log
  BY DEF threadVars, raftVars
<1>5. /\ work' \in [Server -> [client : Client \cup {Nil}, op : Nat, left : Seq(Server)]]
      /\ \A s \in Server : work'[s].left \in Seq(Server \ {s})
      /\ done' \subseteq [client : Client, op : Nat \ {0}]
  BY <1>1, <1>4 DEF ClientTypes
<1>6. \A s \in Server : work'[s] # Free => work'[s] = work[s] /\ work[s].client # c
  BY <1>4
<1>7. \A d \in done' : d \in done \/ DoneAt(el, tl, d)'
  OBVIOUS
<1>. QED  BY <1>3, <1>4, <1>5, <1>6, <1>7, ClientStep

LEMMA StartStep ==
    ASSUME NEW el, NEW tl, ServiceInv(el, tl), NEW c \in Client, Start(c)
    PROVE  ServiceInv(el, tl)'
<1> DEFINE k == [clerk[c] EXCEPT !.op = @ + 1, !.tries = 0, !.stage = "ask"]
<1>0. ClientTypes /\ QueueInv /\ WorkInv
  BY DEF ServiceInv, ClientInv
<1>1. clerk \in [Client -> Clerk] /\ clerk[c] \in Clerk
  BY <1>0 DEF ClientTypes, Clerk
<1>2. clerk' = [clerk EXCEPT ![c] = k]
  BY <1>1 DEF Start, Clerk
<1>4. clerk[c].op \in Nat
  BY <1>1 DEF Clerk
<1>3. k \in Clerk /\ k.op = clerk[c].op + 1 /\ k.stage = "ask"
  <2>1. clerk[c].op + 1 \in Nat /\ 0 \in 0 .. Len(Order)
    BY <1>4, OrderLength
  <2>. QED  BY <1>1, <2>1 DEF Clerk
<1> HIDE DEF k
<1>5. ClerkOK(k)
  BY <1>3, <1>4 DEF ClerkOK
<1>6. MovedOn(c)
  BY <1>1, <1>2, <1>3 DEF MovedOn
<1>7. /\ UNCHANGED <<up, raftVars, threadVars, crashed>>
      /\ queue' = queue /\ done' = done /\ clerk[c].stage # "wait"
  BY DEF Start
<1>. QED  BY <1>0, <1>2, <1>5, <1>6, <1>7, NotServed, AskStep

LEMMA GiveUpStep ==
    ASSUME NEW el, NEW tl, ServiceInv(el, tl), NEW c \in Client, GiveUp(c)
    PROVE  ServiceInv(el, tl)'
<1> DEFINE k == [clerk[c] EXCEPT !.stage = "none"]
<1>0. ClientTypes /\ QueueInv /\ WorkInv
  BY DEF ServiceInv, ClientInv
<1>1. clerk \in [Client -> Clerk] /\ clerk[c] \in Clerk
  BY <1>0 DEF ClientTypes, Clerk
<1>2. clerk' = [clerk EXCEPT ![c] = k]
  BY <1>1 DEF GiveUp, Clerk
<1>3. k \in Clerk /\ k.op = clerk[c].op /\ k.stage = "none"
  BY <1>1 DEF Clerk
<1> HIDE DEF k
<1>5. ClerkOK(k)
  BY <1>3 DEF ClerkOK
<1>6. MovedOn(c)
  BY <1>1, <1>2, <1>3 DEF MovedOn
<1>7. /\ UNCHANGED <<up, raftVars, threadVars, crashed>>
      /\ queue' = queue /\ done' = done /\ clerk[c].stage # "wait"
  BY DEF GiveUp
<1>. QED  BY <1>0, <1>2, <1>5, <1>6, <1>7, NotServed, AskStep

LEMMA AskingStep ==
    ASSUME NEW el, NEW tl, ServiceInv(el, tl), NEW c \in Client, Ask(c)
    PROVE  ServiceInv(el, tl)'
<1> DEFINE s == Target(c, clerk[c].tries)
           k == IF up[s] THEN [clerk[c] EXCEPT !.stage = "wait"]
                ELSE [clerk[c] EXCEPT !.tries = @ + 1]
           q == [client |-> c, op |-> clerk[c].op, to |-> s]
<1>0. ClientTypes /\ QueueInv /\ WorkInv
  BY DEF ServiceInv, ClientInv
<1>1. clerk \in [Client -> Clerk] /\ clerk[c] \in Clerk
  BY <1>0 DEF ClientTypes, Clerk
<1>2. /\ clerk[c].stage = "ask" /\ clerk[c].tries < Len(Order) /\ clerk[c].op \in Nat \ {0}
      /\ clerk[c].tries \in Nat /\ clerk[c].hint \in 0 .. Len(Order) - 1
      /\ Len(Order) \in Nat
  BY <1>0, <1>1, OrderLength DEF Ask, ClientTypes, Clerk
<1>3. s \in Server
  BY <1>2, TargetType
<1> HIDE DEF s
<1>4. clerk' = [clerk EXCEPT ![c] = k]
  BY <1>1 DEF Ask, Clerk, s
<1>5. /\ k \in Clerk /\ k.op = clerk[c].op /\ k.hint = clerk[c].hint
      /\ k.tries = IF up[s] THEN clerk[c].tries ELSE clerk[c].tries + 1
      /\ k.stage = IF up[s] THEN "wait" ELSE "ask"
  BY SMTT(30), <1>1, <1>2 DEF Clerk
<1> HIDE DEF k
<1>6. ClerkOK(k)
  BY <1>2, <1>5 DEF ClerkOK
<1>7. clerk'[c] = k
  BY <1>1, <1>4
<1>8. MovedOn(c)
  BY <1>2, <1>5, <1>7 DEF MovedOn
<1>9. /\ UNCHANGED <<up, raftVars, threadVars, crashed>> /\ done' = done
      /\ queue' = queue \/ (up[s] /\ queue' = queue \cup {q})
  BY DEF Ask, s
<1>10. ASSUME NEW p, p = q, up[s]
       PROVE  QueuedAt(p)'
  <2>1. PICK r, n : r = s /\ n = clerk[c].tries
    OBVIOUS
  <2>2. Target(c, n) = r
    BY <2>1 DEF s
  <2>3. Target(c, n)' = r
    BY <1>5, <1>7, <2>2 DEF Target
  <2>4. WaitsFor(c, r)'
    BY <1>5, <1>7, <1>10, <2>1, <2>3 DEF WaitsFor
  <2>5. p.client = c /\ p.to = r /\ p.op = clerk'[c].op
    BY <1>5, <1>7, <1>10, <2>1
  <2>. QED  BY <1>9, <1>10, <2>1, <2>4, <2>5 DEF QueuedAt
<1>11. q \in [client : Client, op : Nat \ {0}, to : Server] /\ q.client = c
  BY <1>2, <1>3
<1> HIDE DEF q
<1>12. \A p \in queue' :
         \/ p \in queue /\ p.client # c
         \/ /\ p \in [client : Client, op : Nat \ {0}, to : Server]
            /\ p.client = c /\ QueuedAt(p)'
  <2>. SUFFICES ASSUME NEW p \in queue'
                PROVE  \/ p \in queue /\ p.client # c
                       \/ /\ p \in [client : Client, op : Nat \ {0}, to : Server]
                          /\ p.client = c /\ QueuedAt(p)'
    OBVIOUS
  <2>1. CASE p \in queue
    BY <1>0, <1>2, <2>1, NotServed
  <2>2. CASE p \notin queue
    <3>1. up[s] /\ p = q
      BY <1>9, <2>2
    <3>. QED  BY <1>10, <1>11, <3>1
  <2>. QED  BY <2>1, <2>2
<1>. QED  BY <1>0, <1>2, <1>4, <1>6, <1>8, <1>9, <1>12, NotServed, AskStep

LEMMA HangUpStep ==
    ASSUME NEW el, NEW tl, ServiceInv(el, tl), NEW c \in Client, HangUp(c)
    PROVE  ServiceInv(el, tl)'
<1> DEFINE k == [clerk[c] EXCEPT !.tries = @ + 1, !.stage = "ask"]
<1>0. ClientTypes /\ QueueInv /\ WorkInv
  BY DEF ServiceInv, ClientInv
<1>1. clerk \in [Client -> Clerk] /\ clerk[c] \in Clerk
  BY <1>0 DEF ClientTypes, Clerk
<1>2. PICK s \in Server : WaitsFor(c, s) /\ ~up[s]
  BY DEF HangUp, MayHangUp
<1>3. clerk[c].stage = "wait" /\ clerk[c].tries < Len(Order)
  BY <1>0, <1>2 DEF WaitsFor, ClientTypes
<1>4. /\ clerk[c].tries \in Nat /\ clerk[c].tries + 1 \in 0 .. Len(Order)
      /\ clerk[c].op \in Nat \ {0}
  <2>1. clerk[c].tries \in 0 .. Len(Order) /\ clerk[c].op \in Nat
    BY <1>1 DEF Clerk
  <2>2. clerk[c].op # 0
    BY <1>0, <1>3 DEF ClientTypes
  <2>. QED  BY <1>3, <2>1, <2>2, OrderLength
<1>5. clerk' = [clerk EXCEPT ![c] = k]
  BY <1>1 DEF HangUp, Clerk
<1>6. /\ k \in Clerk /\ k.op = clerk[c].op /\ k.hint = clerk[c].hint
      /\ k.tries = clerk[c].tries + 1 /\ k.stage = "ask"
  BY <1>1, <1>4 DEF Clerk
<1> HIDE DEF k
<1>7. ClerkOK(k)
  BY <1>4, <1>6 DEF ClerkOK
<1>8. MovedOn(c)
  BY <1>1, <1>3, <1>5, <1>6 DEF MovedOn
<1>9. /\ \A q \in queue : q.client # c
      /\ \A r \in Server : work[r] # Free => work[r].client # c
  BY <1>0, <1>2, WaitsForOne DEF QueueInv, QueuedAt, WorkInv, WorkAt
<1>10. /\ UNCHANGED <<up, raftVars, threadVars, crashed>>
       /\ queue' = queue /\ done' = done
  BY DEF HangUp
<1>. QED  BY <1>5, <1>7, <1>8, <1>9, <1>10, AskStep

\* The client hears the answer it waits for.
LEMMA AnswerFacts ==
    ASSUME ClientTypes, NEW s \in Server, NEW c \in Client, NEW op, NEW ok \in BOOLEAN,
           clerk[c].op = op, WaitsFor(c, s), Answer(s, c, op, ok)
    PROVE  /\ \E k : ClerkOK(k) /\ clerk' = [clerk EXCEPT ![c] = k]
           /\ MovedOn(c)
           /\ op \in Nat \ {0}
           /\ \/ done' = done
              \/ ok /\ Program[c][op] = "put" /\ done' = done \cup {[client |-> c, op |-> op]}
<1> DEFINE h == (clerk[c].hint + clerk[c].tries) % Len(Order)
           yes == [clerk[c] EXCEPT !.stage = "none", !.hint = h]
           no == [clerk[c] EXCEPT !.stage = "ask", !.tries = clerk[c].tries + 1]
           k == IF ok THEN yes ELSE no
<1>1. clerk \in [Client -> Clerk] /\ clerk[c] \in Clerk
  BY DEF ClientTypes, Clerk
<1>2. clerk[c].stage = "wait" /\ clerk[c].tries < Len(Order)
  BY DEF WaitsFor, ClientTypes
<1>3. /\ clerk[c].tries \in 0 .. Len(Order) - 1 /\ clerk[c].hint \in 0 .. Len(Order) - 1
      /\ clerk[c].tries + 1 \in 0 .. Len(Order)
      /\ clerk[c].op \in Nat \ {0} /\ Len(Order) \in Nat \ {0}
  <2>1. /\ clerk[c].tries \in 0 .. Len(Order) /\ clerk[c].hint \in 0 .. Len(Order) - 1
        /\ clerk[c].op \in Nat
    BY <1>1 DEF Clerk
  <2>2. clerk[c].op # 0
    BY <1>2 DEF ClientTypes
  <2>. QED  BY <1>2, <2>1, <2>2, OrderLength
<1>4. h \in 0 .. Len(Order) - 1
  BY <1>3, ModValue
<1>5. /\ clerk' = [clerk EXCEPT ![c] = k]
      /\ done' = IF ok /\ Program[c][op] = "put"
                 THEN done \cup {[client |-> c, op |-> op]} ELSE done
  BY DEF Answer, NextTry
<1> HIDE DEF h
<1>6. yes \in Clerk /\ yes.op = clerk[c].op /\ yes.stage = "none"
  BY <1>1, <1>4 DEF Clerk
<1>7. /\ no \in Clerk /\ no.op = clerk[c].op /\ no.hint = clerk[c].hint
      /\ no.tries = clerk[c].tries + 1 /\ no.stage = "ask"
  BY <1>1, <1>3 DEF Clerk
<1> HIDE DEF yes, no
<1>8. ClerkOK(k)
  BY <1>3, <1>6, <1>7 DEF ClerkOK
<1>9. clerk'[c] = k
  BY <1>1, <1>5
<1>10. MovedOn(c)
  BY <1>2, <1>6, <1>7, <1>9 DEF MovedOn
<1>. QED  BY <1>3, <1>5, <1>8, <1>10

LEMMA RefuseStep ==
    ASSUME NEW el, NEW tl, ServiceInv(el, tl), NEW s \in Server, NEW q \in queue,
           Refuse(s, q)
    PROVE  ServiceInv(el, tl)'
<1> DEFINE c == q.client
<1>0. ClientTypes /\ QueueInv /\ WorkInv
  BY DEF ServiceInv, ClientInv
<1>1. c \in Client /\ q.to = s /\ q.op = clerk[c].op /\ WaitsFor(c, s)
  BY <1>0 DEF Refuse, ClientTypes, QueueInv, QueuedAt
<1>2. /\ Answer(s, c, q.op, FALSE)
      /\ queue' = queue \ {q}
      /\ UNCHANGED <<up, raftVars, threadVars, crashed>>
  BY DEF Refuse, Rest
<1>3. \A p \in queue' : p \in queue /\ p.client # c
  BY <1>0, <1>2, OneRequest
<1>4. \A r \in Server : work[r] # Free => work[r].client # c
  BY <1>0 DEF WorkInv, WorkAt
<1> HIDE DEF c
<1>5. /\ \E k : ClerkOK(k) /\ clerk' = [clerk EXCEPT ![c] = k]
      /\ MovedOn(c) /\ done' = done
  BY <1>0, <1>1, <1>2, AnswerFacts
<1>6. PICK k : ClerkOK(k) /\ clerk' = [clerk EXCEPT ![c] = k]
  BY <1>5
<1>. QED  BY <1>1, <1>2, <1>3, <1>4, <1>5, <1>6, AskStep

LEMMA FinishStep ==
    ASSUME NEW el, NEW tl, ServiceInv(el, tl), NEW s \in Server, Finish(s)
    PROVE  ServiceInv(el, tl)'
<1>1. PICK c, o : c = work[s].client /\ o = work[s].op
  OBVIOUS
<1>0. /\ RaftInv(el, tl) /\ RaftTypes /\ LedgerInv(el, tl) /\ LogsInv(tl)
      /\ ClientTypes /\ QueueInv /\ WorkInv
  BY DEF ServiceInv, RaftInv, ClientInv
<1>2. /\ c \in Client /\ o = clerk[c].op /\ WaitsFor(c, s)
      /\ \A q \in queue : q.client # c
      /\ Program[c][o] = "put" =>
           \E x \in DOMAIN log[s] : log[s][x].client = c /\ log[s][x].op = o
  BY <1>0, <1>1 DEF Finish, WorkInv, WorkAt
<1>3. /\ commit' = [commit EXCEPT ![s] = NewCommit(s)]
      /\ work' = [work EXCEPT ![s] = Free]
      /\ UNCHANGED <<up, leads, term, log, next, match, call, queue, crashed>>
  BY DEF Finish
<1>4. PICK ok \in BOOLEAN : /\ Program[c][o] = "put" => ok = PutIsOk(s, NewCommit(s))
                            /\ Answer(s, c, o, ok)
  BY <1>1 DEF Finish
<1>5. /\ \E k : ClerkOK(k) /\ clerk' = [clerk EXCEPT ![c] = k]
      /\ MovedOn(c)
      /\ o \in Nat \ {0}
      /\ \/ done' = done
         \/ ok /\ Program[c][o] = "put" /\ done' = done \cup {[client |-> c, op |-> o]}
  BY <1>0, <1>2, <1>4, AnswerFacts
<1>6. PICK k : ClerkOK(k) /\ clerk' = [clerk EXCEPT ![c] = k]
  BY <1>5
<1>7. RaftStep(el, tl, el, tl)
  BY <1>0, <1>3, CommittingFacts
<1>8. \A r \in Server : work[r] # Free /\ r # s => work[r].client # c
  BY <1>0, <1>2, WaitsForOne DEF WorkInv, WorkAt
<1>9. /\ work' \in [Server -> [client : Client \cup {Nil}, op : Nat, left : Seq(Server)]]
      /\ \A r \in Server : /\ work'[r].left \in Seq(Server \ {r})
                           /\ work'[r] # Free => work'[r] = work[r] /\ work[r].client # c
  <2>1. /\ Free \in [client : Client \cup {Nil}, op : Nat, left : Seq(Server)]
        /\ \A r \in Server : Free.left \in Seq(Server \ {r})
    BY DEF Free
  <2>2. work \in [Server -> [client : Client \cup {Nil}, op : Nat, left : Seq(Server)]]
    BY <1>0 DEF ClientTypes
  <2>3. \A r \in Server : work'[r] = IF r = s THEN Free ELSE work[r]
    BY <1>3, <2>2
  <2>4. work' \in [Server -> [client : Client \cup {Nil}, op : Nat, left : Seq(Server)]]
    BY <1>3, <2>1, <2>2
  <2>5. \A r \in Server : work[r].left \in Seq(Server \ {r})
    BY <1>0 DEF ClientTypes
  <2>. QED  BY <1>8, <2>1, <2>3, <2>4, <2>5
<1>10. \A q \in queue' : q \in queue /\ q.client # c
  BY <1>2, <1>3
<1>11. ASSUME ok, Program[c][o] = "put", NEW d, d = [client |-> c, op |-> o]
       PROVE  DoneAt(el, tl, d)'
  <2>1. PICK n : n = NewCommit(s)
    OBVIOUS
  <2>2. commit'[s] = n /\ n \in Nat /\ n >= Len(log[s])
    BY <1>0, <1>3, <1>4, <1>11, <2>1, NewCommitIs DEF RaftTypes, PutIsOk
  <2>3. log[s] \in Seq(Entry) /\ Len(log[s]) \in Nat /\ DOMAIN log[s] = 1 .. Len(log[s])
        /\ Rooted(tl, log[s])
    BY <1>0, SeqFacts DEF RaftTypes, LogsInv
  <2>4. PICK x \in DOMAIN log[s] : log[s][x].client = c /\ log[s][x].op = o
    BY <1>2, <1>11
  <2>5. x \in 1 .. n /\ n # 0
    BY <2>2, <2>3
  <2>6. CommitInv(el, tl)'
    BY <1>0, <1>7, RaftInvStep DEF RaftInv
  <2>7. \E T \in Nat : ChosenAfter(el, tl, T, commit'[s]) /\ Has(log'[s], commit'[s], T)
    BY <2>2, <2>5, <2>6 DEF CommitInv, Chosen, ChosenAfter, Held, HeldAfter
  <2>8. PICK T \in Nat : ChosenAfter(el, tl, T, n) /\ Has(log[s], n, T)
    BY <1>3, <2>2, <2>7
  <2>9. Chosen(el, tl, T, n)'
    BY <2>8 DEF Chosen, ChosenAfter, Held, HeldAfter
  <2>10. tl[T][x] = log[s][x]
    <3>1. Agree(tl[T], log[s], n)
      BY <2>3, <2>8, RootedHas
    <3>. QED  BY <2>5, <3>1 DEF Agree
  <2>11. tl[T][x].client = d.client /\ tl[T][x].op = d.op
    BY <1>11, <2>4, <2>10
  <2>. QED  BY <2>2, <2>5, <2>9, <2>11 DEF DoneAt
<1>12. \A d \in done' : d \in done \/ DoneAt(el, tl, d)'
  BY <1>5, <1>11
<1>13. done' \subseteq [client : Client, op : Nat \ {0}]
  <2>1. done \subseteq [client : Client, op : Nat \ {0}]
    BY <1>0 DEF ClientTypes
  <2>. QED  BY <1>2, <1>5, <2>1
<1>. QED  BY <1>2, <1>3, <1>5, <1>6, <1>7, <1>9, <1>10, <1>12, <1>13, ClientStep

LEMMA CallPeerStep ==
    ASSUME NEW el, NEW tl, ServiceInv(el, tl), NEW s \in Server, CallPeer(s)
    PROVE  ServiceInv(el, tl)'
<1>0. RaftInv(el, tl) /\ ClientTypes /\ QueueInv /\ WorkInv
  BY DEF ServiceInv, ClientInv
<1>1. RaftStep(el, tl, el, tl)
  BY <1>0, CallPeerFacts
<1>2. /\ work[s].left # <<>>
      /\ work' = [work EXCEPT ![s].left = Tail(@)]
      /\ UNCHANGED <<up, log, queue, clerk, done, crashed>>
  BY DEF CallPeer, raftVars, clientVars
<1>3. /\ work \in [Server -> [client : Client \cup {Nil}, op : Nat, left : Seq(Server)]]
      /\ work[s] \in [client : Client \cup {Nil}, op : Nat, left : Seq(Server)]
      /\ \A r \in Server : work[r].left \in Seq(Server \ {r})
  BY <1>0 DEF ClientTypes
<1> DEFINE new == [work[s] EXCEPT !.left = Tail(work[s].left)]
<1>4. /\ Tail(work[s].left) \in Seq(Server \ {s})
      /\ Tail(work[s].left) \in Seq(Server)
  <2>1. work[s].left \in Seq(Server \ {s}) /\ work[s].left \in Seq(Server)
    BY <1>3
  <2>. QED  BY <1>2, <2>1
<1>5. work' = [work EXCEPT ![s] = new]
  BY <1>2, <1>3
<1>6. /\ new \in [client : Client \cup {Nil}, op : Nat, left : Seq(Server)]
      /\ new.left = Tail(work[s].left)
      /\ new.client = work[s].client /\ new.op = work[s].op
  BY <1>3, <1>4
<1> HIDE DEF new
<1>7. \A r \in Server : work'[r] = IF r = s THEN new ELSE work[r]
  BY <1>3, <1>5
<1>8. ClientTypes'
  <2>1. work' \in [Server -> [client : Client \cup {Nil}, op : Nat, left : Seq(Server)]]
    BY <1>3, <1>5, <1>6
  <2>2. \A r \in Server : work'[r].left \in Seq(Server \ {r})
    BY <1>3, <1>4, <1>6, <1>7
  <2>. QED  BY <1>0, <1>2, <2>1, <2>2 DEF ClientTypes
<1>9. \A c : SameClient(c)
  BY <1>2 DEF SameClient
<1>10. QueueInv' /\ WorkInv'
  <2>1. work[s] # Free
    BY <1>2 DEF Free
  <2>2. \A q \in queue' : q \in queue /\ up'[q.to]
    BY <1>0, <1>2 DEF QueueInv, QueuedAt
  <2>3. \A r \in Server : work'[r] # Free =>
          /\ work[r] # Free
          /\ work'[r].client = work[r].client /\ work'[r].op = work[r].op
          /\ up'[r] /\ log'[r] = log[r]
    BY <1>0, <1>2, <1>6, <1>7, <2>1 DEF WorkInv, WorkAt
  <2>. QED  BY <1>0, <1>9, <2>2, <2>3, ServedStep
<1>. QED  BY <1>1, <1>2, <1>8, <1>9, <1>10, CalmStep DEF ClientsMove

LEMMA CrashStep ==
    ASSUME NEW el, NEW tl, ServiceInv(el, tl), NEW s \in Server, Crash(s)
    PROVE  ServiceInv(el, tl)'
<1>0. RaftInv(el, tl) /\ RaftTypes /\ ClientTypes /\ QueueInv /\ WorkInv
  BY DEF ServiceInv, RaftInv, ClientInv
<1>1. RaftStep(el, tl, el, tl)
  BY <1>0, CrashFacts
<1>2. /\ s \in Unsteady \ crashed
      /\ up' = [up EXCEPT ![s] = FALSE]
      /\ work' = [work EXCEPT ![s] = Free]
      /\ queue' = {q \in queue : q.to # s}
      /\ crashed' = crashed \cup {s}
      /\ UNCHANGED <<log, clerk, done>>
  BY DEF Crash
<1>3. work \in [Server -> [client : Client \cup {Nil}, op : Nat, left : Seq(Server)]]
  BY <1>0 DEF ClientTypes
<1>4. \A r \in Server : /\ work'[r] = IF r = s THEN Free ELSE work[r]
                        /\ up'[r] = IF r = s THEN FALSE ELSE up[r]
  BY <1>0, <1>2, <1>3 DEF RaftTypes
<1>5. ClientTypes'
  <2>1. /\ Free \in [client : Client \cup {Nil}, op : Nat, left : Seq(Server)]
        /\ \A r \in Server : Free.left \in Seq(Server \ {r})
    BY DEF Free
  <2>2. work' \in [Server -> [client : Client \cup {Nil}, op : Nat, left : Seq(Server)]]
    BY <1>2, <1>3, <2>1
  <2>3. \A r \in Server : work'[r].left \in Seq(Server \ {r})
    BY <1>0, <1>4, <2>1 DEF ClientTypes
  <2>4. queue' \subseteq queue /\ crashed' \subseteq Unsteady
    BY <1>0, <1>2 DEF ClientTypes
  <2>. QED  BY <1>0, <1>2, <2>2, <2>3, <2>4 DEF ClientTypes
<1>6. \A c : SameClient(c)
  BY <1>2 DEF SameClient
<1>7. QueueInv' /\ WorkInv'
  <2>1. ASSUME NEW q \in queue'
        PROVE  q \in queue /\ up'[q.to]
    <3>1. q \in queue /\ q.to # s /\ q.to \in Server
      BY <1>0, <1>2 DEF ClientTypes
    <3>. QED  BY <1>0, <1>4, <3>1 DEF QueueInv, QueuedAt
  <2>2. ASSUME NEW r \in Server, work'[r] # Free
        PROVE  /\ work[r] # Free
               /\ work'[r].client = work[r].client /\ work'[r].op = work[r].op
               /\ up'[r] /\ log'[r] = log[r]
    <3>1. r # s /\ work'[r] = work[r] /\ up'[r] = up[r] /\ log'[r] = log[r]
      BY <1>2, <1>4, <2>2
    <3>2. up[r]
      BY <1>0, <2>2, <3>1 DEF WorkInv, WorkAt
    <3>. QED  BY <2>2, <3>1, <3>2
  <2>. QED  BY <1>0, <1>6, <2>1, <2>2, ServedStep
<1>. QED  BY <1>1, <1>2, <1>5, <1>6, <1>7, CalmStep DEF ClientsMove

LEMMA RestartStep ==
    ASSUME NEW el, NEW tl, ServiceInv(el, tl), NEW s \in Server, Restart(s)
    PROVE  ServiceInv(el, tl)'
<1>0. RaftInv(el, tl) /\ RaftTypes /\ ClientTypes /\ QueueInv /\ WorkInv
  BY DEF ServiceInv, RaftInv, ClientInv
<1>1. /\ up' = [up EXCEPT ![s] = TRUE]
      /\ UNCHANGED <<raftVars, call>>
      /\ UNCHANGED <<log, work, queue, clerk, done, crashed>>
  BY DEF Restart, raftVars, threadVars, clientVars
<1>2. /\ up' \in [Server -> BOOLEAN]
      /\ \A r \in Server : up[r] => up'[r]
  BY <1>0, <1>1 DEF RaftTypes
<1>3. RaftStep(el, tl, el, tl)
  BY <1>0, <1>1, <1>2, SameRaftFacts
<1>4. ClientTypes'
  BY <1>0, <1>1 DEF ClientTypes
<1>5. \A c : SameClient(c)
  BY <1>1 DEF SameClient
<1>6. QueueInv' /\ WorkInv'
  <2>1. ASSUME NEW q \in queue'
        PROVE  q \in queue /\ up'[q.to]
    <3>1. q \in queue /\ q.to \in Server
      BY <1>0, <1>1 DEF ClientTypes
    <3>. QED  BY <1>0, <1>2, <3>1 DEF QueueInv, QueuedAt
  <2>2. \A r \in Server : work'[r] # Free =>
          /\ work[r] # Free
          /\ work'[r].client = work[r].client /\ work'[r].op = work[r].op
          /\ up'[r] /\ log'[r] = log[r]
    BY <1>0, <1>1, <1>2 DEF WorkInv, WorkAt
  <2>. QED  BY <1>0, <1>5, <2>1, <2>2, ServedStep
<1>. QED  BY <1>1, <1>3, <1>4, <1>5, <1>6, CalmStep DEF ClientsMove

\* The leader has not had this operation in its term.
LEMMA NotTaken ==
    ASSUME ClientTypes, QueueInv, NEW q \in queue
    PROVE  ~Taken(q.to, q.client, q.op)
<1> DEFINE c == q.client
           s == q.to
<1>1. c \in Client /\ s \in Server /\ q.op = clerk[c].op /\ WaitsFor(c, s)
  BY DEF ClientTypes, QueueInv, QueuedAt
<1> HIDE DEF c, s
<1>2. /\ clerk[c].op \in Nat /\ clerk[c].hint \in 0 .. Len(Order) - 1
      /\ clerk[c].tries \in Nat /\ clerk[c].tries < Len(Order) /\ clerk[c].stage = "wait"
      /\ Target(c, clerk[c].tries) = s
  BY <1>1, ClerkTypes, OrderLength DEF WaitsFor
<1>3. ASSUME NEW k \in 0 .. clerk[c].tries - 1
      PROVE  Target(c, k) # s
  <2>1. k \in Nat /\ k < clerk[c].tries
    BY <1>2
  <2>. QED  BY <1>2, <2>1, TargetsDiffer
<1>4. \E p \in queue : p.client = c
  BY DEF c
<1>5. ~Taken(s, c, clerk[c].op)
  BY <1>2, <1>3, <1>4 DEF Taken
<1>. QED  BY <1>1, <1>5 DEF c, s

LEMMA BeginStep ==
    ASSUME NEW el, NEW tl, ServiceInv(el, tl), NEW s \in Server, NEW q \in queue,
           Begin(s, q)
    PROVE  \E tl2 : ServiceInv(el, tl2)'
<1>1. PICK c, o, T, tl2 : /\ c = q.client /\ o = q.op /\ T = term[s]
                          /\ tl2 = LedgerOfBegin(tl, s, q)
  OBVIOUS
<1>0. /\ RaftInv(el, tl) /\ RaftTypes /\ ElectedInv(el) /\ LedgerInv(el, tl) /\ LogsInv(tl)
      /\ ClientTypes /\ QueueInv /\ WorkInv /\ OrderInv(tl) /\ OnceInv(el, tl)
      /\ DoneInv(el, tl)
  BY DEF ServiceInv, RaftInv, ClientInv
<1>2. RaftStep(el, tl, el, tl2)
  BY <1>0, <1>1, BeginFacts
<1>3. RaftInv(el, tl2)'
  BY <1>0, <1>2, RaftInvStep
<1> DEFINE e == [client |-> c, op |-> o, term |-> T]
           job == [client |-> c, op |-> o, left |-> Peers(s)]
<1>4. /\ c \in Client /\ q.to = s /\ o = clerk[c].op /\ o \in Nat /\ WaitsFor(c, s)
      /\ up[s] /\ leads[s] /\ T \in Nat
  BY <1>0, <1>1 DEF Begin, Idle, ClientTypes, QueueInv, QueuedAt, RaftTypes
<1>5. /\ queue' = queue \ {q}
      /\ log' = IF Program[c][o] = "put" THEN [log EXCEPT ![s] = Append(log[s], e)] ELSE log
      /\ work' = [work EXCEPT ![s] = job]
      /\ UNCHANGED <<up, leads, term, clerk, done, crashed>>
  BY <1>1 DEF Begin, Rest
<1>6. \A p \in queue' : p \in queue /\ p.client # c
  BY <1>0, <1>1, <1>5, OneRequest
<1>7. \A d : SameClient(d)
  BY <1>5 DEF SameClient
<1>8. /\ job \in [client : Client \cup {Nil}, op : Nat, left : Seq(Server)]
      /\ job.client = c /\ job.op = o /\ job.left \in Seq(Server \ {s})
  <2>1. Peers(s) \in Seq(Server \ {s})
    BY PeersType
  <2>2. Peers(s) \in Seq(Server)
    BY <2>1
  <2>. QED  BY <1>4, <2>1, <2>2
<1>9. work \in [Server -> [client : Client \cup {Nil}, op : Nat, left : Seq(Server)]]
  BY <1>0 DEF ClientTypes
<1> HIDE DEF job
<1>10. \A r \in Server : work'[r] = IF r = s THEN job ELSE work[r]
  BY <1>5, <1>9
<1>11. ClientTypes'
  <2>1. work' \in [Server -> [client : Client \cup {Nil}, op : Nat, left : Seq(Server)]]
    BY <1>5, <1>8, <1>9
  <2>2. \A r \in Server : work'[r].left \in Seq(Server \ {r})
    BY <1>0, <1>8, <1>10 DEF ClientTypes
  <2>. QED  BY <1>0, <1>5, <2>1, <2>2 DEF ClientTypes
<1> DEFINE lg == log[s]
<1>12. /\ lg \in Seq(Entry) /\ Len(lg) \in Nat /\ DOMAIN lg = 1 .. Len(lg)
       /\ lg = tl[T] /\ e \in Entry
  <2>1. lg \in Seq(Entry) /\ lg = tl[T]
    BY <1>0, <1>1, <1>4 DEF RaftTypes, LogsInv
  <2>2. e \in Entry
    BY <1>4 DEF Entry
  <2>. QED  BY <2>1, <2>2, SeqFacts
<1>13. e.client = c /\ e.op = o /\ e.term = T
  OBVIOUS
<1> HIDE DEF e, lg
<1> DEFINE new == Append(lg, e)
<1>14. /\ new \in Seq(Entry) /\ DOMAIN new = 1 .. Len(lg) + 1
       /\ \A k \in DOMAIN lg : new[k] = lg[k]
       /\ new[Len(lg) + 1] = e
  BY <1>12
<1> HIDE DEF new
<1>15. \A r \in Server : log'[r] = IF r = s /\ Program[c][o] = "put" THEN new ELSE log[r]
  <2>1. log' = IF Program[c][o] = "put" THEN [log EXCEPT ![s] = new] ELSE log
    BY <1>5 DEF new, lg
  <2>. QED  BY <1>0, <2>1 DEF RaftTypes
<1>16. QueueInv' /\ WorkInv'
  <2>1. \A p \in queue' : p \in queue /\ up'[p.to]
    BY <1>0, <1>5, <1>6 DEF QueueInv, QueuedAt
  <2>2. WaitsFor(c, s)'
    BY <1>4, <1>5 DEF WaitsFor, Target
  <2>3. WorkAt(s)'
    <3>1. Program[c][o] = "put" =>
            \E x \in DOMAIN log'[s] : log'[s][x].client = c /\ log'[s][x].op = o
      <4>. SUFFICES ASSUME Program[c][o] = "put"
                    PROVE  \E x \in DOMAIN log'[s] :
                              log'[s][x].client = c /\ log'[s][x].op = o
        OBVIOUS
      <4>1. log'[s] = new /\ Len(lg) + 1 \in DOMAIN new
        BY <1>12, <1>14, <1>15
      <4>. QED  BY <1>13, <1>14, <4>1
    <3>2. /\ work'[s].client = c /\ work'[s].op = o
          /\ up'[s] /\ o = clerk'[c].op
      BY <1>4, <1>5, <1>8, <1>10
    <3>. QED  BY <1>4, <1>6, <2>2, <3>1, <3>2 DEF WorkAt
  <2>4. \A r \in Server : work'[r] # Free =>
          \/ /\ work[r] # Free
             /\ work'[r].client = work[r].client /\ work'[r].op = work[r].op
             /\ up'[r] /\ log'[r] = log[r]
          \/ WorkAt(r)'
    BY <1>0, <1>5, <1>10, <1>15, <2>3 DEF WorkInv, WorkAt
  <2>. QED  BY <1>0, <1>7, <2>1, <2>4, ServedStep
<1>17. OrderInv(tl)' /\ OnceInv(el, tl)'
  BY <1>0, <1>7, <1>11, HistoryStep DEF ClientsMove
<1>18. DoneInv(el, tl2)'
  <2>1. ASSUME NEW d \in done
        PROVE  DoneAt(el, tl2, d)'
    BY <1>0, <1>2, DoneStep DEF DoneInv
  <2>. QED  BY <1>5, <2>1 DEF DoneInv
<1>19. OrderInv(tl2)' /\ OnceInv(el, tl2)'
  <2>1. CASE Program[c][o] # "put"
    BY <1>1, <1>17, <2>1 DEF LedgerOfBegin
  <2>2. CASE Program[c][o] = "put"
    <3>1. tl \in Ledgers /\ tl2 = [tl EXCEPT ![T] = new]
      BY <1>0, <1>1, <1>12, <2>2 DEF LedgerOfBegin, EntryOf, LedgerInv, new, e
    <3>2. tl2[T] = new /\ \A u \in Nat : u # T => tl2[u] = tl[u]
      BY <1>4, <3>1 DEF Ledgers
    <3>3. \A x \in DOMAIN new : x \in DOMAIN lg \/ x = Len(lg) + 1
      BY <1>12, <1>14
    <3>4. /\ InOrder(lg) /\ Once(lg)
          /\ \A n \in DOMAIN lg : /\ lg[n].op <= clerk[lg[n].client].op
                                  /\ lg[n].op \in Nat /\ lg[n].client \in Client
      BY <1>0, <1>4, <1>12, EntryParts, SeqFacts DEF OrderInv, OnceInv
    <3>5. InOrder(new)
      <4>. SUFFICES ASSUME NEW x \in DOMAIN new, NEW y \in DOMAIN new, x < y,
                           new[x].client = new[y].client
                    PROVE  new[x].op <= new[y].op
        BY DEF InOrder
      <4>1. x \in DOMAIN lg
        BY <1>12, <1>14
      <4>2. CASE y \in DOMAIN lg
        BY <1>14, <3>4, <4>1, <4>2 DEF InOrder
      <4>3. CASE y = Len(lg) + 1
        BY <1>4, <1>13, <1>14, <3>4, <4>1, <4>3
      <4>. QED  BY <3>3, <4>2, <4>3
    <3>6. \A n \in DOMAIN new : new[n].op <= clerk[new[n].client].op
      BY <1>4, <1>13, <1>14, <3>3, <3>4
    <3>7. \A f \in el : f.term = T => f.leader = s
      <4>1. PICK g \in el : g = [term |-> T, leader |-> s]
        BY <1>0, <1>1, <1>4 DEF ElectedInv
      <4>2. g.term = T /\ g.leader = s
        BY <4>1
      <4>3. \A f \in el : f.term = T => f = g
        BY <1>0, <4>2 DEF ElectedInv
      <4>. QED  BY <4>2, <4>3
    <3>8. ASSUME NEW x \in DOMAIN lg
          PROVE  lg[x] # e
      <4>. SUFFICES ASSUME lg[x] = e PROVE FALSE
        OBVIOUS
      <4>1. PICK f \in el : f.term = T
        BY <1>0, <1>1, <1>4 DEF ElectedInv
      <4>2. Taken(s, c, o)
        BY <1>0, <1>12, <1>13, <3>7, <4>1 DEF OnceInv
      <4>. QED  BY <1>0, <1>1, <1>4, <4>2, NotTaken
    <3>9. Once(new)
      BY <1>14, <3>3, <3>4, <3>8 DEF Once
    <3>10. OrderInv(tl2)'
      <4>. SUFFICES ASSUME NEW u \in Nat
                    PROVE  /\ InOrder(tl2[u])
                           /\ \A n \in DOMAIN tl2[u] :
                                tl2[u][n].op <= clerk[tl2[u][n].client].op
        BY <1>5 DEF OrderInv, InOrder
      <4>. QED  BY <1>0, <3>2, <3>5, <3>6 DEF OrderInv
    <3>11. Taken(s, c, o)'
      <4>1. WaitsFor(c, s)' /\ o = clerk'[c].op
        BY <1>4, <1>5 DEF WaitsFor, Target
      <4>. QED  BY <1>6, <4>1 DEF Taken
    <3>12. ASSUME NEW f \in el, NEW n \in DOMAIN tl2[f.term], tl2[f.term][n].term = f.term
           PROVE  Taken(f.leader, tl2[f.term][n].client, tl2[f.term][n].op)'
      <4>1. f.term \in Nat
        BY <1>0 DEF ElectedInv
      <4>2. CASE f.term # T
        BY <1>17, <3>2, <3>12, <4>1, <4>2 DEF OnceInv
      <4>3. CASE f.term = T /\ n \in DOMAIN lg
        <5>1. tl2[f.term][n] = tl[f.term][n] /\ n \in DOMAIN tl[f.term]
          BY <1>12, <1>14, <3>2, <4>3
        <5>. QED  BY <1>17, <3>12, <5>1 DEF OnceInv
      <4>4. CASE f.term = T /\ n = Len(lg) + 1
        BY <1>13, <1>14, <3>2, <3>7, <3>11, <4>4
      <4>. QED  BY <3>2, <3>3, <4>2, <4>3, <4>4
    <3>13. \A u \in Nat : Once(tl2[u])
      BY <1>0, <3>2, <3>9 DEF OnceInv
    <3>. QED  BY <3>10, <3>12, <3>13 DEF OnceInv, Once
  <2>. QED  BY <2>1, <2>2
<1>20. ServiceInv(el, tl2)'
  BY <1>3, <1>11, <1>16, <1>18, <1>19 DEF ServiceInv, ClientInv
<1>. QED  BY <1>20

-----------------------------------------------------------------------------
(***************************************************************************)
(* The invariant holds in every reachable state.                           *)
(***************************************************************************)

LEMMA ServiceInitSound == ServiceInit => ServiceSound
<1>. SUFFICES ASSUME ServiceInit PROVE ServiceSound
  OBVIOUS
<1> DEFINE tl0 == [t \in Nat |-> <<>>]
<1>1. PICK el, tl : el = {} /\ tl = tl0
  OBVIOUS
<1>2. tl \in Ledgers /\ \A t \in Nat : tl[t] = <<>> /\ DOMAIN tl[t] = {}
  BY <1>1 DEF Ledgers
<1>3. /\ up = [s \in Server |-> TRUE]
      /\ leads = [s \in Server |-> FALSE]
      /\ term = [s \in Server |-> 0]
      /\ log = [s \in Server |-> <<>>]
      /\ commit = [s \in Server |-> 0]
      /\ next = [s \in Server |-> [p \in Server |-> 1]]
      /\ match = [s \in Server |-> [p \in Server |-> 0]]
      /\ work = [s \in Server |-> Free]
      /\ call = [s \in Server |-> [h \in Threads |-> NoCall]]
      /\ queue = {}
      /\ clerk = [c \in Client |-> Fresh]
      /\ done = {}
      /\ crashed = {}
  BY DEF ServiceInit
<1>4. RaftTypes
  BY <1>3 DEF RaftTypes, Calls
<1>5. NoCall.stage = "none"
  BY DEF NoCall
<1>6. ElectedInv(el) /\ LedgerInv(el, tl)
  BY <1>1, <1>2, <1>3 DEF ElectedInv, LedgerInv, Rooted
<1>7. LogsInv(tl)
  <2>1. \A s \in Server : DOMAIN log[s] = {} /\ ~leads[s]
    BY <1>3
  <2>. QED  BY <2>1 DEF LogsInv, Rooted
<1>8. CallsInv(el, tl) /\ MatchInv(tl) /\ ChoosableInv(el, tl) /\ CommitInv(el, tl)
  BY <1>3, <1>5 DEF CallsInv, MatchInv, ChoosableInv, CommitInv
<1>9. ClientTypes
  <2>1. /\ Free \in [client : Client \cup {Nil}, op : Nat, left : Seq(Server)]
        /\ \A s \in Server : Free.left \in Seq(Server \ {s})
    BY DEF Free
  <2>2. Fresh \in [op : Nat, hint : 0 .. Len(Order) - 1,
                   tries : 0 .. Len(Order), stage : {"none", "ask", "wait"}]
        /\ Fresh.stage = "none"
    BY OrderLength DEF Fresh
  <2>. QED  BY <1>3, <2>1, <2>2 DEF ClientTypes
<1>10. QueueInv /\ WorkInv /\ DoneInv(el, tl)
  BY <1>3 DEF QueueInv, WorkInv, DoneInv
<1>11. OrderInv(tl) /\ OnceInv(el, tl)
  BY <1>1, <1>2 DEF OrderInv, InOrder, OnceInv, Once
<1>. QED  BY <1>4, <1>6, <1>7, <1>8, <1>9, <1>10, <1>11
          DEF ServiceSound, ServiceInv, RaftInv, ClientInv

LEMMA ServiceNextSound == ServiceSound /\ [ServiceNext]_vars => ServiceSound'
<1>. SUFFICES ASSUME ServiceSound, [ServiceNext]_vars
              PROVE  ServiceSound'
  OBVIOUS
<1>1. PICK el, tl : ServiceInv(el, tl)
  BY DEF ServiceSound
<1>. SUFFICES \E el2, tl2 : ServiceInv(el2, tl2)'
  BY DEF ServiceSound
<1>2. CASE \E c \in Client : Start(c) \/ Ask(c) \/ GiveUp(c) \/ HangUp(c)
  BY <1>1, <1>2, StartStep, AskingStep, GiveUpStep, HangUpStep
<1>3. CASE \E s \in Server, q \in queue : Refuse(s, q)
  BY <1>1, <1>3, RefuseStep
<1>4. CASE \E s \in Server, q \in queue : Begin(s, q)
  BY <1>1, <1>4, BeginStep
<1>5. CASE \E s \in Server : CallPeer(s)
  BY <1>1, <1>5, CallPeerStep
<1>6. CASE \E s \in Server, h \in Threads : CallFails(s, h)
  BY <1>1, <1>6, CallFailsStep
<1>7. CASE \E s \in Server, h \in Threads : Receive(s, h)
  BY <1>1, <1>7, ReceiveStep
<1>8. CASE \E s \in Server, h \in Threads : Handle(s, h)
  BY <1>1, <1>8, HandleStep
<1>9. CASE \E s \in Server : Finish(s)
  BY <1>1, <1>9, FinishStep
<1>10. CASE \E s \in Server, p \in Server : Beat(s, p)
  BY <1>1, <1>10, BeatStep
<1>11. CASE \E s \in Server : BeatCommit(s)
  BY <1>1, <1>11, BeatCommitStep
<1>12. ASSUME NEW l \in Server, NEW Q \in SUBSET Server, NEW t, Elect(l, Q, t)
       PROVE  \E el2, tl2 : ServiceInv(el2, tl2)'
  <2>1. t \in Nat
    BY <1>12, ServiceAssumption DEF Elect
  <2>. QED  BY <1>1, <1>12, <2>1, ElectStep
<1>13. CASE \E s \in Server : Crash(s)
  BY <1>1, <1>13, CrashStep
<1>14. CASE \E s \in Server : Restart(s)
  BY <1>1, <1>14, RestartStep
<1>15. CASE UNCHANGED vars
  <2>1. UNCHANGED <<up, raftVars, call, work, clientVars, crashed, log>>
    BY <1>15 DEF vars, threadVars, raftVars
  <2>2. RaftInv(el, tl) /\ up' \in [Server -> BOOLEAN]
    BY <1>1, <2>1 DEF ServiceInv, RaftInv, RaftTypes
  <2>3. RaftStep(el, tl, el, tl)
    BY <2>1, <2>2, SameRaftFacts
  <2>4. ServiceInv(el, tl)'
    BY <1>1, <2>1, <2>3, QuietStep
  <2>. QED  BY <2>4
<1>16. "op" \in Threads /\ "beat" \in Threads
  BY DEF Threads
<1>. QED  BY <1>2, <1>3, <1>4, <1>5, <1>6, <1>7, <1>8, <1>9, <1>10, <1>11, <1>12, <1>13,
             <1>14, <1>15, <1>16
          DEF ServiceNext, Clients, ServerThreads, BeatThreads, OpThread

\* Reachable states have an el and a tl for which the invariant holds.
THEOREM ServiceIsSound == ServiceSpec => []ServiceSound
  BY ServiceInitSound, ServiceNextSound, PTL DEF ServiceSpec

-----------------------------------------------------------------------------
(***************************************************************************)
(* What follows from it.                                                   *)
(***************************************************************************)

\* Every variable keeps its type; no server has committed beyond its log
\* (updateCommitIndex), and no server calls itself.
THEOREM ServiceTypes == ServiceSpec => []ServiceTypeOK
<1>1. ServiceSound => ServiceTypeOK
  <2>. SUFFICES ASSUME NEW el, NEW tl, ServiceInv(el, tl)
                PROVE  ServiceTypeOK
    BY DEF ServiceSound
  <2>1. RaftTypes /\ CommitInv(el, tl) /\ ClientTypes
    BY DEF ServiceInv, RaftInv, ClientInv
  <2>2. ASSUME NEW s \in Server
        PROVE  /\ log[s] \in Seq(Entry)
               /\ commit[s] \in 0 .. Len(log[s])
    <3>1. log[s] \in Seq(Entry) /\ Len(log[s]) \in Nat /\ DOMAIN log[s] = 1 .. Len(log[s])
      BY <2>1, SeqFacts DEF RaftTypes
    <3>2. commit[s] # 0 => commit[s] \in DOMAIN log[s]
      BY <2>1 DEF CommitInv, Has
    <3>. QED  BY <3>1, <3>2
  <2>3. ASSUME NEW s \in Server
        PROVE  work[s].client \in Client \cup {Nil} /\ work[s].left \in Seq(Server \ {s})
    BY <2>1 DEF ClientTypes
  <2>. QED  BY <2>1, <2>2, <2>3 DEF ServiceTypeOK, RaftTypes, ClientTypes, Entry
<1>. QED  BY <1>1, ServiceIsSound, PTL

\* A put that was given up and executed all the same never overtakes a newer put of its
\* client: the clerk numbers nothing, but it asks for one operation at a time, and a
\* server that dies takes its unread requests with it (clerk.cpp, TcpConnection.cpp).
THEOREM ClientsKeepTheirOrder == ServiceSpec => []ClientOrder
<1>1. ServiceSound => ClientOrder
  <2>. SUFFICES ASSUME NEW el, NEW tl, ServiceInv(el, tl), NEW s \in Server
                PROVE  \A x, y \in 1 .. Len(log[s]) :
                         x < y /\ log[s][x].client = log[s][y].client
                           => log[s][x].op <= log[s][y].op
    BY DEF ServiceSound, ClientOrder
  <2>1. /\ LedgerInv(el, tl) /\ OrderInv(tl) /\ log[s] \in Seq(Entry)
        /\ Rooted(tl, log[s])
    BY DEF ServiceInv, RaftInv, ClientInv, RaftTypes, LogsInv
  <2>2. InOrder(log[s]) /\ DOMAIN log[s] = 1 .. Len(log[s])
    BY <2>1, OrderOfLog, SeqFacts
  <2>. QED  BY <2>2 DEF InOrder
<1>. QED  BY <1>1, ServiceIsSound, PTL

\* A put that is retried is appended once per term at most: the clerk's loop comes to
\* each server once (clerk.cpp).
THEOREM PutsOncePerTerm == ServiceSpec => []OncePerTerm
<1>1. ServiceSound => OncePerTerm
  <2>. SUFFICES ASSUME NEW el, NEW tl, ServiceInv(el, tl), NEW s \in Server
                PROVE  \A x, y \in 1 .. Len(log[s]) : x # y => log[s][x] # log[s][y]
    BY DEF ServiceSound, OncePerTerm
  <2>1. /\ LedgerInv(el, tl) /\ OnceInv(el, tl) /\ log[s] \in Seq(Entry)
        /\ Rooted(tl, log[s])
    BY DEF ServiceInv, RaftInv, ClientInv, RaftTypes, LogsInv
  <2>2. Once(log[s]) /\ DOMAIN log[s] = 1 .. Len(log[s])
    BY <2>1, OnceOfLog, SeqFacts
  <2>. QED  BY <2>2 DEF Once
<1>. QED  BY <1>1, ServiceIsSound, PTL

\* A put that returned true is in the log of the leader of the newest term, whichever
\* server the client asked and whoever crashed since.
THEOREM DonePutsStay == ServiceSpec => []DoneStays
<1>1. ServiceSound => DoneStays
  <2>. SUFFICES ASSUME NEW el, NEW tl, ServiceInv(el, tl), NEW s \in Server, Newest(s),
                       NEW d \in done
                PROVE  \E x \in 1 .. Len(log[s]) :
                         d = [client |-> log[s][x].client, op |-> log[s][x].op]
    BY DEF ServiceSound, DoneStays
  <2>1. /\ RaftTypes /\ ElectedInv(el) /\ LedgerInv(el, tl) /\ LogsInv(tl)
        /\ DoneAt(el, tl, d) /\ d \in [client : Client, op : Nat \ {0}]
    BY DEF ServiceInv, RaftInv, ClientInv, DoneInv, ClientTypes
  <2>2. PICK T \in Nat, n \in Nat : \E x \in 1 .. n :
          /\ Chosen(el, tl, T, n)
          /\ tl[T][x].client = d.client
          /\ tl[T][x].op = d.op
    BY <2>1 DEF DoneAt
  <2>3. PICK x \in 1 .. n : /\ Chosen(el, tl, T, n)
                            /\ tl[T][x].client = d.client
                            /\ tl[T][x].op = d.op
    BY <2>2
  <2>4. /\ leads[s] /\ term[s] \in Nat /\ log[s] = tl[term[s]]
        /\ [term |-> term[s], leader |-> s] \in el
        /\ log[s] \in Seq(Entry) /\ Rooted(tl, log[s])
    BY <2>1 DEF Newest, RaftTypes, LogsInv, ElectedInv
  <2>5. term[s] >= T
    <3>1. PICK Q \in SUBSET Server : Majority(Q) /\ \A p \in Q : term[p] >= T
      BY <2>3 DEF Chosen
    <3>2. PICK p \in Q : TRUE
      BY <3>1, MajorityMember
    <3>3. term[p] \in Nat /\ term[p] >= T /\ term[p] <= term[s]
      BY <2>1, <3>1, <3>2 DEF Newest, RaftTypes
    <3>. QED  BY <2>4, <3>3
  <2>6. Has(log[s], n, T)
    <3>1. CASE term[s] = T
      BY <2>3, <2>4, <3>1 DEF Chosen
    <3>2. CASE term[s] > T
      BY <2>3, <2>4, <3>2 DEF Chosen, Held
    <3>. QED  BY <2>4, <2>5, <3>1, <3>2
  <2>7. Agree(tl[T], log[s], n)
    BY <2>4, <2>6, RootedHas
  <2>8. log[s][x] = tl[T][x] /\ x \in 1 .. Len(log[s])
    <3>1. Len(log[s]) \in Nat
      BY <2>4, SeqFacts
    <3>. QED  BY <2>7, <3>1 DEF Agree
  <2>9. d = [client |-> d.client, op |-> d.op]
    BY <2>1
  <2>. QED  BY <2>3, <2>8, <2>9
<1>. QED  BY <1>1, ServiceIsSound, PTL

=============================================================================
