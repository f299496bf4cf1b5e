---------------------------- MODULE RaftLogProofs ----------------------------
(***************************************************************************)
(* Proofs about the replicated log of RaftReplication: log matching,       *)
(* leader completeness, commitment and application.                        *)
(*                                                                         *)
(* The argument keeps a ledger tl: tl[t] is what the leader of term t had  *)
(* in its log when it last led.  Every log, every entry in flight and      *)
(* every committed prefix is a piece of the ledger, and the ledger only    *)
(* grows.  LogInv(tl) says so; LogIsSound says that some ledger exists.    *)
(*                                                                         *)
(*   Agree, Has, Rooted, Extends   logs that share a prefix                *)
(*   LedgerInv .. TermCommitInv    the parts of LogInv                     *)
(*   ...Facts                      what one action does to each of them    *)
(*   ...Step                       a part of LogInv survives such a step   *)
(*   ...Holds                      LogInv implies a property of the runs   *)
(***************************************************************************)
EXTENDS RaftReplicationProofs, SequenceTheorems, WellFoundedInduction

-----------------------------------------------------------------------------
(***************************************************************************)
(* Smallest and largest elements.                                          *)
(***************************************************************************)

LEMMA SmallestExists ==
    ASSUME NEW S \in SUBSET Nat, S # {}
    PROVE  \E x \in S : \A y \in S : x <= y
<1>1. \E x \in S : \A y \in S : ~(<<y, x>> \in OpToRel(<, Nat))
  BY NatLessThanWellFounded, WFMin, Zenon
<1>2. \A x, y \in Nat : y < x => <<y, x>> \in OpToRel(<, Nat)
  <2>. SUFFICES ASSUME NEW x \in Nat, NEW y \in Nat, y < x
                PROVE  <<y, x>> \in OpToRel(<, Nat)
    OBVIOUS
  <2>1. <<y, x>>[1] < <<y, x>>[2] /\ <<y, x>> \in Nat \X Nat
    OBVIOUS
  <2>. QED  BY <2>1, Zenon DEF OpToRel
<1>3. PICK x \in S : \A y \in S : ~(<<y, x>> \in OpToRel(<, Nat))
  BY <1>1
<1>4. ASSUME NEW y \in S
      PROVE  x <= y
  <2>1. ~(y < x)
    BY <1>2, <1>3
  <2>. QED  BY <2>1
<1>. QED  BY <1>4

LEMMA MinIsSmallest ==
    ASSUME NEW S \in SUBSET Nat, S # {}
    PROVE  Min(S) \in S /\ \A y \in S : Min(S) <= y
<1>1. PICK x \in S : \A y \in S : x <= y
  BY SmallestExists
<1>. QED  BY <1>1 DEF Min

LEMMA MaxIsLargest ==
    ASSUME NEW S \in SUBSET Nat, S # {}, NEW n \in Nat, \A x \in S : x <= n
    PROVE  Max(S) \in S /\ \A y \in S : y <= Max(S)
<1> DEFINE T == {n - x : x \in S}
<1>1. \A x \in S : n - x \in Nat
  OBVIOUS
<1>2. T \in SUBSET Nat /\ T # {}
  BY <1>1
<1> HIDE DEF T
<1>3. PICK x \in T : \A y \in T : x <= y
  BY <1>2, SmallestExists
<1> USE DEF T
<1>4. PICK m \in S : x = n - m
  BY <1>3
<1>5. ASSUME NEW y \in S
      PROVE  m >= y
  <2>1. n - m <= n - y
    BY <1>3, <1>4
  <2>. QED  BY <2>1
<1>. QED  BY <1>5 DEF Max

LEMMA MinOfTwo ==
    ASSUME NEW a \in Int, NEW b \in Int
    PROVE  Min({a, b}) = IF a <= b THEN a ELSE b
<1> DEFINE m == IF a <= b THEN a ELSE b
<1>1. m \in {a, b} /\ \A y \in {a, b} : m <= y
  OBVIOUS
<1>2. \A x \in {a, b} : (\A y \in {a, b} : x <= y) => x = m
  OBVIOUS
<1> HIDE DEF m
<1>3. Min({a, b}) \in {a, b} /\ \A y \in {a, b} : Min({a, b}) <= y
  BY <1>1 DEF Min
<1>4. Min({a, b}) = m
  BY <1>2, <1>3
<1>. QED  BY <1>4 DEF m

LEMMA MaxOfTwo ==
    ASSUME NEW a \in Int, NEW b \in Int
    PROVE  Max({a, b}) = IF a >= b THEN a ELSE b
<1> DEFINE m == IF a >= b THEN a ELSE b
<1>1. m \in {a, b} /\ \A y \in {a, b} : m >= y
  OBVIOUS
<1>2. \A x \in {a, b} : (\A y \in {a, b} : x >= y) => x = m
  OBVIOUS
<1> HIDE DEF m
<1>3. Max({a, b}) \in {a, b} /\ \A y \in {a, b} : Max({a, b}) >= y
  BY <1>1 DEF Max
<1>4. Max({a, b}) = m
  BY <1>2, <1>3
<1>. QED  BY <1>4 DEF m

-----------------------------------------------------------------------------
(***************************************************************************)
(* Logs.                                                                   *)
(***************************************************************************)

\* The first n entries of two logs are there and the same.
Agree(s, t, n) ==
    /\ n \in 0 .. Len(s)
    /\ n \in 0 .. Len(t)
    /\ \A k \in 1 .. n : s[k] = t[k]

\* The log holds an entry of term T at n.
Has(s, n, T) == n \in DOMAIN s /\ s[n].term = T

\* What a leader of each term has written.
Ledgers == [Nat -> Seq(Entries)]

\* Every entry of s was written by the leader of its term, after the same entries.
Rooted(tl, s) ==
    \A n \in DOMAIN s : s[n].index = n /\ Agree(tl[s[n].term], s, n)

Extends(tl, tl2) == \A t \in Nat : Agree(tl[t], tl2[t], Len(tl[t]))

\* old is made to follow ref: the new log is a piece of ref that reaches at least as
\* far as the two agreed.
Cuts(old, new, ref) ==
    \E k \in 0 .. Len(ref) :
        /\ new = SubSeq(ref, 1, k)
        /\ \A n \in Nat : Agree(old, ref, n) => n <= k

LEMMA LogType ==
    ASSUME NEW s \in Seq(Entries)
    PROVE  /\ Len(s) \in Nat
           /\ DOMAIN s = 1 .. Len(s)
           /\ \A n \in DOMAIN s : s[n] \in Entries /\ s[n].index \in Nat /\ s[n].term \in Nat
<1>1. Len(s) \in Nat /\ DOMAIN s = 1 .. Len(s)
  BY LenProperties
<1>2. \A n \in DOMAIN s : s[n] \in Entries
  BY <1>1, ElementOfSeq
<1>. QED  BY <1>1, <1>2 DEF Entries

LEMMA AgreeTransitive ==
    ASSUME NEW r, NEW s, NEW t, NEW n, Agree(r, s, n), Agree(s, t, n)
    PROVE  Agree(r, t, n)
  BY DEF Agree

LEMMA AgreeSymmetric ==
    ASSUME NEW s, NEW t, NEW n, Agree(s, t, n)
    PROVE  Agree(t, s, n)
  BY DEF Agree

LEMMA AgreeLess ==
    ASSUME NEW s \in Seq(Entries), NEW t, NEW n, Agree(s, t, n), Len(t) \in Nat,
           NEW m \in Nat, m <= n
    PROVE  Agree(s, t, m)
  BY LogType DEF Agree

LEMMA AgreeSame ==
    ASSUME NEW s \in Seq(Entries), NEW n \in 0 .. Len(s)
    PROVE  Agree(s, s, n)
  BY DEF Agree

LEMMA HasAgrees ==
    ASSUME NEW s \in Seq(Entries), NEW t \in Seq(Entries), NEW m, NEW n, NEW T,
           Has(s, n, T), Agree(s, t, m), n <= m
    PROVE  Has(t, n, T)
<1>1. n \in 1 .. m /\ n \in 1 .. Len(t)
  BY LogType DEF Has, Agree
<1>2. s[n] = t[n]
  BY <1>1 DEF Agree
<1>. QED  BY <1>1, <1>2, LogType DEF Has

\* Two logs with an entry of one term at n agree up to n.
LEMMA RootedMatch ==
    ASSUME NEW tl \in Ledgers, NEW s \in Seq(Entries), NEW t \in Seq(Entries),
           Rooted(tl, s), Rooted(tl, t),
           NEW n \in DOMAIN s, n \in DOMAIN t, s[n].term = t[n].term
    PROVE  Agree(s, t, n)
<1>1. Agree(tl[s[n].term], s, n) /\ Agree(tl[t[n].term], t, n)
  BY DEF Rooted
<1>. QED  BY <1>1, AgreeTransitive, AgreeSymmetric

LEMMA ExtendsSame ==
    ASSUME NEW tl \in Ledgers
    PROVE  Extends(tl, tl)
  BY LogType, AgreeSame DEF Extends, Ledgers

LEMMA AgreeExtends ==
    ASSUME NEW tl \in Ledgers, NEW tl2 \in Ledgers, Extends(tl, tl2),
           NEW t \in Nat, NEW s \in Seq(Entries), NEW n, Agree(tl[t], s, n)
    PROVE  Agree(tl2[t], s, n)
<1>1. tl[t] \in Seq(Entries) /\ tl2[t] \in Seq(Entries)
  BY DEF Ledgers
<1>2. Agree(tl[t], tl2[t], n)
  BY <1>1, LogType, AgreeLess DEF Extends, Agree
<1>. QED  BY <1>2, AgreeTransitive, AgreeSymmetric

LEMMA HasExtends ==
    ASSUME NEW tl \in Ledgers, NEW tl2 \in Ledgers, Extends(tl, tl2),
           NEW t \in Nat, NEW n, NEW T, Has(tl[t], n, T)
    PROVE  Has(tl2[t], n, T)
<1>1. tl[t] \in Seq(Entries) /\ tl2[t] \in Seq(Entries)
  BY DEF Ledgers
<1>2. n <= Len(tl[t])
  BY <1>1, LogType DEF Has
<1>. QED  BY <1>1, <1>2, HasAgrees DEF Extends

LEMMA RootedExtends ==
    ASSUME NEW tl \in Ledgers, NEW tl2 \in Ledgers, Extends(tl, tl2),
           NEW s \in Seq(Entries), Rooted(tl, s)
    PROVE  Rooted(tl2, s)
  BY LogType, AgreeExtends DEF Rooted

LEMMA PrefixType ==
    ASSUME NEW s \in Seq(Entries), NEW k \in 0 .. Len(s)
    PROVE  /\ SubSeq(s, 1, k) \in Seq(Entries)
           /\ Len(SubSeq(s, 1, k)) = k
           /\ DOMAIN SubSeq(s, 1, k) = 1 .. k
           /\ \A n \in 1 .. k : SubSeq(s, 1, k)[n] = s[n]
           /\ Agree(SubSeq(s, 1, k), s, k)
<1>1. \A i \in 1 .. k : s[i] \in Entries
  BY LogType
<1>2. /\ SubSeq(s, 1, k) \in Seq(Entries)
      /\ Len(SubSeq(s, 1, k)) = IF 1 <= k THEN k - 1 + 1 ELSE 0
      /\ \A i \in 1 .. k - 1 + 1 : SubSeq(s, 1, k)[i] = s[1 + i - 1]
  BY <1>1, SubSeqProperties
<1>3. Len(SubSeq(s, 1, k)) = k
  BY <1>2
<1>4. \A i \in 1 .. k : SubSeq(s, 1, k)[i] = s[i]
  <2>. SUFFICES ASSUME NEW i \in 1 .. k PROVE SubSeq(s, 1, k)[i] = s[i]
    OBVIOUS
  <2>1. i \in 1 .. k - 1 + 1 /\ 1 + i - 1 = i
    OBVIOUS
  <2>. QED  BY <1>2, <2>1
<1>. QED  BY <1>2, <1>3, <1>4, LogType DEF Agree

LEMMA RootedPrefix ==
    ASSUME NEW tl \in Ledgers, NEW s \in Seq(Entries), NEW k \in 0 .. Len(s),
           Rooted(tl, s)
    PROVE  Rooted(tl, SubSeq(s, 1, k))
<1> DEFINE p == SubSeq(s, 1, k)
<1>1. p \in Seq(Entries) /\ DOMAIN p = 1 .. k /\ Agree(p, s, k)
      /\ \A n \in 1 .. k : p[n] = s[n]
  BY PrefixType
<1> HIDE DEF p
<1>2. ASSUME NEW n \in DOMAIN p
      PROVE  p[n].index = n /\ Agree(tl[p[n].term], p, n)
  <2>1. n \in DOMAIN s /\ p[n] = s[n] /\ n \in Nat /\ n <= k
    BY <1>1, <1>2, LogType
  <2>2. Agree(p, s, n)
    BY <1>1, <2>1, AgreeLess, LogType
  <2>3. s[n].index = n /\ Agree(tl[s[n].term], s, n)
    BY <2>1 DEF Rooted
  <2>. QED  BY <2>1, <2>2, <2>3, AgreeTransitive, AgreeSymmetric
<1>3. Rooted(tl, p)
  BY <1>2 DEF Rooted
<1>. QED  BY <1>3 DEF p

-----------------------------------------------------------------------------
(***************************************************************************)
(* The invariant.  tl gives, by term, what the leader of that term has     *)
(* written: its log while it leads, the last one it had afterwards.        *)
(***************************************************************************)

\* Without compaction every log starts at its first entry.
Disks == [log : Seq(Entries), snapIndex : {0}, snapTerm : {0}]

\* A leader's log is made of what the leaders before it wrote.
LedgerInv(tl) ==
    /\ tl \in Ledgers
    /\ \A t \in Nat :
         /\ Rooted(tl, tl[t])
         /\ \A n \in DOMAIN tl[t] : tl[t][n].term <= t
         /\ Len(tl[t]) <= MaxLog
         /\ tl[t] # <<>> => \E e \in elected : e.term = t

\* So is every log, up to the node's own term; a leader's log is the ledger of its term.
DiskInv(tl) ==
    /\ disk \in [Node -> Disks]
    /\ \A i \in Node :
         /\ Rooted(tl, disk[i].log)
         /\ \A n \in DOMAIN disk[i].log : disk[i].log[n].term <= currentTerm[i]
         /\ state[i] = "Leader" => disk[i].log = tl[currentTerm[i]]
         /\ state[i] = "Candidate" => round[i].pos = LastPos(disk[i])

\* Entry e has been committed in term t or before.
Committed(e, t) == \E x \in committed : x.entry = e /\ x.in <= t

\* The last position an AppendEntries request covers.
Sent(m) == m.prevIndex + Len(m.entries)

\* An AppendEntries request is a piece of what the leader of its term has written.
AppendOK(tl, m) ==
    /\ m.kind = "AE"
    /\ m.prevIndex \in Nat
    /\ m.entries \in Seq(Entries)
    /\ Sent(m) <= Len(tl[m.term])
    /\ \A k \in DOMAIN m.entries : m.entries[k] = tl[m.term][m.prevIndex + k]
    /\ m.prevIndex # 0 => m.prevTerm = tl[m.term][m.prevIndex].term
    /\ m.commit \in 0 .. Sent(m)
    /\ \A n \in 1 .. m.commit : Committed(tl[m.term][n], m.term)

RequestOK(tl, m) == AppendOK(tl, m) \/ (m.kind = "IS" /\ m.snapIndex = 0)

LEMMA TermsRise ==
    ASSUME NEW tl, LedgerInv(tl), NEW s \in Seq(Entries), Rooted(tl, s),
           NEW m \in DOMAIN s, NEW n \in DOMAIN s, m <= n
    PROVE  s[m].term <= s[n].term
<1>1. /\ s[n].term \in Nat /\ m \in Nat /\ n \in Nat /\ m >= 1
      /\ Agree(tl[s[n].term], s, n)
  BY LogType DEF Rooted
<1>2. tl[s[n].term] \in Seq(Entries)
  BY <1>1 DEF LedgerInv, Ledgers
<1>3. m \in DOMAIN tl[s[n].term] /\ tl[s[n].term][m] = s[m]
  BY <1>1, <1>2, LogType DEF Agree
<1>. QED  BY <1>1, <1>3 DEF LedgerInv

LEMMA DiskFacts ==
    ASSUME NEW d \in Disks
    PROVE  /\ d.log \in Seq(Entries) /\ d.snapIndex = 0 /\ d.snapTerm = 0
           /\ Len(d.log) \in Nat /\ DOMAIN d.log = 1 .. Len(d.log)
           /\ \A n \in Int : /\ PosOf(d, n) = n
                             /\ InLog(d, n) <=> n \in DOMAIN d.log
                             /\ HasLogAt(d, n) <=> n = 0 \/ n \in DOMAIN d.log
           /\ LogTermAt(d, 0) = 0
           /\ \A n \in DOMAIN d.log : LogTermAt(d, n) = d.log[n].term
<1>1. d.log \in Seq(Entries) /\ d.snapIndex = 0 /\ d.snapTerm = 0
  BY DEF Disks
<1>2. Len(d.log) \in Nat /\ DOMAIN d.log = 1 .. Len(d.log)
  BY <1>1, LogType
<1>3. \A n \in Int : /\ PosOf(d, n) = n
                     /\ InLog(d, n) <=> n \in DOMAIN d.log
                     /\ HasLogAt(d, n) <=> n = 0 \/ n \in DOMAIN d.log
  BY <1>1 DEF PosOf, InLog, HasLogAt
<1>4. \A n \in DOMAIN d.log : n \in Int /\ n # 0
  BY <1>2
<1>5. \A n \in DOMAIN d.log : LogTermAt(d, n) = d.log[n].term
  BY <1>1, <1>3, <1>4 DEF LogTermAt
<1>. QED  BY <1>1, <1>2, <1>3, <1>5 DEF LogTermAt

LEMMA LastFacts ==
    ASSUME NEW tl, NEW d \in Disks, Rooted(tl, d.log)
    PROVE  /\ LastLogIndex(d) = Len(d.log)
           /\ d.log = <<>> => LastLogTerm(d) = 0
           /\ d.log # <<>> => /\ Len(d.log) \in DOMAIN d.log
                              /\ LastLogTerm(d) = d.log[Len(d.log)].term
           /\ LastLogTerm(d) \in Nat
<1>1. /\ d.log \in Seq(Entries) /\ d.snapIndex = 0 /\ d.snapTerm = 0
      /\ Len(d.log) \in Nat /\ DOMAIN d.log = 1 .. Len(d.log)
  BY DiskFacts
<1>2. d.log # <<>> => Len(d.log) \in DOMAIN d.log
  BY <1>1, EmptySeq
<1>3. CASE d.log = <<>>
  BY <1>1, <1>3 DEF LastLogIndex, LastLogTerm
<1>4. CASE d.log # <<>>
  <2>1. d.log[Len(d.log)].index = Len(d.log)
    BY <1>2, <1>4 DEF Rooted
  <2>2. d.log[Len(d.log)].term \in Nat
    BY <1>1, <1>2, <1>4, LogType
  <2>. QED  BY <1>2, <1>4, <2>1, <2>2 DEF LastLogIndex, LastLogTerm, Last
<1>. QED  BY <1>3, <1>4

\* Matches: the log agrees with the leader's up to the previous entry.
LEMMA MatchesAgrees ==
    ASSUME NEW tl, LedgerInv(tl), NEW d \in Disks, Rooted(tl, d.log),
           NEW m, m.term \in Nat, AppendOK(tl, m),
           HasLogAt(d, m.prevIndex), LogTermAt(d, m.prevIndex) = m.prevTerm
    PROVE  Agree(d.log, tl[m.term], m.prevIndex)
<1>1. /\ tl \in Ledgers /\ tl[m.term] \in Seq(Entries) /\ d.log \in Seq(Entries)
      /\ Rooted(tl, tl[m.term]) /\ m.prevIndex \in Nat
      /\ m.entries \in Seq(Entries) /\ Sent(m) <= Len(tl[m.term])
  BY DiskFacts DEF LedgerInv, Ledgers, AppendOK
<1>2. /\ Len(tl[m.term]) \in Nat /\ Len(d.log) \in Nat /\ Len(m.entries) \in Nat
      /\ DOMAIN tl[m.term] = 1 .. Len(tl[m.term]) /\ DOMAIN d.log = 1 .. Len(d.log)
  BY <1>1, LogType
<1>3. CASE m.prevIndex = 0
  BY <1>2, <1>3 DEF Agree
<1>4. CASE m.prevIndex # 0
  <2>1. m.prevIndex \in DOMAIN d.log
    BY <1>1, <1>4, DiskFacts
  <2>2. m.prevIndex \in DOMAIN tl[m.term]
    BY <1>1, <1>2, <1>4 DEF Sent
  <2>3. d.log[m.prevIndex].term = tl[m.term][m.prevIndex].term
    BY <1>4, <2>1, DiskFacts DEF AppendOK
  <2>. QED  BY <1>1, <2>1, <2>2, <2>3, RootedMatch
<1>. QED  BY <1>3, <1>4

\* What handleAppendEntries does to a log that matches.
LEMMA AddEntriesFollows ==
    ASSUME NEW tl, LedgerInv(tl), NEW d \in Disks, Rooted(tl, d.log),
           NEW m, m.term \in Nat, AppendOK(tl, m),
           HasLogAt(d, m.prevIndex), LogTermAt(d, m.prevIndex) = m.prevTerm
    PROVE  /\ AddEntries(d, m.entries) \in Disks
           /\ Agree(AddEntries(d, m.entries).log, tl[m.term], Sent(m))
           /\ \/ AddEntries(d, m.entries) = d
              \/ Cuts(d.log, AddEntries(d, m.entries).log, tl[m.term])
<1> DEFINE ref == tl[m.term]
           p == m.prevIndex
           E == m.entries
           new == AddEntries(d, E)
           M == Missing(d, E)
<1>1. /\ tl \in Ledgers /\ ref \in Seq(Entries) /\ d.log \in Seq(Entries)
      /\ Rooted(tl, ref) /\ p \in Nat
      /\ E \in Seq(Entries) /\ p + Len(E) <= Len(ref) /\ Sent(m) = p + Len(E)
  BY DiskFacts DEF LedgerInv, Ledgers, AppendOK, Sent
<1>2. /\ Len(ref) \in Nat /\ Len(d.log) \in Nat /\ Len(E) \in Nat
      /\ DOMAIN ref = 1 .. Len(ref) /\ DOMAIN d.log = 1 .. Len(d.log)
      /\ DOMAIN E = 1 .. Len(E)
  BY <1>1, LogType
<1>3. Agree(d.log, ref, p)
  BY MatchesAgrees
<1>4. ASSUME NEW k \in DOMAIN E
      PROVE  /\ p + k \in DOMAIN ref /\ E[k] = ref[p + k] /\ E[k].index = p + k
             /\ PosOf(d, E[k].index) = p + k /\ E[k].index > d.snapIndex
  <2>1. p + k \in DOMAIN ref /\ p + k \in Int /\ p + k > 0
    BY <1>1, <1>2
  <2>2. E[k] = ref[p + k]
    BY DEF AppendOK
  <2>3. ref[p + k].index = p + k
    BY <1>1, <2>1 DEF Rooted
  <2>. QED  BY <2>1, <2>2, <2>3, DiskFacts
<1>5. \A k \in DOMAIN E :
        k \in M <=> p + k > Len(d.log) \/ d.log[p + k].term # ref[p + k].term
  BY <1>4 DEF Missing
<1>6. ASSUME NEW k \in DOMAIN E, k \notin M
      PROVE  Agree(d.log, ref, p + k)
  <2>1. p + k \in DOMAIN ref /\ p + k \in DOMAIN d.log
    BY <1>1, <1>2, <1>4, <1>5, <1>6
  <2>2. d.log[p + k].term = ref[p + k].term
    BY <1>5, <1>6
  <2>. QED  BY <1>1, <2>1, <2>2, RootedMatch
<1>7. CASE M = {}
  <2>1. new = d
    BY <1>7 DEF AddEntries
  <2>2. Agree(d.log, ref, p + Len(E))
    <3>1. CASE Len(E) = 0
      BY <1>1, <1>3, <3>1
    <3>2. CASE Len(E) # 0
      BY <1>2, <1>6, <1>7, <3>2
    <3>. QED  BY <3>1, <3>2
  <2>. QED  BY <1>1, <2>1, <2>2
<1>8. CASE M # {}
  <2> DEFINE f == Min(M)
  <2>1. f \in M /\ \A k \in M : f <= k
    <3>1. M \subseteq Nat
      BY <1>2 DEF Missing
    <3>. QED  BY <1>8, <3>1, MinIsSmallest
  <2>2. f \in DOMAIN E
    BY <2>1 DEF Missing
  <2> HIDE DEF f
  <2>3. Agree(d.log, ref, p + f - 1)
    <3>1. CASE f = 1
      BY <1>1, <1>3, <3>1
    <3>2. CASE f # 1
      <4>1. f - 1 \in DOMAIN E
        BY <1>2, <2>2, <3>2
      <4>2. f - 1 \notin M
        BY <1>2, <2>1, <2>2
      <4>3. p + f - 1 = p + (f - 1)
        BY <1>1, <1>2, <2>2
      <4>. QED  BY <1>6, <4>1, <4>2, <4>3
    <3>. QED  BY <3>1, <3>2
  <2>4. p + f - 1 \in 0 .. Len(d.log) /\ p + f - 1 \in 0 .. Len(ref)
    BY <2>3 DEF Agree
  <2>5. Min({Len(d.log), PosOf(d, E[f].index) - 1}) = p + f - 1
    <3>1. PosOf(d, E[f].index) - 1 = p + f - 1
      BY SMTT(30), <1>1, <1>2, <1>4, <2>2
    <3>. QED  BY <1>2, <2>4, <3>1, MinOfTwo
  <2>6. new = [d EXCEPT !.log = SubSeq(d.log, 1, p + f - 1) \o SubSeq(E, f, Len(E))]
    BY <1>8, <2>5 DEF AddEntries, f
  <2> DEFINE a == SubSeq(d.log, 1, p + f - 1)
             b == SubSeq(E, f, Len(E))
             r == SubSeq(ref, 1, p + Len(E))
  <2>7. /\ a \in Seq(Entries) /\ Len(a) = p + f - 1
        /\ \A n \in 1 .. p + f - 1 : a[n] = d.log[n]
    BY <1>1, <2>4, PrefixType
  <2>8. /\ b \in Seq(Entries) /\ Len(b) = Len(E) - f + 1
        /\ \A n \in 1 .. Len(E) - f + 1 : b[n] = E[f + n - 1]
    <3>1. \A k \in f .. Len(E) : E[k] \in Entries
      BY <1>1, <1>2, <2>2, LogType
    <3>. QED  BY <1>2, <2>2, <3>1, SubSeqProperties
  <2>9. /\ r \in Seq(Entries) /\ Len(r) = p + Len(E)
        /\ \A n \in 1 .. p + Len(E) : r[n] = ref[n]
        /\ Agree(r, ref, p + Len(E))
    BY <1>1, <1>2, PrefixType
  <2> HIDE DEF a, b, r
  <2>0. p \in Nat /\ f \in Nat /\ Len(E) \in Nat /\ 1 <= f /\ f <= Len(E)
    BY <1>1, <1>2, <2>2
  <2>10. /\ a \o b \in Seq(Entries) /\ Len(a \o b) = p + Len(E)
         /\ \A n \in 1 .. p + Len(E) :
              (a \o b)[n] = IF n <= p + f - 1 THEN a[n] ELSE b[n - (p + f - 1)]
    <3>1. /\ a \o b \in Seq(Entries) /\ Len(a \o b) = Len(a) + Len(b)
          /\ \A n \in 1 .. Len(a) + Len(b) :
               (a \o b)[n] = IF n <= Len(a) THEN a[n] ELSE b[n - Len(a)]
      BY <2>7, <2>8, ConcatProperties
    <3>2. Len(a) = p + f - 1 /\ Len(b) = Len(E) - f + 1
      BY <2>7, <2>8
    <3>3. Len(a) + Len(b) = p + Len(E)
      <4>1. \A x, y, z \in Nat : (x + y - 1) + (z - y + 1) = x + z
        OBVIOUS
      <4>. QED  BY SMTT(30), <2>0, <3>2, <4>1
    <3>. QED  BY <2>7, <3>1, <3>3
  <2>11. ASSUME NEW n \in 1 .. p + Len(E)
         PROVE  (a \o b)[n] = ref[n]
    <3>1. CASE n <= p + f - 1
      BY SMTT(30), <2>3, <2>7, <2>10, <3>1 DEF Agree
    <3>2. CASE n > p + f - 1
      <4> DEFINE x == n - (p + f - 1)
      <4>1. x \in 1 .. Len(E) - f + 1 /\ ~(n <= p + f - 1)
        BY <1>1, <1>2, <2>2, <3>2
      <4>2. f + x - 1 \in DOMAIN E /\ p + (f + x - 1) = n
        <5>1. f + x - 1 = n - p
          BY <2>0
        <5>2. n - p \in 1 .. Len(E) /\ p + (n - p) = n
          BY <2>0, <3>2
        <5>. QED  BY <1>2, <5>1, <5>2
      <4>3. (a \o b)[n] = b[x]
        BY <2>10, <4>1
      <4>4. b[x] = E[f + x - 1]
        BY <2>8, <4>1
      <4>. QED  BY <1>4, <4>2, <4>3, <4>4
    <3>3. n <= p + f - 1 \/ n > p + f - 1
      BY <2>0
    <3>. QED  BY <3>1, <3>2, <3>3
  <2>12. a \o b = r
    BY <2>9, <2>10, <2>11, SeqEqual
  <2>13. new = [d EXCEPT !.log = r]
    BY <2>6, <2>12 DEF a, b
  <2>14. new \in Disks /\ new.log = r
    BY <2>9, <2>13 DEF Disks
  <2>15. ASSUME NEW n \in Nat, Agree(d.log, ref, n)
         PROVE  n <= p + Len(E)
    <3>. SUFFICES ASSUME n > p + Len(E) PROVE FALSE
      BY <1>1, <1>2
    <3>1. p + f \in 1 .. n
      BY <1>1, <1>2, <2>2
    <3>2. d.log[p + f] = ref[p + f] /\ n <= Len(d.log)
      BY <2>15, <3>1 DEF Agree
    <3>3. ~(p + f > Len(d.log))
      BY <1>1, <1>2, <2>2, <3>1, <3>2
    <3>. QED  BY <1>5, <2>1, <2>2, <3>2, <3>3
  <2>16. Cuts(d.log, r, ref)
    <3>1. p + Len(E) \in 0 .. Len(ref)
      BY <1>1, <1>2
    <3>. QED  BY <2>15, <3>1 DEF Cuts, r
  <2>. QED  BY <1>1, <2>9, <2>14, <2>16
<1>. QED  BY <1>7, <1>8

\* j may no longer forget an entry (n, T): it has it if it has left term T, and so has
\* everyone it votes for.
Held(tl, T, n, Q) ==
    /\ \A e \in elected : e.term > T => Has(tl[e.term], n, T)
    /\ \A j \in Q : currentTerm[j] > T => Has(disk[j].log, n, T)
    /\ \A j \in Q, c \in Node :
         state[c] = "Candidate" /\ currentTerm[c] > T /\ j \in Votes(c)
            => Has(disk[c].log, n, T)

\* Follower j stores the first n entries of the leader of term T, or has moved on.
Stored(tl, T, j, n) ==
    /\ n <= Len(tl[T])
    /\ n > 0 => /\ currentTerm[j] >= T
                /\ currentTerm[j] = T => Agree(disk[j].log, tl[T], n)

\* The call of a thread was answered by j: everything up to n is stored.
AcceptedUpTo(me, j, T, n) ==
    /\ me.pc = "answered" /\ me.reply.success
    /\ me.req.kind = "AE" /\ me.req.to = j /\ me.req.term = T
    /\ n <= Sent(me.req)

\* Leader l knows, or is about to learn, that j stores everything up to n.
AckedBy(l, j, n) ==
    \/ n <= matchIndex[l][j]
    \/ \E t \in Threads : AcceptedUpTo(job[l][t], j, currentTerm[l], n)

\* What a leader counts for a follower, or has an answer for, is stored there.
MatchInv(tl) ==
    /\ \A l, j \in Node : state[l] = "Leader" =>
         Stored(tl, currentTerm[l], j, matchIndex[l][j])
    /\ \A l \in Node, t \in Threads : \A j \in Node, T, n \in Nat :
         AcceptedUpTo(job[l][t], j, T, n) => Stored(tl, T, j, n)

\* Whatever a leader may still come to count as stored by a majority is out of reach of
\* every later election.
ChoosableInv(tl) ==
    \A l \in Node : state[l] = "Leader" =>
        \A n \in Nat, Q \in SUBSET Node :
            /\ Has(tl[currentTerm[l]], n, currentTerm[l])
            /\ IsMajority(Q)
            /\ \A j \in Q : currentTerm[j] <= currentTerm[l] \/ AckedBy(l, j, n)
            => Held(tl, currentTerm[l], n, Q)

\* The entry (n, T) is stored by a majority that holds it.
Chosen(tl, T, n) ==
    /\ Has(tl[T], n, T)
    /\ \E Q \in SUBSET Node :
         /\ IsMajority(Q)
         /\ Held(tl, T, n, Q)
         /\ \A j \in Q : currentTerm[j] >= T /\ Has(disk[j].log, n, T)

-----------------------------------------------------------------------------
(***************************************************************************)
(* What one step does to logs and votes.  The invariant follows from these *)
(* facts and those of RaftElectionProofs.                                  *)
(***************************************************************************)

LogFacts(tl, tl2) ==
    /\ Extends(tl, tl2)
    /\ disk' \in [Node -> Disks]
    /\ \A j \in Node :
         \/ disk'[j] = disk[j]
         \/ /\ state[j] = "Leader" /\ state'[j] = "Leader"
            /\ \E e \in Entries : disk'[j].log = Append(disk[j].log, e)
         \/ /\ state'[j] = "Follower"
            /\ \E e \in elected :
                 e.term = currentTerm'[j] /\ Cuts(disk[j].log, disk'[j].log, tl[e.term])
    /\ \A j \in Node : state'[j] = "Leader" => disk'[j].log = tl2[currentTerm'[j]]

VoteFacts ==
    \A c \in Node : state'[c] = "Candidate" =>
        \/ Starts(c) /\ round'[c].pos = LastPos(disk[c])
        \/ /\ Continues(c)
           /\ round'[c].pos = round[c].pos
           /\ \A v \in Votes(c)' : v \in Votes(c) \/ UpToDate(round[c].pos, disk[v])

\* A leader hears of what is stored from nodes that are in its term.
AckFacts ==
    \A l, j \in Node, n \in Nat :
        state[l] = "Leader" /\ state'[l] = "Leader" /\ AckedBy(l, j, n)'
            => AckedBy(l, j, n) \/ currentTerm'[j] <= currentTerm[l]

LEMMA LedgerTypes ==
    ASSUME NEW tl, LedgerInv(tl), NEW t \in Nat
    PROVE  /\ tl \in Ledgers /\ tl[t] \in Seq(Entries) /\ Rooted(tl, tl[t])
           /\ Len(tl[t]) \in Nat /\ DOMAIN tl[t] = 1 .. Len(tl[t])
<1>1. tl \in Ledgers /\ tl[t] \in Seq(Entries) /\ Rooted(tl, tl[t])
  BY DEF LedgerInv, Ledgers
<1>. QED  BY <1>1, LogType

LEMMA DiskTypes ==
    ASSUME NEW tl, DiskInv(tl), NEW i \in Node
    PROVE  /\ disk[i] \in Disks /\ disk[i].log \in Seq(Entries)
           /\ Len(disk[i].log) \in Nat /\ DOMAIN disk[i].log = 1 .. Len(disk[i].log)
           /\ Rooted(tl, disk[i].log)
<1>1. disk[i] \in Disks /\ Rooted(tl, disk[i].log)
  BY DEF DiskInv
<1>. QED  BY <1>1, DiskFacts

LEMMA TermTypes ==
    ASSUME Inv, ElectionStep, NEW i \in Node
    PROVE  /\ currentTerm[i] \in Nat /\ currentTerm'[i] \in Nat
           /\ currentTerm'[i] >= currentTerm[i]
  BY Grows DEF Inv

LEMMA ElectedTypes ==
    ASSUME Inv, NEW e \in elected
    PROVE  e.term \in Nat /\ e.leader \in Node /\ e.voters \in SUBSET Node
  BY DEF Inv, ElectionInv, ElectionTypeOK, Elections

\* A log keeps what it shares with the leader its node follows.
LEMMA LogKeeps ==
    ASSUME NEW tl, NEW tl2, LedgerInv(tl), DiskInv(tl), LogFacts(tl, tl2), Inv,
           NEW j \in Node, NEW n \in 0 .. Len(disk[j].log),
           \A e \in elected : e.term = currentTerm'[j]
                => Agree(disk[j].log, tl[e.term], n)
    PROVE  Agree(disk[j].log, disk'[j].log, n)
<1>1. /\ disk[j].log \in Seq(Entries) /\ Len(disk[j].log) \in Nat
      /\ DOMAIN disk[j].log = 1 .. Len(disk[j].log)
  BY DiskTypes
<1>2. CASE disk'[j] = disk[j]
  BY <1>1, <1>2, AgreeSame
<1>3. ASSUME NEW e \in Entries, disk'[j].log = Append(disk[j].log, e)
      PROVE  Agree(disk[j].log, disk'[j].log, n)
  BY <1>1, <1>3, AppendProperties DEF Agree
<1>4. ASSUME NEW e \in elected, e.term = currentTerm'[j],
             Cuts(disk[j].log, disk'[j].log, tl[e.term])
      PROVE  Agree(disk[j].log, disk'[j].log, n)
  <2>1. Agree(disk[j].log, tl[e.term], n)
    BY <1>4
  <2>2. tl[e.term] \in Seq(Entries) /\ Len(tl[e.term]) \in Nat
    BY ElectedTypes, LedgerTypes
  <2>3. PICK k \in 0 .. Len(tl[e.term]) :
          disk'[j].log = SubSeq(tl[e.term], 1, k) /\ n <= k
    BY <1>1, <1>4, <2>1 DEF Cuts
  <2>4. Agree(SubSeq(tl[e.term], 1, k), tl[e.term], k)
        /\ SubSeq(tl[e.term], 1, k) \in Seq(Entries)
    BY <2>2, PrefixType
  <2>5. n \in Nat /\ n <= k
    BY <1>1, <2>3
  <2>6. Agree(SubSeq(tl[e.term], 1, k), tl[e.term], n)
    BY <2>2, <2>4, <2>5, AgreeLess
  <2>. QED  BY <2>1, <2>3, <2>6, AgreeTransitive, AgreeSymmetric
<1>. QED  BY <1>2, <1>3, <1>4 DEF LogFacts

LEMMA LogKeepsHas ==
    ASSUME NEW tl, NEW tl2, LedgerInv(tl), DiskInv(tl), LogFacts(tl, tl2), Inv,
           NEW j \in Node, NEW n, NEW T, Has(disk[j].log, n, T),
           \A e \in elected : e.term = currentTerm'[j] => Has(tl[e.term], n, T)
    PROVE  Has(disk'[j].log, n, T)
<1>1. /\ disk[j].log \in Seq(Entries) /\ Len(disk[j].log) \in Nat
      /\ DOMAIN disk[j].log = 1 .. Len(disk[j].log) /\ Rooted(tl, disk[j].log)
  BY DiskTypes
<1>2. n \in 0 .. Len(disk[j].log) /\ n \in DOMAIN disk[j].log /\ n <= n
  BY <1>1 DEF Has
<1>3. ASSUME NEW e \in elected, e.term = currentTerm'[j]
      PROVE  Agree(disk[j].log, tl[e.term], n)
  <2>1. Has(tl[e.term], n, T)
    BY <1>3
  <2>2. /\ tl \in Ledgers /\ tl[e.term] \in Seq(Entries) /\ Rooted(tl, tl[e.term])
    BY ElectedTypes, LedgerTypes
  <2>. QED  BY <1>1, <1>2, <2>1, <2>2, RootedMatch DEF Has
<1>4. Agree(disk[j].log, disk'[j].log, n)
  BY <1>2, <1>3, LogKeeps
<1>5. disk'[j].log \in Seq(Entries)
  BY DiskFacts DEF LogFacts
<1>. QED  BY <1>1, <1>2, <1>4, <1>5, HasAgrees

\* A candidate that compares as up to date with a node that has (n, T) has it as well.
LEMMA UpToDateHas ==
    ASSUME NEW tl, LedgerInv(tl), Inv, NEW c \in Disks, NEW v \in Disks,
           Rooted(tl, c.log), Rooted(tl, v.log),
           NEW T \in Nat, NEW n, Has(v.log, n, T), UpToDate(LastPos(c), v),
           \A e \in elected : e.term > T => Has(tl[e.term], n, T)
    PROVE  Has(c.log, n, T)
<1> DEFINE p == Len(c.log)
           u == LastLogTerm(c)
<1>1. /\ c.log \in Seq(Entries) /\ v.log \in Seq(Entries) /\ tl \in Ledgers
      /\ p \in Nat /\ Len(v.log) \in Nat
      /\ DOMAIN c.log = 1 .. p /\ DOMAIN v.log = 1 .. Len(v.log)
  BY DiskFacts DEF LedgerInv
<1>2. /\ LastLogIndex(c) = p /\ LastLogIndex(v) = Len(v.log)
      /\ u \in Nat /\ LastLogTerm(v) \in Nat
      /\ c.log = <<>> => u = 0
      /\ c.log # <<>> => p \in DOMAIN c.log /\ u = c.log[p].term
      /\ v.log # <<>> => Len(v.log) \in DOMAIN v.log
                         /\ LastLogTerm(v) = v.log[Len(v.log)].term
  BY LastFacts
<1>3. n \in DOMAIN v.log /\ v.log[n].term = T /\ v.log # <<>> /\ n \in Nat /\ n >= 1
  BY <1>1 DEF Has
<1>4. LastLogTerm(v) >= T
  <2>1. Len(v.log) \in DOMAIN v.log /\ n <= Len(v.log)
    BY <1>1, <1>2, <1>3
  <2>2. v.log[n].term <= v.log[Len(v.log)].term
    BY <1>1, <1>3, <2>1, TermsRise
  <2>. QED  BY <1>2, <1>3, <2>2
<1>5. u > LastLogTerm(v) \/ (u = LastLogTerm(v) /\ p >= Len(v.log))
  BY <1>2 DEF UpToDate, LastPos
<1>6. c.log # <<>>
  BY <1>1, <1>2, <1>3, <1>4, <1>5, EmptySeq
<1>7. p \in DOMAIN c.log /\ u = c.log[p].term /\ Agree(tl[u], c.log, p)
  BY <1>2, <1>6 DEF Rooted
<1>8. tl[u] \in Seq(Entries) /\ Rooted(tl, tl[u]) /\ DOMAIN tl[u] = 1 .. Len(tl[u])
      /\ Len(tl[u]) \in Nat
  BY <1>2, LedgerTypes
<1>9. p \in DOMAIN tl[u] /\ tl[u][p].term = u /\ tl[u] # <<>>
  BY <1>1, <1>7, <1>8 DEF Agree
<1>10. CASE u > T
  <2>1. Has(tl[u], n, T)
    BY <1>2, <1>9, <1>10 DEF LedgerInv
  <2>2. n <= p
    <3>. SUFFICES ASSUME p < n PROVE FALSE
      BY <1>1, <1>3
    <3>1. n \in DOMAIN tl[u] /\ tl[u][n].term = T /\ p <= n
      BY <1>1, <1>3, <2>1 DEF Has
    <3>2. tl[u][p].term <= tl[u][n].term
      BY <1>8, <1>9, <3>1, TermsRise
    <3>. QED  BY <1>2, <1>9, <1>10, <3>1, <3>2
  <2>. QED  BY <1>1, <1>7, <1>8, <2>1, <2>2, HasAgrees
<1>11. CASE u = T
  <2>1. n <= p
    BY <1>1, <1>2, <1>3, <1>4, <1>5, <1>11
  <2>2. Agree(tl[T], v.log, n)
    BY <1>3 DEF Rooted
  <2>3. Has(tl[T], n, T)
    <3>1. Agree(v.log, tl[T], n) /\ n <= n /\ tl[T] \in Seq(Entries)
      BY <1>3, <1>8, <1>11, <2>2, AgreeSymmetric
    <3>. QED  BY <1>1, <3>1, HasAgrees
  <2>. QED  BY <1>1, <1>7, <1>8, <1>11, <2>1, <2>3, HasAgrees
<1>. QED  BY <1>2, <1>4, <1>5, <1>10, <1>11

\* Nobody was elected before in the term a node wins.
LEMMA WinnerIsFirst ==
    ASSUME ElectionInv, NEW i \in Node, Wins(i), NEW e \in elected
    PROVE  e.term # currentTerm[i]
<1>. SUFFICES ASSUME e.term = currentTerm[i] PROVE FALSE
  OBVIOUS
<1>1. PICK S \in SUBSET Votes(i) : IsMajority(S)
  BY DEF Wins
<1>2. state[i] = "Candidate"
  BY DEF Wins
<1>3. Votes(i) \in SUBSET Node
  BY DEF ElectionInv, ElectionTypeOK, Votes, Rounds, Calls
<1>4. /\ e.voters \in SUBSET Node /\ IsMajority(e.voters)
      /\ Votes(i) \cap e.voters = {}
  BY <1>2 DEF ElectionInv, HistoryInv, ElectionTypeOK, Elections
<1>. QED  BY <1>1, <1>3, <1>4, MajoritiesIntersect

\* The log of a node that wins has no entry of its new term.
LEMMA WinnerLog ==
    ASSUME NEW tl, LedgerInv(tl), DiskInv(tl), Inv, NEW i \in Node, Wins(i)
    PROVE  /\ tl[currentTerm[i]] = <<>>
           /\ \A n : ~Has(disk[i].log, n, currentTerm[i])
<1>1. currentTerm[i] \in Nat
  BY DEF Inv, ElectionInv, ElectionTypeOK
<1>2. tl[currentTerm[i]] = <<>>
  BY <1>1, WinnerIsFirst DEF LedgerInv, Inv
<1>3. ASSUME NEW n, Has(disk[i].log, n, currentTerm[i])
      PROVE  FALSE
  <2>1. Agree(tl[currentTerm[i]], disk[i].log, n)
    BY <1>3 DEF DiskInv, Rooted, Has
  <2>2. n \in 1 .. Len(disk[i].log)
    BY <1>3, DiskTypes DEF Has
  <2>. QED  BY <1>2, <2>1, <2>2, EmptySeq DEF Agree
<1>. QED  BY <1>2, <1>3

LEMMA VotesType ==
    ASSUME ElectionInv, NEW i \in Node
    PROVE  Votes(i) \in SUBSET Node
  BY DEF ElectionInv, ElectionTypeOK, Votes, Rounds, Calls

LEMMA NewlyElected ==
    ASSUME Inv, ElectionStep, NEW e \in elected', e \notin elected
    PROVE  /\ e.leader \in Node /\ Wins(e.leader) /\ e.term = currentTerm[e.leader]
           /\ e.term \in Nat
           /\ e.voters \in SUBSET Votes(e.leader) /\ IsMajority(e.voters)
           /\ state[e.leader] = "Candidate" /\ state'[e.leader] = "Leader"
           /\ currentTerm' = currentTerm
<1>1. StepFacts
  BY FactsNext DEF ElectionStep, Inv, ElectionInv
<1>2. /\ e.leader \in Node /\ Wins(e.leader) /\ e.term = currentTerm[e.leader]
      /\ e.voters \in SUBSET Votes(e.leader) /\ IsMajority(e.voters)
  BY <1>1, ElectionMonotone DEF Inv
<1>3. /\ state[e.leader] = "Candidate" /\ state'[e.leader] = "Leader"
      /\ currentTerm' = currentTerm
  BY <1>2 DEF Wins, Inv, ElectionInv, ElectionTypeOK
<1>. QED  BY <1>2, <1>3 DEF Inv, ElectionInv, ElectionTypeOK

\* What a majority holds, it still holds after any step, provided those of it that
\* leave term T in this step have the entry.
LEMMA HeldStep ==
    ASSUME NEW tl, NEW tl2, LedgerInv(tl), LedgerInv(tl2)', DiskInv(tl), Inv, ElectionStep,
           LogFacts(tl, tl2), VoteFacts,
           NEW T \in Nat, NEW n, NEW Q \in SUBSET Node, IsMajority(Q),
           Held(tl, T, n, Q),
           \A j \in Q : currentTerm[j] <= T /\ currentTerm'[j] > T
                          => Has(disk[j].log, n, T)
    PROVE  Held(tl2, T, n, Q)'
<1>1. ASSUME NEW j \in Q, currentTerm'[j] > T
      PROVE  Has(disk[j].log, n, T)
  BY <1>1, TermTypes DEF Held
<1>2. ASSUME NEW j \in Q, currentTerm'[j] > T
      PROVE  Has(disk'[j].log, n, T)
  <2>1. \A e \in elected : e.term = currentTerm'[j] => Has(tl[e.term], n, T)
    BY <1>2 DEF Held
  <2>. QED  BY <1>1, <1>2, <2>1, LogKeepsHas
<1>3. ASSUME NEW e \in elected', e.term > T
      PROVE  Has(tl2[e.term], n, T)
  <2>1. CASE e \in elected
    <3>1. Has(tl[e.term], n, T) /\ e.term \in Nat
      BY <1>3, <2>1, ElectedTypes DEF Held
    <3>. QED  BY <3>1, HasExtends DEF LogFacts, LedgerInv
  <2>2. CASE e \notin elected
    <3> DEFINE c == e.leader
    <3>1. /\ c \in Node /\ e.term = currentTerm[c] /\ currentTerm' = currentTerm
          /\ e.voters \in SUBSET Votes(c) /\ IsMajority(e.voters)
          /\ state[c] = "Candidate" /\ state'[c] = "Leader"
      BY <2>2, NewlyElected
    <3>2. PICK j \in Q : j \in Votes(c)
      BY <3>1, VotesType, MajoritiesIntersect DEF Inv
    <3>3. Has(disk[c].log, n, T)
      BY <1>3, <3>1, <3>2 DEF Held
    <3>4. disk'[c] = disk[c] /\ disk'[c].log = tl2[e.term]
      BY <3>1 DEF LogFacts
    <3>. QED  BY <3>3, <3>4
  <2>. QED  BY <2>1, <2>2
<1>4. ASSUME NEW j \in Q, NEW c \in Node, state'[c] = "Candidate", currentTerm'[c] > T,
             j \in Votes(c)'
      PROVE  Has(disk'[c].log, n, T)
  <2>0. disk'[c] = disk[c]
    BY <1>4 DEF LogFacts
  <2>1. CASE Starts(c)
    <3>1. j = c
      BY <1>4, <2>1 DEF Starts
    <3>. QED  BY <1>2, <1>4, <3>1
  <2>2. CASE Continues(c) /\ j \in Votes(c)
    <3>1. state[c] = "Candidate" /\ currentTerm[c] > T
      BY <1>4, <2>2 DEF Continues
    <3>. QED  BY <2>0, <2>2, <3>1 DEF Held
  <2>3. CASE /\ Continues(c) /\ j \notin Votes(c)
             /\ UpToDate(round[c].pos, disk[j])
    <3>1. state[c] = "Candidate" /\ currentTerm'[j] = currentTerm'[c]
      BY <1>4, <2>3 DEF Continues, Grants
    <3>2. Has(disk[j].log, n, T)
      BY <1>1, <1>4, <3>1
    <3>3. round[c].pos = LastPos(disk[c])
      BY <3>1 DEF DiskInv
    <3>4. \A e \in elected : e.term > T => Has(tl[e.term], n, T)
      BY DEF Held
    <3>5. j \in Node
      OBVIOUS
    <3>. QED  BY <2>0, <2>3, <3>2, <3>3, <3>4, <3>5, DiskTypes, UpToDateHas
  <2>. QED  BY <1>4, <2>1, <2>2, <2>3 DEF VoteFacts
<1>. QED  BY <1>2, <1>3, <1>4 DEF Held

\* A majority that has not left term T has not let anybody pass it.
BehindIsHeld ==
    \A tl, n : \A T \in Nat, Q \in SUBSET Node :
        IsMajority(Q) /\ (\A j \in Q : currentTerm[j] <= T) => Held(tl, T, n, Q)

LEMMA HeldWhileBehind == ElectionInv => BehindIsHeld
<1>. SUFFICES ASSUME ElectionInv, NEW tl, NEW n, NEW T \in Nat, NEW Q \in SUBSET Node,
                     IsMajority(Q), \A j \in Q : currentTerm[j] <= T
              PROVE  Held(tl, T, n, Q)
  BY DEF BehindIsHeld
<1>1. \A j \in Node : currentTerm[j] \in Nat
  BY DEF ElectionInv, ElectionTypeOK
<1>2. ASSUME NEW e \in elected, e.term > T
      PROVE  FALSE
  <2>1. /\ IsMajority(e.voters) /\ e.voters \in SUBSET Node /\ e.term \in Nat
        /\ \A v \in e.voters : VoteSpent(v, e.leader, e.term)
    BY DEF ElectionInv, HistoryInv, ElectionTypeOK, Elections
  <2>2. PICK v \in Q : v \in e.voters
    BY <2>1, MajoritiesIntersect
  <2>3. currentTerm[v] >= e.term
    BY <1>1, <2>1, <2>2 DEF VoteSpent
  <2>. QED  BY <1>1, <1>2, <2>1, <2>3
<1>3. ASSUME NEW j \in Q, NEW c \in Node, state[c] = "Candidate", currentTerm[c] > T,
             j \in Votes(c)
      PROVE  FALSE
  <2>1. VoteSpent(j, c, currentTerm[c])
    BY <1>3 DEF ElectionInv, VotesInv
  <2>. QED  BY <1>1, <1>3, <2>1 DEF VoteSpent
<1>4. ASSUME NEW j \in Q, currentTerm[j] > T
      PROVE  FALSE
  BY <1>1, <1>4
<1>. QED  BY <1>2, <1>3, <1>4 DEF Held

LEMMA AckedIsStored ==
    ASSUME NEW tl, LedgerInv(tl), DiskInv(tl), MatchInv(tl), Inv,
           NEW l \in Node, state[l] = "Leader", NEW j \in Node,
           NEW n \in Nat, n > 0, AckedBy(l, j, n), matchIndex[l][j] \in Nat
    PROVE  /\ n <= Len(tl[currentTerm[l]])
           /\ currentTerm[j] >= currentTerm[l]
           /\ currentTerm[j] = currentTerm[l] => Agree(disk[j].log, tl[currentTerm[l]], n)
<1>1. currentTerm[l] \in Nat
  BY DEF Inv, ElectionInv, ElectionTypeOK
<1>2. Len(tl[currentTerm[l]]) \in Nat
  BY <1>1, LedgerTypes
<1>3. CASE n <= matchIndex[l][j]
  <2>1. Stored(tl, currentTerm[l], j, matchIndex[l][j])
    BY DEF MatchInv
  <2>2. matchIndex[l][j] > 0
    BY <1>3
  <2>. QED  BY <1>2, <1>3, <2>1, <2>2, AgreeLess, DiskTypes DEF Stored
<1>4. ASSUME NEW t \in Threads, AcceptedUpTo(job[l][t], j, currentTerm[l], n)
      PROVE  Stored(tl, currentTerm[l], j, n)
  BY <1>1, <1>4 DEF MatchInv
<1>. QED  BY <1>3, <1>4 DEF AckedBy, Stored

LEMMA ChoosableStep ==
    ASSUME NEW tl, NEW tl2, LedgerInv(tl), LedgerInv(tl2)', DiskInv(tl), Inv, ElectionStep,
           LogFacts(tl, tl2), VoteFacts, AckFacts, MatchInv(tl), ChoosableInv(tl),
           \A l, j \in Node : matchIndex[l][j] \in Nat
    PROVE  ChoosableInv(tl2)'
<1>1. ASSUME NEW l \in Node, state'[l] = "Leader", NEW T \in Nat, currentTerm'[l] = T,
             NEW n \in Nat, NEW Q \in SUBSET Node, IsMajority(Q), Has(tl2[T], n, T),
             \A j \in Q : currentTerm'[j] <= T \/ AckedBy(l, j, n)'
      PROVE  Held(tl2, T, n, Q)'
  <2>1. StepFacts
    BY FactsNext DEF ElectionStep, Inv, ElectionInv
  <2>2. disk'[l].log = tl2[T]
    BY <1>1 DEF LogFacts
  <2>3. CASE Wins(l)
    <3>1. currentTerm[l] = T /\ state[l] = "Candidate"
      BY <1>1, <2>3 DEF Wins
    <3>2. disk'[l] = disk[l]
      BY <1>1, <3>1 DEF LogFacts
    <3>3. Has(disk[l].log, n, T)
      BY <1>1, <2>2, <3>2
    <3>. QED  BY <2>3, <3>1, <3>3, WinnerLog
  <2>4. CASE state[l] = "Leader" /\ currentTerm[l] = T
    <3>0. /\ tl[T] \in Seq(Entries) /\ Len(tl[T]) \in Nat /\ DOMAIN tl[T] = 1 .. Len(tl[T])
          /\ tl \in Ledgers /\ tl2 \in Ledgers /\ tl2[T] \in Seq(Entries)
      BY LedgerTypes DEF LedgerInv, Ledgers
    <3>1. n \in 1 .. Len(tl2[T])
      BY <1>1, <3>0, LogType DEF Has
    <3>2. CASE n <= Len(tl[T])
      <4>1. Has(tl[T], n, T)
        <5>1. Agree(tl2[T], tl[T], Len(tl[T]))
          BY AgreeSymmetric DEF LogFacts, Extends
        <5>. QED  BY <1>1, <3>0, <3>2, <5>1, HasAgrees
      <4>2. ASSUME NEW j \in Q
            PROVE  currentTerm[j] <= T \/ AckedBy(l, j, n)
        BY <1>1, <2>4, TermTypes DEF AckFacts
      <4>3. Held(tl, T, n, Q)
        BY <1>1, <2>4, <4>1, <4>2 DEF ChoosableInv
      <4>4. ASSUME NEW j \in Q, currentTerm[j] <= T, currentTerm'[j] > T
            PROVE  Has(disk[j].log, n, T)
        <5>1. j \in Node /\ currentTerm[j] \in Nat /\ currentTerm'[j] \in Nat
          BY TermTypes
        <5>2. AckedBy(l, j, n)'
          BY <1>1, <4>4, <5>1
        <5>3. AckedBy(l, j, n)
          BY <1>1, <2>4, <4>4, <5>1, <5>2 DEF AckFacts
        <5>4. n > 0 /\ matchIndex[l][j] \in Nat
          BY <3>1, <5>1
        <5>5. Agree(disk[j].log, tl[T], n)
          <6>1. /\ currentTerm[j] >= T
                /\ currentTerm[j] = T => Agree(disk[j].log, tl[T], n)
            BY <2>4, <5>1, <5>3, <5>4, AckedIsStored
          <6>. QED  BY <4>4, <5>1, <6>1
        <5>6. Agree(tl[T], disk[j].log, n) /\ n <= n
          BY <5>5, AgreeSymmetric
        <5>7. disk[j].log \in Seq(Entries)
          BY <5>1, DiskTypes
        <5>. QED  BY <3>0, <4>1, <5>6, <5>7, HasAgrees
      <4>. QED  BY <1>1, <4>3, <4>4, HeldStep
    <3>3. CASE n > Len(tl[T])
      <4>1. ASSUME NEW j \in Q
            PROVE  currentTerm'[j] <= T
        <5>1. j \in Node /\ n > 0 /\ matchIndex[l][j] \in Nat
          BY <3>1
        <5>2. ~AckedBy(l, j, n)
          <6>. SUFFICES ASSUME AckedBy(l, j, n) PROVE FALSE
            OBVIOUS
          <6>1. n <= Len(tl[T])
            BY <2>4, <5>1, AckedIsStored
          <6>. QED  BY <3>0, <3>3, <6>1
        <5>. QED  BY <1>1, <2>4, <5>1, <5>2 DEF AckFacts
      <4>2. ElectionInv'
        BY ElectionInvStep DEF Inv
      <4>3. (ElectionInv => BehindIsHeld)'
        BY HeldWhileBehind, PTL
      <4>. QED  BY <1>1, <4>1, <4>2, <4>3 DEF BehindIsHeld
    <3>. QED  BY <3>0, <3>1, <3>2, <3>3
  <2>. QED  BY <1>1, <2>1, <2>3, <2>4 DEF StepFacts
<1>2. \A l \in Node : currentTerm'[l] \in Nat
  BY TermTypes
<1>. QED  BY <1>1, <1>2 DEF ChoosableInv, IsMajority

LEMMA ChosenStep ==
    ASSUME NEW tl, NEW tl2, LedgerInv(tl), LedgerInv(tl2)', DiskInv(tl), Inv, ElectionStep,
           LogFacts(tl, tl2), VoteFacts,
           NEW T \in Nat, NEW n, Chosen(tl, T, n)
    PROVE  Chosen(tl2, T, n)'
<1>1. PICK Q \in SUBSET Node :
        /\ IsMajority(Q) /\ Held(tl, T, n, Q)
        /\ \A j \in Q : currentTerm[j] >= T /\ Has(disk[j].log, n, T)
  BY DEF Chosen
<1>2. Held(tl2, T, n, Q)'
  BY <1>1, HeldStep
<1>3. ASSUME NEW j \in Q
      PROVE  currentTerm'[j] >= T /\ Has(disk'[j].log, n, T)
  <2>1. /\ currentTerm[j] \in Nat /\ currentTerm'[j] \in Nat
        /\ currentTerm'[j] >= currentTerm[j] /\ currentTerm[j] >= T
    BY <1>1, TermTypes
  <2>2. ASSUME NEW e \in elected, e.term = currentTerm'[j]
        PROVE  Has(tl[e.term], n, T)
    <3>1. e.term = T \/ e.term > T
      BY <2>1, <2>2
    <3>. QED  BY <1>1, <3>1 DEF Held, Chosen
  <2>. QED  BY <1>1, <2>1, <2>2, LogKeepsHas
<1>4. Has(tl2[T], n, T)
  BY HasExtends DEF Chosen, LogFacts, LedgerInv
<1>. QED  BY <1>1, <1>2, <1>3, <1>4 DEF Chosen, IsMajority

\* Every leader from term T on has what was chosen in term T.
LEMMA ChosenIsLed ==
    ASSUME NEW tl, LedgerInv(tl), NEW T \in Nat, NEW n, Chosen(tl, T, n),
           NEW e \in elected, e.term \in Nat, e.term >= T
    PROVE  Agree(tl[T], tl[e.term], n)
<1>1. Has(tl[T], n, T) /\ Has(tl[e.term], n, T)
  BY DEF Chosen, Held
<1>2. /\ tl \in Ledgers /\ tl[T] \in Seq(Entries) /\ tl[e.term] \in Seq(Entries)
      /\ Rooted(tl, tl[T]) /\ Rooted(tl, tl[e.term])
  BY LedgerTypes
<1>. QED  BY <1>1, <1>2, RootedMatch DEF Has

-----------------------------------------------------------------------------
(***************************************************************************)
(* The rest of the invariant: requests, commit positions and histories.    *)
(***************************************************************************)

\* While a thread waits or has been answered its request is in flight.
InCall(me) == me.pc \in {"waiting", "answered"}

\* Late requests and those of the running calls.  Without compaction the only snapshot
\* to send is the empty one.
MessageInv(tl) ==
    /\ \A m \in late : RequestOK(tl, m)
    /\ \A i \in Node, t \in Threads : InCall(job[i][t]) =>
         /\ RequestOK(tl, job[i][t].req)
         /\ job[i][t].req.from = i
         /\ job[i][t].req.to = job[i][t].peer

\* A leader never believes a follower to be ahead of itself.
NextInv ==
    \A i, j \in Node : state[i] = "Leader" => nextIndex[i][j] <= Len(disk[i].log) + 1

\* An entry that was committed in a term is below a position chosen in that term.
CommittedOK(tl, x) ==
    /\ x.in \in Nat /\ x.entry \in Entries
    /\ \E n \in Nat : /\ x.entry.index \in 1 .. n
                      /\ Chosen(tl, x.in, n)
                      /\ tl[x.in][x.entry.index] = x.entry

CommittedInv(tl) == \A x \in committed : CommittedOK(tl, x)

\* Node i knows that the first c entries of its log are committed.
KnowsCommitted(i, c) ==
    /\ c \in 0 .. Len(disk[i].log)
    /\ \A n \in 1 .. c : Committed(disk[i].log[n], currentTerm[i])

\* commitIndex_ is backed by commitments, and everything below it has been applied.
CommitIndexInv ==
    \A i \in Node : lastApplied[i] = commitIndex[i] /\ KnowsCommitted(i, commitIndex[i])

\* Nodes apply, and clients hear of, committed entries only.
HistInv ==
    /\ \A a \in applied : /\ a.at \in Nat /\ a.entry.index = a.at
                          /\ \E x \in committed : x.entry = a.entry
    /\ AckedIsCommitted

\* A leader's commitIndex_ covers all that was committed in its term.
TermCommitInv ==
    \A l \in Node, x \in committed :
        state[l] = "Leader" /\ x.in = currentTerm[l] => x.entry.index <= commitIndex[l]

\* The entry of a client operation stays in the log while the operation runs.
MineAt(i) ==
    LET e == job[i]["S"].mine
    IN e.index \in DOMAIN disk[i].log /\ disk[i].log[e.index] = e

\* Where the threads of this module are; RaftRead has the server thread "reading" too.
Places == {"idle", "next", "send", "waiting", "answered", "result"}

WorkInv ==
    /\ \A i \in Node : job[i]["S"].pc # "idle" => MineAt(i)
    /\ \A i \in Node, t \in Threads : job[i][t].pc \in Places

IndexTypes ==
    /\ commitIndex \in [Node -> Nat]
    /\ lastApplied \in [Node -> Nat]
    /\ nextIndex \in [Node -> [Node -> Nat]]
    /\ matchIndex \in [Node -> [Node -> Nat]]

JobTypes == \A i \in Node, t \in Threads : job[i][t].mine \in Entries

LogInv(tl) ==
    /\ LedgerInv(tl)
    /\ DiskInv(tl)
    /\ MatchInv(tl)
    /\ ChoosableInv(tl)
    /\ MessageInv(tl)
    /\ NextInv
    /\ CommittedInv(tl)
    /\ CommitIndexInv
    /\ HistInv
    /\ TermCommitInv
    /\ IndexTypes
    /\ JobTypes

-----------------------------------------------------------------------------
(***************************************************************************)
(* What one step does to the rest.                                         *)
(***************************************************************************)

\* An acknowledgement a leader counts has been given to it.
PeerFacts ==
    \A l, j \in Node : state'[l] = "Leader" =>
        \/ matchIndex'[l][j] = 0
        \/ state[l] = "Leader" /\ AckedBy(l, j, matchIndex'[l][j])

\* One that is given in this step is true.
AcceptFacts(tl) ==
    \A l \in Node, t \in Threads : \A j \in Node, T, n \in Nat :
        AcceptedUpTo(job'[l][t], j, T, n) =>
            \/ AcceptedUpTo(job[l][t], j, T, n)
            \/ currentTerm'[j] = T /\ Agree(disk'[j].log, tl[T], n)

MessageFacts(tl) ==
    /\ \A m \in late' : \/ m \in late
                        \/ \E i \in Node, t \in Threads :
                             InCall(job[i][t]) /\ m = job[i][t].req
    /\ \A i \in Node, t \in Threads : InCall(job'[i][t]) =>
         \/ /\ InCall(job[i][t])
            /\ job'[i][t].req = job[i][t].req
            /\ job'[i][t].peer = job[i][t].peer
         \/ /\ RequestOK(tl, job'[i][t].req)
            /\ job'[i][t].req.from = i
            /\ job'[i][t].req.to = job'[i][t].peer
            /\ NamesLeader(job'[i][t].req)

NextFacts ==
    \A i, j \in Node : state'[i] = "Leader" =>
        \/ state[i] = "Leader" /\ nextIndex'[i][j] <= nextIndex[i][j]
        \/ nextIndex'[i][j] <= Len(disk'[i].log) + 1

CommitFacts(tl2) ==
    /\ committed \subseteq committed'
    /\ \A x \in committed' : x \in committed \/
         /\ CommittedOK(tl2, x)'
         /\ UNCHANGED electionVars
         /\ \E i \in Node : /\ state[i] = "Leader" /\ x.in = currentTerm[i]
                            /\ x.entry.index <= commitIndex'[i]
    /\ \A i \in Node :
         \/ commitIndex'[i] = commitIndex[i] /\ lastApplied'[i] = lastApplied[i]
         \/ Crash(i) /\ commitIndex'[i] = 0 /\ lastApplied'[i] = 0
         \/ \E c \in Nat : /\ commitIndex'[i] = c /\ lastApplied'[i] = c
                          /\ c >= commitIndex[i] /\ KnowsCommitted(i, c)'

HistFacts ==
    /\ \A a \in applied' : a \in applied \/
         \E i \in Node : a.at \in 1 .. commitIndex'[i] /\ a.entry = disk'[i].log[a.at]
    /\ \A e \in acked' : e \in acked \/ \E x \in committed : x.entry = e

\* What a step of this module does to the client operations and to the threads.
WorkFacts ==
    /\ \A i \in Node : job'[i]["S"].pc # "idle" =>
         \/ /\ job[i]["S"].pc # "idle"
            /\ job'[i]["S"].mine = job[i]["S"].mine
            /\ disk'[i] = disk[i]
         \/ MineAt(i)'
    /\ \A i \in Node, t \in Threads :
         job'[i][t] = job[i][t] \/ job'[i][t].pc \in Places

\* What any step does to the log, one of RaftRead as well.
LogChange(tl, tl2) ==
    /\ LogFacts(tl, tl2)
    /\ VoteFacts
    /\ PeerFacts
    /\ AcceptFacts(tl)
    /\ MessageFacts(tl)
    /\ NextFacts
    /\ CommitFacts(tl2)
    /\ HistFacts
    /\ IndexTypes'
    /\ JobTypes'
    /\ LedgerInv(tl2)'

LogStep(tl, tl2) == LogChange(tl, tl2) /\ WorkFacts

-----------------------------------------------------------------------------
(***************************************************************************)
(* The invariant is preserved by a step of which these facts hold.         *)
(***************************************************************************)

LEMMA DiskStep ==
    ASSUME NEW tl, NEW tl2, LedgerInv(tl), LedgerInv(tl2)', DiskInv(tl), Inv, ElectionStep,
           LogFacts(tl, tl2), VoteFacts
    PROVE  DiskInv(tl2)'
<1>0. tl \in Ledgers /\ tl2 \in Ledgers /\ Extends(tl, tl2) /\ disk' \in [Node -> Disks]
  BY DEF LedgerInv, LogFacts
<1>1. ASSUME NEW i \in Node
      PROVE  /\ Rooted(tl2, disk'[i].log)
             /\ \A n \in DOMAIN disk'[i].log : disk'[i].log[n].term <= currentTerm'[i]
  <2>0. currentTerm[i] \in Nat /\ currentTerm'[i] \in Nat /\ currentTerm'[i] >= currentTerm[i]
    BY TermTypes
  <2>1. CASE disk'[i] = disk[i]
    <3>1. disk[i].log \in Seq(Entries) /\ Rooted(tl, disk[i].log)
      BY DiskTypes
    <3>2. \A n \in DOMAIN disk[i].log : disk[i].log[n].term \in Nat
      BY <3>1, LogType
    <3>3. \A n \in DOMAIN disk[i].log : disk[i].log[n].term <= currentTerm[i]
      BY DEF DiskInv
    <3>. QED  BY <1>0, <2>0, <2>1, <3>1, <3>2, <3>3, RootedExtends
  <2>2. CASE state'[i] = "Leader"
    <3>1. disk'[i].log = tl2[currentTerm'[i]]
      BY <2>2 DEF LogFacts
    <3>. QED  BY <2>0, <3>1 DEF LedgerInv
  <2>3. ASSUME NEW e \in elected, e.term = currentTerm'[i],
               Cuts(disk[i].log, disk'[i].log, tl[e.term])
        PROVE  /\ Rooted(tl2, disk'[i].log)
               /\ \A n \in DOMAIN disk'[i].log : disk'[i].log[n].term <= currentTerm'[i]
    <3>1. /\ tl[e.term] \in Seq(Entries) /\ Rooted(tl, tl[e.term]) /\ Len(tl[e.term]) \in Nat
          /\ DOMAIN tl[e.term] = 1 .. Len(tl[e.term]) /\ e.term \in Nat
      BY ElectedTypes, LedgerTypes
    <3>2. PICK k \in 0 .. Len(tl[e.term]) : disk'[i].log = SubSeq(tl[e.term], 1, k)
      BY <2>3 DEF Cuts
    <3>3. /\ disk'[i].log \in Seq(Entries) /\ DOMAIN disk'[i].log = 1 .. k
          /\ \A n \in 1 .. k : disk'[i].log[n] = tl[e.term][n]
      BY <3>1, <3>2, PrefixType
    <3>4. Rooted(tl, disk'[i].log)
      BY <1>0, <3>1, <3>2, RootedPrefix
    <3>5. Rooted(tl2, disk'[i].log)
      BY <1>0, <3>3, <3>4, RootedExtends
    <3>6. \A n \in DOMAIN tl[e.term] : tl[e.term][n].term <= e.term
      BY <3>1 DEF LedgerInv
    <3>. QED  BY <2>3, <3>1, <3>3, <3>5, <3>6
  <2>. QED  BY <2>1, <2>2, <2>3 DEF LogFacts
<1>2. ASSUME NEW i \in Node, state'[i] = "Candidate"
      PROVE  round'[i].pos = LastPos(disk'[i])
  <2>1. disk'[i] = disk[i]
    BY <1>2 DEF LogFacts
  <2>2. CASE Continues(i) /\ round'[i].pos = round[i].pos
    <3>1. round[i].pos = LastPos(disk[i])
      BY <2>2 DEF Continues, DiskInv
    <3>. QED  BY <2>1, <2>2, <3>1
  <2>. QED  BY <1>2, <2>1, <2>2 DEF VoteFacts
<1>3. \A i \in Node : state'[i] = "Leader" => disk'[i].log = tl2[currentTerm'[i]]
  BY DEF LogFacts
<1>. QED  BY <1>0, <1>1, <1>2, <1>3 DEF DiskInv

\* A follower keeps what it has stored for a leader while it is in its term.
LEMMA StoredStep ==
    ASSUME NEW tl, NEW tl2, LedgerInv(tl), LedgerInv(tl2)', DiskInv(tl), Inv, ElectionStep,
           LogFacts(tl, tl2),
           NEW T \in Nat, NEW j \in Node, NEW n \in Nat, Stored(tl, T, j, n)
    PROVE  Stored(tl2, T, j, n)'
<1>0. /\ currentTerm[j] \in Nat /\ currentTerm'[j] \in Nat /\ currentTerm'[j] >= currentTerm[j]
      /\ tl \in Ledgers /\ tl2 \in Ledgers /\ Extends(tl, tl2)
      /\ tl[T] \in Seq(Entries) /\ tl2[T] \in Seq(Entries)
      /\ Len(tl[T]) \in Nat /\ Len(tl2[T]) \in Nat
  <2>1. tl \in Ledgers /\ tl2 \in Ledgers /\ Extends(tl, tl2)
    BY DEF LedgerInv, LogFacts
  <2>2. tl[T] \in Seq(Entries) /\ tl2[T] \in Seq(Entries)
    BY <2>1 DEF Ledgers
  <2>. QED  BY <2>1, <2>2, LogType, TermTypes
<1>1. n <= Len(tl2[T])
  BY <1>0 DEF Stored, Extends, Agree
<1>2. ASSUME n > 0, currentTerm'[j] = T
      PROVE  Agree(disk'[j].log, tl2[T], n)
  <2>1. currentTerm[j] = T /\ Agree(disk[j].log, tl[T], n)
    BY <1>0, <1>2 DEF Stored
  <2>2. disk[j].log \in Seq(Entries) /\ disk'[j].log \in Seq(Entries)
    BY DiskTypes, DiskFacts DEF LogFacts
  <2>3. Agree(disk[j].log, disk'[j].log, n)
    <3>1. n \in 0 .. Len(disk[j].log)
      BY <2>1 DEF Agree
    <3>. QED  BY <1>2, <2>1, <3>1, LogKeeps
  <2>4. Agree(tl[T], disk'[j].log, n)
    BY <2>1, <2>3, AgreeTransitive, AgreeSymmetric
  <2>. QED  BY <1>0, <2>2, <2>4, AgreeExtends, AgreeSymmetric
<1>3. n > 0 => currentTerm'[j] >= T
  BY <1>0 DEF Stored
<1>. QED  BY <1>1, <1>2, <1>3 DEF Stored

LEMMA SentType ==
    ASSUME NEW tl, NEW m, RequestOK(tl, m), m.kind = "AE"
    PROVE  AppendOK(tl, m) /\ Sent(m) \in Nat
<1>1. AppendOK(tl, m)
  BY DEF RequestOK
<1>2. m.prevIndex \in Nat /\ Len(m.entries) \in Nat
  BY <1>1, LogType DEF AppendOK
<1>. QED  BY <1>1, <1>2 DEF Sent

LEMMA AckStep ==
    ASSUME NEW tl, LedgerInv(tl), DiskInv(tl), Inv, ElectionStep, IndexTypes, IndexTypes',
           MessageInv(tl), PeerFacts, AcceptFacts(tl)
    PROVE  AckFacts
<1>. SUFFICES ASSUME NEW l \in Node, NEW j \in Node, NEW n \in Nat,
                     state[l] = "Leader", state'[l] = "Leader", AckedBy(l, j, n)'
              PROVE  AckedBy(l, j, n) \/ currentTerm'[j] <= currentTerm[l]
  BY DEF AckFacts
<1>1. StepFacts
  BY FactsNext DEF ElectionStep, Inv, ElectionInv
<1>2. currentTerm'[l] = currentTerm[l] /\ currentTerm[l] \in Nat
  BY <1>1, TermTypes DEF StepFacts, Wins
<1>3. matchIndex[l][j] \in Nat /\ matchIndex'[l][j] \in Nat
  BY DEF IndexTypes
<1>4. CASE n <= matchIndex'[l][j]
  <2>1. CASE matchIndex'[l][j] = 0
    BY <1>3, <1>4, <2>1 DEF AckedBy
  <2>2. CASE matchIndex'[l][j] <= matchIndex[l][j]
    BY <1>3, <1>4, <2>2 DEF AckedBy
  <2>3. ASSUME NEW t \in Threads,
               AcceptedUpTo(job[l][t], j, currentTerm[l], matchIndex'[l][j])
        PROVE  AckedBy(l, j, n)
    <3>1. /\ job[l][t].req.kind = "AE" /\ job[l][t].pc = "answered"
          /\ matchIndex'[l][j] <= Sent(job[l][t].req)
      BY <2>3 DEF AcceptedUpTo
    <3>2. n <= matchIndex'[l][j] /\ matchIndex'[l][j] \in Nat /\ n \in Nat
      BY <1>3, <1>4
    <3>3. Sent(job[l][t].req) \in Nat
      BY <3>1, SentType DEF MessageInv, InCall
    <3>4. n <= Sent(job[l][t].req)
      BY <3>1, <3>2, <3>3
    <3>. QED  BY <2>3, <3>4 DEF AckedBy, AcceptedUpTo
  <2>. QED  BY <2>1, <2>2, <2>3 DEF PeerFacts, AckedBy
<1>5. ASSUME NEW t \in Threads, AcceptedUpTo(job'[l][t], j, currentTerm'[l], n)
      PROVE  AckedBy(l, j, n) \/ currentTerm'[j] <= currentTerm[l]
  <2>1. \/ AcceptedUpTo(job[l][t], j, currentTerm[l], n)
        \/ currentTerm'[j] = currentTerm[l]
    BY <1>2, <1>5 DEF PeerFacts, AcceptFacts
  <2>. QED  BY <1>2, <2>1 DEF AckedBy
<1>. QED  BY <1>4, <1>5 DEF AckedBy

LEMMA MatchStep ==
    ASSUME NEW tl, NEW tl2, LedgerInv(tl), LedgerInv(tl2)', DiskInv(tl), Inv, ElectionStep,
           LogFacts(tl, tl2), IndexTypes, IndexTypes', PeerFacts, AcceptFacts(tl), MatchInv(tl)
    PROVE  MatchInv(tl2)'
<1>1. ASSUME NEW l \in Node, NEW j \in Node, NEW T \in Nat, NEW n \in Nat,
             state'[l] = "Leader", currentTerm'[l] = T, matchIndex'[l][j] = n
      PROVE  Stored(tl2, T, j, n)'
  <2>1. StepFacts
    BY FactsNext DEF ElectionStep, Inv, ElectionInv
  <2>2. tl2[T] \in Seq(Entries) /\ Len(tl2[T]) \in Nat
    <3>1. tl2[T] \in Seq(Entries)
      BY DEF LedgerInv, Ledgers
    <3>. QED  BY <3>1, LogType
  <2>3. CASE n = 0
    BY <2>2, <2>3 DEF Stored
  <2>4. CASE state[l] = "Leader" /\ AckedBy(l, j, n) /\ n > 0
    <3>1. currentTerm[l] = T
      BY <1>1, <2>1, <2>4 DEF StepFacts, Wins
    <3>2. matchIndex[l][j] \in Nat
      BY DEF IndexTypes
    <3>3. Stored(tl, T, j, n)
      BY <2>4, <3>1, <3>2, AckedIsStored DEF Stored
    <3>. QED  BY <3>3, StoredStep
  <2>5. n = 0 \/ (state[l] = "Leader" /\ AckedBy(l, j, n) /\ n > 0)
    BY <1>1 DEF PeerFacts, AcceptFacts
  <2>. QED  BY <2>3, <2>4, <2>5
<1>2. ASSUME NEW l \in Node, NEW t \in Threads, NEW j \in Node, NEW T \in Nat, NEW n \in Nat,
             AcceptedUpTo(job'[l][t], j, T, n)
      PROVE  Stored(tl2, T, j, n)'
  <2>1. CASE AcceptedUpTo(job[l][t], j, T, n)
    <3>1. Stored(tl, T, j, n)
      BY <2>1 DEF MatchInv
    <3>. QED  BY <3>1, StoredStep
  <2>2. CASE currentTerm'[j] = T /\ Agree(disk'[j].log, tl[T], n)
    <3>1. /\ tl \in Ledgers /\ tl2 \in Ledgers /\ Extends(tl, tl2)
          /\ tl[T] \in Seq(Entries) /\ tl2[T] \in Seq(Entries) /\ disk'[j].log \in Seq(Entries)
      BY DiskFacts DEF LedgerInv, Ledgers, LogFacts
    <3>2. Agree(disk'[j].log, tl2[T], n)
      BY <2>2, <3>1, AgreeExtends, AgreeSymmetric
    <3>3. n <= Len(tl2[T])
      BY <3>2 DEF Agree
    <3>. QED  BY <2>2, <3>2, <3>3 DEF Stored
  <2>. QED  BY <1>2, <2>1, <2>2 DEF PeerFacts, AcceptFacts
<1>3. \A l, j \in Node : matchIndex'[l][j] \in Nat /\ currentTerm'[l] \in Nat
  BY TermTypes DEF IndexTypes
<1>. QED  BY <1>1, <1>2, <1>3 DEF MatchInv

\* A request that was a piece of its leader's log stays one.
LEMMA RequestStep ==
    ASSUME NEW tl, NEW tl2, LedgerInv(tl), LedgerInv(tl2)', Extends(tl, tl2),
           committed \subseteq committed', NEW m, m.term \in Nat, RequestOK(tl, m)
    PROVE  RequestOK(tl2, m)'
<1>1. CASE m.kind = "IS" /\ m.snapIndex = 0
  BY <1>1 DEF RequestOK
<1>2. CASE AppendOK(tl, m)
  <2> DEFINE L == tl[m.term]
             M == tl2[m.term]
  <2>1. /\ L \in Seq(Entries) /\ M \in Seq(Entries)
        /\ m.entries \in Seq(Entries) /\ m.prevIndex \in Nat
    BY <1>2 DEF LedgerInv, Ledgers, AppendOK
  <2>2. /\ Len(L) \in Nat /\ Len(M) \in Nat /\ Len(m.entries) \in Nat
        /\ DOMAIN m.entries = 1 .. Len(m.entries)
    BY <2>1, LogType
  <2>3. Agree(L, M, Len(L))
    BY DEF Extends
  <2>4. Sent(m) <= Len(L) /\ Sent(m) = m.prevIndex + Len(m.entries)
    BY <1>2 DEF AppendOK, Sent
  <2>5. Len(L) <= Len(M) /\ \A k \in 1 .. Len(L) : L[k] = M[k]
    BY <2>2, <2>3 DEF Agree
  <2> HIDE DEF L, M
  <2>6. Sent(m) <= Len(M)
    BY <2>1, <2>2, <2>4, <2>5
  <2>7. ASSUME NEW k \in DOMAIN m.entries
        PROVE  m.entries[k] = M[m.prevIndex + k]
    <3>1. m.entries[k] = L[m.prevIndex + k]
      BY <1>2 DEF AppendOK, L
    <3>2. m.prevIndex + k \in 1 .. Len(L)
      BY <2>1, <2>2, <2>4
    <3>. QED  BY <2>5, <3>1, <3>2
  <2>8. ASSUME m.prevIndex # 0
        PROVE  m.prevTerm = M[m.prevIndex].term
    <3>1. m.prevTerm = L[m.prevIndex].term
      BY <1>2, <2>8 DEF AppendOK, L
    <3>2. m.prevIndex \in 1 .. Len(L)
      BY <2>1, <2>2, <2>4, <2>8
    <3>. QED  BY <2>5, <3>1, <3>2
  <2>9. m.commit \in 0 .. Sent(m)
    BY <1>2 DEF AppendOK
  <2>10. \A n \in 1 .. m.commit : Committed(M[n], m.term)'
    <3>1. \A n \in 1 .. m.commit : L[n] = M[n] /\ Committed(L[n], m.term)
      BY <1>2, <2>1, <2>2, <2>4, <2>5, <2>9 DEF AppendOK, L
    <3>2. \A n \in 1 .. m.commit : Committed(M[n], m.term)
      BY <3>1
    <3>. QED  BY <3>2 DEF Committed
  <2>. QED  BY <1>2, <2>6, <2>7, <2>8, <2>9, <2>10 DEF RequestOK, AppendOK, M
<1>. QED  BY <1>1, <1>2 DEF RequestOK

LEMMA MessageStep ==
    ASSUME NEW tl, NEW tl2, LedgerInv(tl), LedgerInv(tl2)', Extends(tl, tl2),
           committed \subseteq committed', Inv, MessageInv(tl), MessageFacts(tl)
    PROVE  MessageInv(tl2)'
<1>1. \A m : NamesLeader(m) => m.term \in Nat
  BY ElectedTypes DEF NamesLeader
<1>2. \A m : NamesLeader(m) /\ RequestOK(tl, m) => RequestOK(tl2, m)'
  BY <1>1, RequestStep
<1>3. /\ \A m \in late : NamesLeader(m)
      /\ \A i \in Node, t \in Threads : InCall(job[i][t]) => NamesLeader(job[i][t].req)
  BY DEF Inv, RpcInv, RequestsInv, InCall
<1>4. ASSUME NEW m \in late'
      PROVE  RequestOK(tl2, m)'
  BY <1>2, <1>3 DEF MessageFacts, MessageInv
<1>5. ASSUME NEW i \in Node, NEW t \in Threads, NEW m, m = job'[i][t].req, InCall(job'[i][t])
      PROVE  /\ RequestOK(tl2, m)'
             /\ m.from = i /\ m.to = job'[i][t].peer
  <2>1. /\ NamesLeader(m) /\ RequestOK(tl, m)
        /\ m.from = i /\ m.to = job'[i][t].peer
    BY <1>3, <1>5 DEF MessageFacts, MessageInv
  <2>. QED  BY <1>2, <2>1
<1>. QED  BY <1>4, <1>5 DEF MessageInv, InCall

LEMMA NextIndexStep ==
    ASSUME NEW tl, NEW tl2, LedgerInv(tl), LedgerInv(tl2)', DiskInv(tl), Inv, ElectionStep,
           LogFacts(tl, tl2), IndexTypes, IndexTypes', NextInv, NextFacts
    PROVE  NextInv'
<1>. SUFFICES ASSUME NEW i \in Node, NEW j \in Node, state'[i] = "Leader"
              PROVE  nextIndex'[i][j] <= Len(disk'[i].log) + 1
  BY DEF NextInv
<1>1. CASE state[i] = "Leader" /\ nextIndex'[i][j] <= nextIndex[i][j]
  <2>1. nextIndex[i][j] <= Len(disk[i].log) + 1
    BY <1>1 DEF NextInv
  <2>2. /\ nextIndex[i][j] \in Nat /\ nextIndex'[i][j] \in Nat
        /\ Len(disk[i].log) \in Nat /\ disk[i].log \in Seq(Entries)
        /\ Len(disk'[i].log) \in Nat
    <3>1. disk'[i] \in Disks
      BY DEF LogFacts
    <3>. QED  BY <3>1, DiskTypes, DiskFacts DEF IndexTypes
  <2>3. Len(disk'[i].log) >= Len(disk[i].log)
    <3>1. CASE disk'[i] = disk[i]
      BY <2>2, <3>1
    <3>2. ASSUME NEW e \in Entries, disk'[i].log = Append(disk[i].log, e)
          PROVE  Len(disk'[i].log) >= Len(disk[i].log)
      BY <2>2, <3>2, AppendProperties
    <3>. QED  BY <3>1, <3>2 DEF LogFacts
  <2> DEFINE a == nextIndex'[i][j]
             b == nextIndex[i][j]
             m == Len(disk[i].log)
             k == Len(disk'[i].log)
  <2>4. a <= b /\ b <= m + 1 /\ a \in Nat /\ b \in Nat /\ m \in Nat /\ k \in Nat /\ k >= m
    BY <1>1, <2>1, <2>2, <2>3
  <2> HIDE DEF a, b, m, k
  <2>5. a <= k + 1
    BY <2>4
  <2>. QED  BY <2>5 DEF a, k
<1>. QED  BY <1>1 DEF NextFacts

LEMMA CommittedStep ==
    ASSUME NEW tl, NEW tl2, LedgerInv(tl), LedgerInv(tl2)', DiskInv(tl), Inv, ElectionStep,
           LogFacts(tl, tl2), VoteFacts, CommittedInv(tl), CommitFacts(tl2)
    PROVE  CommittedInv(tl2)'
<1>1. ASSUME NEW x \in committed
      PROVE  CommittedOK(tl2, x)'
  <2>1. CommittedOK(tl, x)
    BY DEF CommittedInv
  <2>2. PICK n \in Nat : /\ x.entry.index \in 1 .. n /\ Chosen(tl, x.in, n)
                         /\ tl[x.in][x.entry.index] = x.entry
    BY <2>1 DEF CommittedOK
  <2>3. x.in \in Nat /\ x.entry \in Entries
    BY <2>1 DEF CommittedOK
  <2>4. Chosen(tl2, x.in, n)'
    BY <2>2, <2>3, ChosenStep
  <2>5. tl2[x.in][x.entry.index] = x.entry
    <3>1. tl[x.in] \in Seq(Entries)
      BY <2>3 DEF LedgerInv, Ledgers
    <3>2. n \in 1 .. Len(tl[x.in])
      BY <2>2, <3>1, LogType DEF Chosen, Has
    <3>3. Agree(tl[x.in], tl2[x.in], Len(tl[x.in]))
      BY <2>3 DEF LogFacts, Extends
    <3>. QED  BY <2>2, <3>2, <3>3 DEF Agree
  <2>. QED  BY <2>2, <2>3, <2>4, <2>5 DEF CommittedOK
<1>. QED  BY <1>1 DEF CommittedInv, CommitFacts

\* Whoever leads from the current term of node i on has all that i knows to be committed.
LEMMA CommittedIsLed ==
    ASSUME NEW tl, LedgerInv(tl), DiskInv(tl), CommittedInv(tl), Inv,
           NEW i \in Node, NEW c, KnowsCommitted(i, c),
           NEW e \in elected, e.term >= currentTerm[i]
    PROVE  Agree(disk[i].log, tl[e.term], c)
<1>1. /\ e.term \in Nat /\ currentTerm[i] \in Nat
      /\ tl[e.term] \in Seq(Entries) /\ Len(tl[e.term]) \in Nat
      /\ disk[i].log \in Seq(Entries) /\ Len(disk[i].log) \in Nat
      /\ DOMAIN disk[i].log = 1 .. Len(disk[i].log)
      /\ Rooted(tl, disk[i].log) /\ c \in 0 .. Len(disk[i].log)
  BY ElectedTypes, LedgerTypes, DiskTypes DEF Inv, ElectionInv, ElectionTypeOK, KnowsCommitted
<1>2. ASSUME NEW n \in 1 .. c
      PROVE  n <= Len(tl[e.term]) /\ disk[i].log[n] = tl[e.term][n]
  <2>1. PICK x \in committed : x.entry = disk[i].log[n] /\ x.in <= currentTerm[i]
    BY DEF KnowsCommitted, Committed
  <2>2. PICK k \in Nat : /\ x.entry.index \in 1 .. k /\ Chosen(tl, x.in, k)
                         /\ tl[x.in][x.entry.index] = x.entry
    BY DEF CommittedInv, CommittedOK
  <2>3. x.in \in Nat
    BY DEF CommittedInv, CommittedOK
  <2>4. n \in DOMAIN disk[i].log /\ n \in Nat
    BY <1>1
  <2>5. x.entry.index = n
    BY <1>1, <2>1, <2>4 DEF Rooted
  <2>6. Agree(tl[x.in], tl[e.term], k)
    BY <1>1, <2>1, <2>2, <2>3, ChosenIsLed
  <2>7. n \in 1 .. k /\ k <= Len(tl[e.term]) /\ tl[x.in][n] = tl[e.term][n]
    BY <1>1, <2>2, <2>5, <2>6 DEF Agree
  <2>. QED  BY <1>1, <2>1, <2>2, <2>4, <2>5, <2>7
<1>3. c <= Len(tl[e.term])
  <2>1. CASE c = 0
    BY <1>1, <2>1
  <2>2. CASE c # 0
    <3>1. c \in 1 .. c
      BY <1>1, <2>2
    <3>. QED  BY <1>2, <3>1
  <2>. QED  BY <2>1, <2>2
<1>. QED  BY <1>1, <1>2, <1>3 DEF Agree

\* A step leaves alone what a node knows to be committed.
LEMMA CommittedKept ==
    ASSUME NEW tl, NEW tl2, LedgerInv(tl), DiskInv(tl), CommittedInv(tl), Inv, ElectionStep,
           LogFacts(tl, tl2), NEW i \in Node, NEW c, KnowsCommitted(i, c)
    PROVE  Agree(disk[i].log, disk'[i].log, c)
<1>1. /\ currentTerm[i] \in Nat /\ currentTerm'[i] \in Nat
      /\ currentTerm'[i] >= currentTerm[i] /\ c \in 0 .. Len(disk[i].log)
  BY TermTypes DEF KnowsCommitted
<1>2. ASSUME NEW e \in elected, e.term = currentTerm'[i]
      PROVE  Agree(disk[i].log, tl[e.term], c)
  BY <1>1, <1>2, CommittedIsLed
<1>. QED  BY <1>1, <1>2, LogKeeps

LEMMA KnowsStep ==
    ASSUME NEW tl, NEW tl2, LedgerInv(tl), DiskInv(tl), CommittedInv(tl), Inv, ElectionStep,
           LogFacts(tl, tl2), committed \subseteq committed',
           NEW i \in Node, NEW c, KnowsCommitted(i, c)
    PROVE  KnowsCommitted(i, c)'
<1>1. Agree(disk[i].log, disk'[i].log, c)
  BY CommittedKept
<1>2. /\ currentTerm[i] \in Nat /\ currentTerm'[i] \in Nat
      /\ currentTerm'[i] >= currentTerm[i]
  BY TermTypes
<1>3. \A x \in committed : x.in \in Nat
  BY DEF CommittedInv, CommittedOK
<1>4. ASSUME NEW n \in 1 .. c
      PROVE  \E x \in committed' : x.entry = disk'[i].log[n] /\ x.in <= currentTerm'[i]
  <2>1. PICK x \in committed : x.entry = disk[i].log[n] /\ x.in <= currentTerm[i]
    BY DEF KnowsCommitted, Committed
  <2>2. disk'[i].log[n] = disk[i].log[n]
    BY <1>1 DEF Agree
  <2>. QED  BY <1>2, <1>3, <2>1, <2>2
<1>. QED  BY <1>1, <1>4 DEF KnowsCommitted, Agree, Committed

LEMMA CommitIndexStep ==
    ASSUME NEW tl, NEW tl2, LedgerInv(tl), DiskInv(tl), CommittedInv(tl), Inv, ElectionStep,
           LogFacts(tl, tl2), CommitIndexInv, CommitFacts(tl2)
    PROVE  CommitIndexInv'
<1>1. ASSUME NEW i \in Node
      PROVE  \E c : /\ commitIndex'[i] = c /\ lastApplied'[i] = c
                    /\ KnowsCommitted(i, c)'
  <2>1. CASE commitIndex'[i] = commitIndex[i] /\ lastApplied'[i] = lastApplied[i]
    <3>1. lastApplied[i] = commitIndex[i] /\ KnowsCommitted(i, commitIndex[i])
      BY DEF CommitIndexInv
    <3>2. PICK c : c = commitIndex[i]
      OBVIOUS
    <3>3. KnowsCommitted(i, c)'
      BY <3>1, <3>2, KnowsStep DEF CommitFacts
    <3>. QED  BY <2>1, <3>1, <3>2, <3>3
  <2>2. CASE commitIndex'[i] = 0 /\ lastApplied'[i] = 0
    <3>1. Len(disk'[i].log) \in Nat
      BY DiskFacts DEF LogFacts
    <3>2. KnowsCommitted(i, 0)'
      BY <3>1 DEF KnowsCommitted
    <3>. QED  BY <2>2, <3>2
  <2>. QED  BY <2>1, <2>2 DEF CommitFacts
<1>. QED  BY <1>1 DEF CommitIndexInv

LEMMA HistStep ==
    ASSUME NEW tl, NEW tl2, CommittedInv(tl), LogFacts(tl, tl2), HistInv,
           CommitIndexInv', CommitFacts(tl2), DiskInv(tl2)', IndexTypes', HistFacts
    PROVE  HistInv'
<1>1. ASSUME NEW a \in applied'
      PROVE  /\ a.at \in Nat /\ a.entry.index = a.at
             /\ \E x \in committed' : x.entry = a.entry
  <2>1. CASE a \in applied
    BY <2>1 DEF HistInv, CommitFacts
  <2>2. ASSUME NEW i \in Node, a.at \in 1 .. commitIndex'[i], a.entry = disk'[i].log[a.at]
        PROVE  /\ a.at \in Nat /\ a.entry.index = a.at
               /\ \E x \in committed' : x.entry = a.entry
    <3>1. /\ commitIndex'[i] \in 0 .. Len(disk'[i].log)
          /\ \E x \in committed' : x.entry = disk'[i].log[a.at]
      BY <2>2 DEF CommitIndexInv, KnowsCommitted, Committed
    <3>2. /\ disk'[i].log \in Seq(Entries) /\ Rooted(tl2, disk'[i].log)
          /\ Len(disk'[i].log) \in Nat /\ DOMAIN disk'[i].log = 1 .. Len(disk'[i].log)
      BY DiskFacts DEF DiskInv
    <3>3. a.at \in DOMAIN disk'[i].log /\ a.at \in Nat
      BY <2>2, <3>1, <3>2 DEF IndexTypes
    <3>. QED  BY <2>2, <3>1, <3>2, <3>3 DEF Rooted
  <2>. QED  BY <2>1, <2>2 DEF HistFacts
<1>2. ASSUME NEW e \in acked'
      PROVE  \E x \in committed' : x.entry = e
  BY DEF HistInv, AckedIsCommitted, HistFacts, CommitFacts
<1>. QED  BY <1>1, <1>2 DEF HistInv, AckedIsCommitted

LEMMA WorkStep ==
    ASSUME WorkInv, WorkFacts
    PROVE  WorkInv'
<1>1. \A i \in Node : job'[i]["S"].pc # "idle" => MineAt(i)'
  BY DEF WorkInv, WorkFacts, MineAt
<1>2. \A i \in Node, t \in Threads : job'[i][t].pc \in Places
  BY DEF WorkInv, WorkFacts
<1>. QED  BY <1>1, <1>2 DEF WorkInv

\* Whoever leads has counted what is committed in its term itself.
LEMMA TermCommitStep ==
    ASSUME NEW tl, NEW tl2, Inv, ElectionStep, LedgerInv(tl), CommittedInv(tl), IndexTypes,
           TermCommitInv, CommitFacts(tl2), CommittedInv(tl2)'
    PROVE  TermCommitInv'
<1>. SUFFICES ASSUME NEW l \in Node, NEW x \in committed', state'[l] = "Leader",
                     x.in = currentTerm'[l]
              PROVE  x.entry.index <= commitIndex'[l]
  BY DEF TermCommitInv
<1>1. \A k \in Node : /\ currentTerm[k] \in Nat /\ currentTerm'[k] \in Nat
                      /\ commitIndex[k] \in Nat
  BY TermTypes DEF IndexTypes
<1>2. (state[l] = "Leader" /\ currentTerm'[l] = currentTerm[l]) \/ Wins(l)
  <2>1. StepFacts
    BY FactsNext DEF ElectionStep, Inv, ElectionInv
  <2>. QED  BY <2>1 DEF StepFacts
<1>3. CASE x \in committed
  <2>1. x.in \in Nat /\ \E n : Has(tl[x.in], n, x.in)
    BY <1>3 DEF CommittedInv, CommittedOK, Chosen
  <2>2. \E e \in elected : e.term = x.in
    <3>1. tl[x.in] # <<>>
      BY <2>1 DEF Has
    <3>. QED  BY <2>1, <3>1 DEF LedgerInv
  <2>3. ~Wins(l)
    <3>1. Wins(l) => currentTerm'[l] = currentTerm[l]
      BY DEF Wins
    <3>. QED  BY <2>2, <3>1, WinnerIsFirst DEF Inv
  <2>4. x.entry.index <= commitIndex[l] /\ x.entry.index \in Nat
    BY <1>2, <1>3, <2>3 DEF TermCommitInv, CommittedInv, CommittedOK, Entries
  <2>5. ~Crash(l)
    BY DEF Crash, Restart, Inv, ElectionInv, ElectionTypeOK
  <2>. QED  BY <1>1, <2>4, <2>5 DEF CommitFacts
<1>4. CASE x \notin committed
  <2>1. PICK k \in Node : /\ state[k] = "Leader" /\ x.in = currentTerm[k]
                          /\ UNCHANGED electionVars /\ x.entry.index <= commitIndex'[k]
    BY <1>4 DEF CommitFacts
  <2>2. state[l] = "Leader" /\ currentTerm[l] = currentTerm[k]
    BY <2>1 DEF electionVars
  <2>3. k = l
    BY <2>1, <2>2 DEF Inv, ElectionInv, ElectionSafety, LeaderInv
  <2>. QED  BY <2>1, <2>3
<1>. QED  BY <1>3, <1>4

LEMMA LogInvStep ==
    ASSUME NEW tl, NEW tl2, Inv, ElectionStep, LogInv(tl), LogChange(tl, tl2)
    PROVE  LogInv(tl2)'
<1>. USE DEF LogInv, LogChange
<1>1. LedgerInv(tl2)' /\ IndexTypes' /\ committed \subseteq committed' /\ Extends(tl, tl2)
  BY DEF CommitFacts, LogFacts
<1>2. DiskInv(tl2)'
  BY DiskStep
<1>3. MatchInv(tl2)'
  BY MatchStep
<1>4. ChoosableInv(tl2)'
  <2>1. AckFacts
    BY AckStep
  <2>2. \A l, j \in Node : matchIndex[l][j] \in Nat
    BY DEF IndexTypes
  <2>. QED  BY <2>1, <2>2, ChoosableStep
<1>5. MessageInv(tl2)'
  BY <1>1, MessageStep
<1>6. NextInv'
  BY NextIndexStep
<1>7. CommittedInv(tl2)'
  BY CommittedStep
<1>8. CommitIndexInv'
  BY CommitIndexStep
<1>9. HistInv'
  BY <1>1, <1>2, <1>8, HistStep
<1>10. TermCommitInv'
  BY <1>7, TermCommitStep
<1>. QED  BY <1>1, <1>2, <1>3, <1>4, <1>5, <1>6, <1>7, <1>8, <1>9, <1>10

-----------------------------------------------------------------------------
(***************************************************************************)
(* The facts of each action, in groups of variables.                       *)
(***************************************************************************)

\* No log reaches the length at which maybeCreateSnapshot cuts it.
NoCompaction == MaxLog < SnapshotThreshold

NobodyWins == \A i \in Node : state'[i] = "Leader" => state[i] = "Leader"

LEMMA NobodyWinsSame ==
    ASSUME Inv, ElectionStep, NobodyWins, NEW i \in Node, state'[i] = "Leader"
    PROVE  state[i] = "Leader" /\ currentTerm'[i] = currentTerm[i]
<1>1. StepFacts
  BY FactsNext DEF ElectionStep, Inv, ElectionInv
<1>. QED  BY <1>1 DEF StepFacts, NobodyWins, Wins

LEMMA LedgerSame ==
    ASSUME NEW tl, LedgerInv(tl), elected \subseteq elected'
    PROVE  LedgerInv(tl)'
  BY DEF LedgerInv

LEMMA LogSame ==
    ASSUME NEW tl, LogInv(tl), Inv, ElectionStep, NobodyWins, disk' = disk
    PROVE  LogFacts(tl, tl) /\ LedgerInv(tl)'
<1>1. elected \subseteq elected'
  BY Grows DEF Inv
<1>2. LedgerInv(tl)'
  BY <1>1, LedgerSame DEF LogInv
<1>3. Extends(tl, tl)
  BY ExtendsSame DEF LogInv, LedgerInv
<1>4. \A i \in Node : state'[i] = "Leader" => disk'[i].log = tl[currentTerm'[i]]
  BY NobodyWinsSame DEF LogInv, DiskInv
<1>. QED  BY <1>2, <1>3, <1>4 DEF LogFacts, LogInv, DiskInv

LEMMA VotesSame ==
    ASSUME Inv, ElectionStep, UNCHANGED <<round, call>>,
           \A c \in Node : state'[c] = "Candidate" =>
             state[c] = "Candidate" /\ currentTerm'[c] = currentTerm[c]
    PROVE  VoteFacts
<1>1. StepFacts
  BY FactsNext DEF ElectionStep, Inv, ElectionInv
<1>2. ASSUME NEW c \in Node, state'[c] = "Candidate"
      PROVE  Continues(c) /\ Votes(c)' = Votes(c) /\ round'[c].pos = round[c].pos
  <2>1. ~Starts(c)
    BY <1>2, TermTypes DEF Starts
  <2>. QED  BY <1>1, <1>2, <2>1 DEF StepFacts, Votes
<1>. QED  BY <1>2 DEF VoteFacts

LEMMA HistorySame ==
    ASSUME NEW tl, UNCHANGED <<commitIndex, lastApplied, committed, applied, acked>>
    PROVE  CommitFacts(tl) /\ HistFacts
  BY DEF CommitFacts, HistFacts

LEMMA PeersSame ==
    ASSUME NobodyWins, IndexTypes, UNCHANGED <<nextIndex, matchIndex>>
    PROVE  PeerFacts /\ NextFacts
<1>1. \A i, j \in Node : matchIndex[i][j] \in Nat /\ nextIndex[i][j] \in Nat
  BY DEF IndexTypes
<1>2. \A i, j \in Node : AckedBy(i, j, matchIndex[i][j])
  BY <1>1 DEF AckedBy
<1>3. \A i, j \in Node : nextIndex'[i][j] <= nextIndex[i][j]
  BY <1>1
<1>4. PeerFacts
  BY <1>2 DEF PeerFacts, NobodyWins
<1>. QED  BY <1>3, <1>4 DEF NextFacts, NobodyWins

LEMMA JobsSame ==
    ASSUME NEW tl, UNCHANGED <<job, disk>>, late' \subseteq late, JobTypes
    PROVE  AcceptFacts(tl) /\ MessageFacts(tl) /\ WorkFacts /\ JobTypes'
  BY DEF AcceptFacts, MessageFacts, WorkFacts, JobTypes, InCall

\* One thread of any kind takes a step.
LEMMA AnyJobStep ==
    ASSUME NEW tl, Inv, JobTypes, NEW i \in Node, NEW t \in Threads, NEW j,
           SetJob(i, t, j), j.mine \in Entries,
           \A q \in Node, T, n \in Nat : AcceptedUpTo(j, q, T, n) =>
             \/ AcceptedUpTo(job[i][t], q, T, n)
             \/ currentTerm'[q] = T /\ Agree(disk'[q].log, tl[T], n),
           InCall(j) =>
             \/ InCall(job[i][t]) /\ j.req = job[i][t].req /\ j.peer = job[i][t].peer
             \/ RequestOK(tl, j.req) /\ j.req.from = i /\ j.req.to = j.peer
                /\ NamesLeader(j.req),
           \A m \in late' : m \in late \/ (InCall(job[i][t]) /\ m = job[i][t].req)
    PROVE  AcceptFacts(tl) /\ MessageFacts(tl) /\ JobTypes'
<1>1. /\ job'[i][t] = j
      /\ \A k \in Node, u \in Threads : k # i \/ u # t => job'[k][u] = job[k][u]
  BY JobAfter DEF Inv, RpcInv
<1>2. AcceptFacts(tl)
  BY <1>1 DEF AcceptFacts
<1>3. MessageFacts(tl)
  BY <1>1 DEF MessageFacts
<1>4. JobTypes'
  BY <1>1 DEF JobTypes
<1>. QED  BY <1>2, <1>3, <1>4

\* One thread takes a step.
LEMMA JobStep ==
    ASSUME NEW tl, Inv, JobTypes, NEW i \in Node, NEW t \in Threads, NEW j,
           SetJob(i, t, j),
           j.pc \in {"idle", "next", "send", "waiting", "answered", "result"},
           j.mine \in Entries,
           \A q \in Node, T, n \in Nat : AcceptedUpTo(j, q, T, n) =>
             \/ AcceptedUpTo(job[i][t], q, T, n)
             \/ currentTerm'[q] = T /\ Agree(disk'[q].log, tl[T], n),
           InCall(j) =>
             \/ InCall(job[i][t]) /\ j.req = job[i][t].req /\ j.peer = job[i][t].peer
             \/ RequestOK(tl, j.req) /\ j.req.from = i /\ j.req.to = j.peer
                /\ NamesLeader(j.req),
           \A m \in late' : m \in late \/ (InCall(job[i][t]) /\ m = job[i][t].req),
           \A k \in Node : disk'[k] = disk[k] \/ (k = i /\ t = "S")
                             \/ job[k]["S"].pc = "idle",
           t = "S" /\ j.pc # "idle" =>
             \/ job[i][t].pc # "idle" /\ j.mine = job[i][t].mine /\ disk'[i] = disk[i]
             \/ /\ j.mine.index \in DOMAIN disk'[i].log
                /\ disk'[i].log[j.mine.index] = j.mine
    PROVE  AcceptFacts(tl) /\ MessageFacts(tl) /\ WorkFacts /\ JobTypes'
<1>1. /\ job'[i][t] = j
      /\ \A k \in Node, u \in Threads : k # i \/ u # t => job'[k][u] = job[k][u]
  BY JobAfter DEF Inv, RpcInv
<1>2. AcceptFacts(tl) /\ MessageFacts(tl) /\ JobTypes'
  <2>1. AcceptFacts(tl)
    BY <1>1 DEF AcceptFacts
  <2>2. MessageFacts(tl)
    BY <1>1 DEF MessageFacts
  <2>. QED  BY <1>1, <2>1, <2>2 DEF JobTypes
<1>3. \A k \in Node : job'[k]["S"].pc # "idle" =>
         \/ /\ job[k]["S"].pc # "idle" /\ job'[k]["S"].mine = job[k]["S"].mine
            /\ disk'[k] = disk[k]
         \/ MineAt(k)'
  <2>1. "S" \in Threads
    BY DEF Threads
  <2>. QED  BY <1>1, <2>1 DEF MineAt
<1>4. WorkFacts
  BY <1>1, <1>3 DEF WorkFacts, Places
<1>. QED  BY <1>2, <1>4

\* replicateToPeer returns.
LEMMA NextPeerJob ==
    ASSUME NEW tl, Inv, JobTypes, NEW i \in Node, NEW t \in Threads, NextPeer(i, t),
           job[i][t].pc # "idle", disk' = disk,
           \A m \in late' : m \in late \/ (InCall(job[i][t]) /\ m = job[i][t].req)
    PROVE  AcceptFacts(tl) /\ MessageFacts(tl) /\ WorkFacts /\ JobTypes'
<1> DEFINE j == [IdleJob EXCEPT !.pc = "next", !.todo = job[i][t].todo,
                                !.mine = job[i][t].mine]
<1>1. SetJob(i, t, j)
  BY DEF NextPeer
<1>2. j.pc = "next" /\ j.mine = job[i][t].mine /\ job[i][t].mine \in Entries
  BY DEF IdleJob, JobTypes
<1> HIDE DEF j
<1>3. ~InCall(j) /\ \A q, T, n : ~AcceptedUpTo(j, q, T, n)
  BY <1>2 DEF InCall, AcceptedUpTo
<1>. QED  BY <1>1, <1>2, <1>3, JobStep

\* A step that leaves the log and everything counted from it alone.
LEMMA QuietChange ==
    ASSUME NEW tl, LogInv(tl), Inv, ElectionStep, NobodyWins, VoteFacts, PeerFacts, NextFacts,
           UNCHANGED <<disk, commitIndex, lastApplied, committed, applied, acked>>,
           IndexTypes', AcceptFacts(tl), MessageFacts(tl), JobTypes'
    PROVE  LogChange(tl, tl)
  BY LogSame, HistorySame DEF LogChange

LEMMA QuietStep ==
    ASSUME NEW tl, LogInv(tl), Inv, ElectionStep, NobodyWins, VoteFacts, PeerFacts, NextFacts,
           UNCHANGED <<disk, commitIndex, lastApplied, committed, applied, acked>>,
           IndexTypes', AcceptFacts(tl), MessageFacts(tl), WorkFacts, JobTypes'
    PROVE  \E tl2 : LogStep(tl, tl2)
  BY QuietChange DEF LogStep

\* Steps of the election alone.
LEMMA VoterStep ==
    ASSUME NEW tl, LogInv(tl), Inv, ElectionStep, NobodyWins, VoteFacts, UNCHANGED logVars
    PROVE  \E tl2 : LogStep(tl, tl2)
<1>. USE DEF logVars
<1>1. IndexTypes /\ IndexTypes' /\ JobTypes
  BY DEF LogInv, IndexTypes
<1>2. PeerFacts /\ NextFacts
  BY <1>1, PeersSame
<1>3. AcceptFacts(tl) /\ MessageFacts(tl) /\ WorkFacts /\ JobTypes'
  BY <1>1, JobsSame
<1>. QED  BY <1>1, <1>2, <1>3, QuietStep

\* A candidate that goes on with fewer or the same votes, or with one more of a node
\* it compares with as up to date.
LEMMA VotesContinue ==
    ASSUME Inv, ElectionStep,
           \A c \in Node : state'[c] = "Candidate" =>
             /\ state[c] = "Candidate" /\ currentTerm'[c] = currentTerm[c]
             /\ round'[c].pos = round[c].pos
             /\ \A v \in Votes(c)' : v \in Votes(c) \/ UpToDate(round[c].pos, disk[v])
    PROVE  VoteFacts
<1>1. StepFacts
  BY FactsNext DEF ElectionStep, Inv, ElectionInv
<1>2. ASSUME NEW c \in Node, state'[c] = "Candidate"
      PROVE  Continues(c)
  <2>1. ~Starts(c)
    BY <1>2, TermTypes DEF Starts
  <2>. QED  BY <1>1, <1>2, <2>1 DEF StepFacts
<1>. QED  BY <1>2 DEF VoteFacts

LEMMA CampaignFacts ==
    ASSUME NEW tl, LogInv(tl), Inv, ElectionStep, NEW i \in Node, Campaign(i)
    PROVE  \E tl2 : LogStep(tl, tl2)
<1>1. StepFacts
  BY FactsNext DEF ElectionStep, Inv, ElectionInv
<1>2. StartElection(i, LastPos(disk[i])) /\ UNCHANGED logVars
  BY DEF Campaign
<1>3. NobodyWins
  BY <1>2 DEF StartElection, NobodyWins, Inv, ElectionInv, ElectionTypeOK
<1>4. VoteFacts
  <2>1. ASSUME NEW c \in Node, c # i, state'[c] = "Candidate"
        PROVE  /\ Continues(c) /\ Votes(c)' = Votes(c) /\ round'[c].pos = round[c].pos
    <3>1. /\ state[c] = "Candidate" /\ currentTerm'[c] = currentTerm[c]
          /\ round'[c] = round[c] /\ call' = call
      BY <1>2, <2>1 DEF StartElection, Inv, ElectionInv, ElectionTypeOK
    <3>2. ~Starts(c)
      BY <3>1, TermTypes DEF Starts
    <3>. QED  BY <1>1, <2>1, <3>1, <3>2 DEF StepFacts, Votes
  <2>2. /\ currentTerm'[i] = currentTerm[i] + 1 /\ state'[i] = "Candidate"
        /\ round'[i].pos = LastPos(disk[i])
    BY <1>2 DEF StartElection, Inv, ElectionInv, ElectionTypeOK
  <2>3. Starts(i)
    <3>1. ~Continues(i)
      BY <2>2, TermTypes DEF Continues
    <3>. QED  BY <1>1, <2>2, <3>1 DEF StepFacts
  <2>. QED  BY <2>1, <2>2, <2>3 DEF VoteFacts
<1>. QED  BY <1>2, <1>3, <1>4, VoterStep

LEMMA AskVoteFacts ==
    ASSUME NEW tl, LogInv(tl), Inv, ElectionStep, NEW i \in Node, AskVote(i)
    PROVE  \E tl2 : LogStep(tl, tl2)
<1>1. /\ CallRequestVote(i, FirstPeer(round[i].todo)) /\ UNCHANGED logVars
      /\ UNCHANGED <<state, currentTerm>>
  BY DEF AskVote, CallRequestVote
<1>2. \A c \in Node : Votes(c)' = Votes(c) /\ round'[c].pos = round[c].pos
  BY <1>1 DEF CallRequestVote, Votes, NoCall, Inv, ElectionInv, ElectionTypeOK, Rounds, Calls
<1>3. NobodyWins /\ VoteFacts
  BY <1>1, <1>2, VotesContinue DEF NobodyWins
<1>. QED  BY <1>1, <1>3, VoterStep

LEMMA LoseVoteCallFacts ==
    ASSUME NEW tl, LogInv(tl), Inv, ElectionStep, NEW i \in Node, LoseVoteCall(i)
    PROVE  \E tl2 : LogStep(tl, tl2)
<1>1. /\ VoteCallFails(i) /\ UNCHANGED logVars /\ UNCHANGED <<state, currentTerm, round>>
      /\ call' = [call EXCEPT ![i] = NoCall]
  BY DEF LoseVoteCall, VoteCallFails, AbandonCall
<1>2. \A c \in Node : Votes(c)' \subseteq Votes(c)
  BY <1>1 DEF Votes, NoCall, Inv, ElectionInv, ElectionTypeOK, Calls
<1>3. NobodyWins /\ VoteFacts
  BY <1>1, <1>2, VotesContinue DEF NobodyWins
<1>. QED  BY <1>1, <1>3, VoterStep

LEMMA VoteCallFacts ==
    ASSUME NEW tl, LogInv(tl), Inv, ElectionStep, NEW i \in Node, Vote(i)
    PROVE  \E tl2 : LogStep(tl, tl2)
<1> DEFINE j == call[i].peer
           ok == UpToDate(round[i].pos, disk[j])
<1>1. HandleVoteCall(i, ok) /\ UNCHANGED logVars
  BY DEF Vote
<1>2. \A c \in Node : state'[c] # "Follower" =>
        state'[c] = state[c] /\ currentTerm'[c] = currentTerm[c]
  BY <1>1 DEF HandleVoteCall, HandleRequestVote, Inv, ElectionInv, ElectionTypeOK, Calls,
     RequestOf, Roles
<1>3. round' = round
  BY <1>1 DEF HandleVoteCall
<1>4. \A c \in Node \ {i} : Votes(c)' = Votes(c)
  BY <1>1, <1>3 DEF HandleVoteCall, Votes, Inv, ElectionInv, ElectionTypeOK
<1>5. \A v \in Votes(i)' : v \in Votes(i) \/ UpToDate(round[i].pos, disk[v])
  <2>1. call'[i].peer = j /\ (call'[i].voteGranted => ok)
    BY <1>1 DEF HandleVoteCall, GrantsVote, Inv, ElectionInv, ElectionTypeOK, Calls
  <2>. QED  BY <1>3, <2>1 DEF Votes
<1>6. NobodyWins /\ VoteFacts
  BY <1>2, <1>3, <1>4, <1>5, VotesContinue DEF NobodyWins
<1>. QED  BY <1>1, <1>6, VoterStep

LEMMA VoteLateFacts ==
    ASSUME NEW tl, LogInv(tl), Inv, ElectionStep, NEW m \in stray, VoteLate(m)
    PROVE  \E tl2 : LogStep(tl, tl2)
<1>1. /\ HandleRequestVote(m.to, m, UpToDate(m.pos, disk[m.to])) /\ UNCHANGED logVars
      /\ UNCHANGED <<round, call>>
  BY DEF VoteLate, HandleStrayVote
<1>2. \A c \in Node : state'[c] # "Follower" =>
        state'[c] = state[c] /\ currentTerm'[c] = currentTerm[c]
  BY <1>1 DEF HandleRequestVote, Inv, ElectionInv, ElectionTypeOK, Roles
<1>3. NobodyWins /\ VoteFacts
  BY <1>1, <1>2, VotesSame DEF NobodyWins
<1>. QED  BY <1>1, <1>3, VoterStep

LEMMA LogBounded ==
    ASSUME NEW tl, LedgerInv(tl), NEW s \in Seq(Entries), Rooted(tl, s)
    PROVE  Len(s) <= MaxLog
<1>1. Len(s) \in Nat /\ DOMAIN s = 1 .. Len(s) /\ MaxLog \in Nat
  BY LogType, ReplicationAssumption
<1>2. CASE Len(s) = 0
  BY <1>1, <1>2
<1>3. CASE Len(s) # 0
  <2>1. Len(s) \in DOMAIN s
    BY <1>1, <1>3
  <2>2. s[Len(s)].term \in Nat /\ Agree(tl[s[Len(s)].term], s, Len(s))
    BY <2>1, LogType DEF Rooted
  <2>3. /\ Len(tl[s[Len(s)].term]) \in Nat /\ Len(s) <= Len(tl[s[Len(s)].term])
        /\ Len(tl[s[Len(s)].term]) <= MaxLog
    BY <2>2, LedgerTypes DEF LedgerInv, Agree
  <2>. QED  BY <1>1, <2>3
<1>. QED  BY <1>2, <1>3

\* The ledger after node i has won the election of its term.
LEMMA WinnerLedger ==
    ASSUME NEW tl, LogInv(tl), Inv, ElectionStep, NEW i \in Node, Wins(i), disk' = disk
    PROVE  \E tl2 : LogFacts(tl, tl2) /\ LedgerInv(tl2)'
<1>. PICK T \in Nat : T = currentTerm[i]
  BY DEF Inv, ElectionInv, ElectionTypeOK
<1>0. LedgerInv(tl) /\ DiskInv(tl) /\ T \in Nat /\ currentTerm' = currentTerm
      /\ state' = [state EXCEPT ![i] = "Leader"] /\ tl \in Ledgers /\ elected \subseteq elected'
  BY Grows DEF LogInv, Inv, ElectionInv, ElectionTypeOK, Wins, LedgerInv
<1>1. PICK s \in Seq(Entries) : s = disk[i].log /\ Rooted(tl, s) /\ Len(s) <= MaxLog
  <2>1. disk[i].log \in Seq(Entries) /\ Rooted(tl, disk[i].log)
    BY <1>0, DiskTypes
  <2>. QED  BY <1>0, <2>1, LogBounded
<1>. PICK tl2 : tl2 = [tl EXCEPT ![T] = s]
  OBVIOUS
<1>2. tl2 \in Ledgers /\ tl2[T] = s /\ \A t \in Nat : t # T => tl2[t] = tl[t]
  BY <1>0 DEF Ledgers
<1>3. Extends(tl, tl2)
  <2>1. tl[T] = <<>>
    BY <1>0, WinnerLog
  <2>2. Agree(tl[T], tl2[T], Len(tl[T]))
    <3>1. Len(tl[T]) = 0 /\ Len(s) \in Nat
      BY <2>1, LogType, EmptySeq
    <3>. QED  BY <1>2, <3>1 DEF Agree
  <2>3. \A t \in Nat : Agree(tl[t], tl[t], Len(tl[t]))
    BY <1>0, ExtendsSame DEF Extends
  <2>. QED  BY <1>2, <2>2, <2>3 DEF Extends
<1>4. ASSUME NEW t \in Nat
      PROVE  /\ Rooted(tl2, tl2[t])
             /\ \A n \in DOMAIN tl2[t] : tl2[t][n].term <= t
             /\ Len(tl2[t]) <= MaxLog
             /\ tl2[t] # <<>> => \E e \in elected' : e.term = t
  <2>1. CASE t = T
    <3>1. Rooted(tl2, s)
      BY <1>0, <1>1, <1>2, <1>3, RootedExtends
    <3>2. \E e \in elected' : e.term = T
      <4>1. PICK S : [term |-> T, leader |-> i, voters |-> S] \in elected'
        BY DEF Wins
      <4>. QED  BY <4>1
    <3>3. \A n \in DOMAIN s : s[n].term <= T
      BY <1>0, <1>1 DEF DiskInv
    <3>. QED  BY <1>1, <1>2, <2>1, <3>1, <3>2, <3>3
  <2>2. CASE t # T
    <3>1. tl2[t] = tl[t] /\ tl[t] \in Seq(Entries) /\ Rooted(tl, tl[t])
      BY <1>0, <1>2, <2>2, LedgerTypes
    <3>2. Rooted(tl2, tl[t])
      BY <1>0, <1>2, <1>3, <3>1, RootedExtends
    <3>. QED  BY <1>0, <3>1, <3>2 DEF LedgerInv
  <2>. QED  BY <2>1, <2>2
<1>5. LedgerInv(tl2)'
  BY <1>2, <1>4 DEF LedgerInv
<1>6. ASSUME NEW k \in Node, state'[k] = "Leader"
      PROVE  disk'[k].log = tl2[currentTerm'[k]]
  <2>1. CASE k = i
    BY <1>0, <1>1, <1>2, <2>1
  <2>2. CASE k # i
    <3>1. state[k] = "Leader" /\ currentTerm[k] \in Nat
      BY <1>0, <1>6, <2>2 DEF Inv, ElectionInv, ElectionTypeOK
    <3>2. PICK e \in elected : e.term = currentTerm[k]
      BY <3>1 DEF Inv, ElectionInv, LeaderInv
    <3>3. currentTerm[k] # T
      BY <3>2, WinnerIsFirst DEF Inv
    <3>4. disk[k].log = tl[currentTerm[k]]
      BY <1>0, <3>1 DEF DiskInv
    <3>. QED  BY <1>0, <1>2, <3>1, <3>3, <3>4
  <2>. QED  BY <2>1, <2>2
<1>7. LogFacts(tl, tl2)
  BY <1>0, <1>3, <1>6 DEF LogFacts, DiskInv
<1>. QED  BY <1>5, <1>7

LEMMA ReceiveVoteContinues ==
    ASSUME Inv, NEW i \in Node, ReceiveVote(i), NEW c \in Node, state'[c] = "Candidate"
    PROVE  /\ state[c] = "Candidate" /\ currentTerm'[c] = currentTerm[c]
           /\ round'[c].pos = round[c].pos
           /\ Votes(c)' \subseteq Votes(c)
<1> DEFINE voters == round[i].granted \cup {call[i].peer}
<1>. USE DEF Inv, ElectionInv, ElectionTypeOK
<1>1. call[i].status = "answered" /\ call' = [call EXCEPT ![i] = NoCall]
  BY DEF ReceiveVote
<1>2. CASE c # i
  BY <1>1, <1>2 DEF ReceiveVote, EndElection, BecomeFollower, BecomeLeader, Votes
<1>3. CASE c = i
  <2>1. ~RoundIsStale(i) /\ UNCHANGED <<state, currentTerm>>
    BY <1>3 DEF ReceiveVote, BecomeFollower, BecomeLeader, RoundIsStale, CampaignInv
  <2>2. \/ round' = round
        \/ round' = [round EXCEPT ![i].granted = voters] /\ call[i].voteGranted
    BY <1>3, <2>1 DEF ReceiveVote, BecomeFollower, BecomeLeader
  <2>3. round'[i].pos = round[i].pos /\ Votes(i)' \subseteq Votes(i)
    BY <1>1, <2>2 DEF Votes, NoCall, Rounds, Calls
  <2>. QED  BY <1>3, <2>1, <2>3
<1>. QED  BY <1>2, <1>3

LEMMA CountVoteFacts ==
    ASSUME NEW tl, LogInv(tl), Inv, ElectionStep, NEW i \in Node, CountVote(i)
    PROVE  \E tl2 : LogStep(tl, tl2)
<1>1. ReceiveVote(i) /\ UNCHANGED <<disk, commitIndex, lastApplied, job, late,
                                    committed, applied, acked>>
  BY DEF CountVote
<1>2. VoteFacts
  BY <1>1, ReceiveVoteContinues, VotesContinue
<1>3. \A k \in Node \ {i} : state'[k] = state[k]
  BY <1>1 DEF ReceiveVote, BecomeFollower, BecomeLeader, Inv, ElectionInv, ElectionTypeOK
<1>4. IndexTypes /\ JobTypes
  BY DEF LogInv
<1>5. AcceptFacts(tl) /\ MessageFacts(tl) /\ WorkFacts /\ JobTypes'
  BY <1>1, <1>4, JobsSame
<1>6. CASE state'[i] = "Leader" /\ state[i] # "Leader"
  <2>1. /\ nextIndex' = [nextIndex EXCEPT ![i] = [j \in Node |-> LastLogIndex(disk[i]) + 1]]
        /\ matchIndex' = [matchIndex EXCEPT ![i] = [j \in Node |-> 0]]
    BY <1>6 DEF CountVote
  <2>2. Wins(i)
    <3>1. StepFacts
      BY FactsNext DEF ElectionStep, Inv, ElectionInv
    <3>. QED  BY <1>6, <3>1 DEF StepFacts
  <2>3. LastLogIndex(disk[i]) = Len(disk[i].log) /\ Len(disk[i].log) \in Nat
    BY DiskTypes, LastFacts DEF LogInv
  <2>4. IndexTypes'
    BY SMTT(30), <1>1, <1>4, <2>1, <2>3 DEF IndexTypes
  <2>5. PeerFacts
    <3>1. \A k \in Node \ {i}, j \in Node : AckedBy(k, j, matchIndex'[k][j])
      BY <1>4, <2>1 DEF IndexTypes, AckedBy
    <3>2. \A j \in Node : matchIndex'[i][j] = 0
      BY <1>4, <2>1 DEF IndexTypes
    <3>. QED  BY <1>3, <3>1, <3>2 DEF PeerFacts
  <2>6. NextFacts
    <3>1. \A k \in Node \ {i}, j \in Node : nextIndex'[k][j] <= nextIndex[k][j]
      BY <1>4, <2>1 DEF IndexTypes
    <3>2. \A j \in Node : nextIndex'[i][j] = Len(disk[i].log) + 1
      BY <1>4, <2>1, <2>3 DEF IndexTypes
    <3>. QED  BY <1>1, <1>3, <2>3, <3>1, <3>2 DEF NextFacts
  <2>7. PICK tl2 : LogFacts(tl, tl2) /\ LedgerInv(tl2)'
    BY <1>1, <2>2, WinnerLedger
  <2>8. CommitFacts(tl2) /\ HistFacts
    BY <1>1, HistorySame
  <2>. QED  BY <1>2, <1>5, <2>4, <2>5, <2>6, <2>7, <2>8 DEF LogStep, LogChange
<1>7. CASE ~(state'[i] = "Leader" /\ state[i] # "Leader")
  <2>1. UNCHANGED <<nextIndex, matchIndex>> /\ NobodyWins
    BY <1>3, <1>7 DEF CountVote, NobodyWins
  <2>2. IndexTypes' /\ PeerFacts /\ NextFacts
    BY <1>1, <1>4, <2>1, PeersSame DEF IndexTypes
  <2>. QED  BY <1>1, <1>2, <1>5, <2>1, <2>2, QuietStep
<1>. QED  BY <1>6, <1>7

\* Every AppendEntries request in flight starts at or after the beginning of the log.
\* Two threads of one leader can break this: each takes one off nextIndex_ for the same
\* refusal, and a thread that has already chosen AppendEntries builds prevLogIndex -1.
AppendsFromStart ==
    \A i \in Node, t \in Threads :
        InCall(job[i][t]) /\ job[i][t].req.kind = "AE" => job[i][t].req.prevIndex >= 0

LEMMA IdleJobFacts ==
    /\ IdleJob.pc = "idle" /\ IdleJob.mine \in Entries
    /\ ~InCall(IdleJob)
    /\ \A q, T, n : ~AcceptedUpTo(IdleJob, q, T, n)
  BY DEF IdleJob, NoEntry, Entries, InCall, AcceptedUpTo

\* Steps of a replicating thread that touch its job alone.
LEMMA ThreadStep ==
    ASSUME NEW tl, LogInv(tl), Inv, ElectionStep, UNCHANGED electionVars,
           UNCHANGED <<disk, commitIndex, lastApplied, nextIndex, matchIndex,
                       committed, applied, acked>>,
           AcceptFacts(tl), MessageFacts(tl), WorkFacts, JobTypes'
    PROVE  \E tl2 : LogStep(tl, tl2)
<1>1. NobodyWins
  BY DEF NobodyWins, electionVars
<1>2. IndexTypes /\ IndexTypes'
  BY DEF LogInv, IndexTypes
<1>3. PeerFacts /\ NextFacts
  BY <1>1, <1>2, PeersSame
<1>4. VoteFacts
  BY VotesSame DEF electionVars
<1>. QED  BY <1>1, <1>2, <1>3, <1>4, QuietStep

LEMMA BeginHeartbeatFacts ==
    ASSUME NEW tl, LogInv(tl), Inv, ElectionStep, NEW i \in Node, BeginHeartbeat(i)
    PROVE  \E tl2 : LogStep(tl, tl2)
<1> DEFINE j == [IdleJob EXCEPT !.pc = "next", !.todo = PeersOf(i)]
<1>1. SetJob(i, "H", j) /\ disk' = disk /\ late' = late /\ "H" \in Threads /\ "H" # "S"
  BY DEF BeginHeartbeat, Threads
<1>2. j.pc = "next" /\ j.mine \in Entries
  BY DEF IdleJob, NoEntry, Entries
<1> HIDE DEF j
<1>3. ~InCall(j) /\ \A q, T, n : ~AcceptedUpTo(j, q, T, n)
  BY <1>2 DEF InCall, AcceptedUpTo
<1>4. AcceptFacts(tl) /\ MessageFacts(tl) /\ WorkFacts /\ JobTypes'
  BY <1>1, <1>2, <1>3, JobStep DEF LogInv
<1>. QED  BY <1>4, ThreadStep DEF BeginHeartbeat

LEMMA CheckPeerFacts ==
    ASSUME NEW tl, LogInv(tl), Inv, ElectionStep, NEW i \in Node, NEW t \in Threads,
           CheckPeer(i, t)
    PROVE  \E tl2 : LogStep(tl, tl2)
<1> DEFINE me == job[i][t]
           p == FirstPeer(me.todo)
           kind == IF nextIndex[i][p] <= disk[i].snapIndex THEN "IS" ELSE "AE"
           skip == [me EXCEPT !.todo = @ \ {p}]
           go == [me EXCEPT !.pc = "send", !.todo = @ \ {p}, !.peer = p, !.kind = kind]
<1>0. PICK j : SetJob(i, t, j) /\ (j = skip \/ j = go)
  BY DEF CheckPeer
<1>1. me.pc = "next" /\ disk' = disk /\ late' = late
  BY DEF CheckPeer
<1>2. DOMAIN me = DOMAIN IdleJob /\ me.mine \in Entries
  BY DEF Inv, RpcInv, JobsInv, LogInv, JobTypes
<1>3. j.pc \in {"next", "send"} /\ j.mine = me.mine
  BY <1>0, <1>1, <1>2 DEF IdleJob
<1>4. ~InCall(j) /\ \A q, T, n : ~AcceptedUpTo(j, q, T, n)
  BY <1>3 DEF InCall, AcceptedUpTo
<1>5. AcceptFacts(tl) /\ MessageFacts(tl) /\ WorkFacts /\ JobTypes'
  <2> HIDE DEF p, kind, skip, go
  <2>. QED  BY <1>0, <1>1, <1>2, <1>3, <1>4, JobStep DEF LogInv
<1>. QED  BY <1>5, ThreadStep DEF CheckPeer

LEMMA RequestFailsFacts ==
    ASSUME NEW tl, LogInv(tl), Inv, ElectionStep, NEW i \in Node, NEW t \in Threads,
           RequestFails(i, t)
    PROVE  \E tl2 : LogStep(tl, tl2)
<1>1. /\ NextPeer(i, t) /\ job[i][t].pc # "idle" /\ disk' = disk
      /\ \A m \in late' : m \in late \/ (InCall(job[i][t]) /\ m = job[i][t].req)
  BY DEF RequestFails, InCall
<1>2. AcceptFacts(tl) /\ MessageFacts(tl) /\ WorkFacts /\ JobTypes'
  BY <1>1, NextPeerJob DEF LogInv
<1>. QED  BY <1>2, ThreadStep DEF RequestFails

\* An AppendEntries request is a piece of its leader's log when it is built.
LEMMA BuiltRequest ==
    ASSUME NEW tl, LogInv(tl), Inv, NEW i \in Node, NEW j \in Node, state[i] = "Leader",
           AppendRequest(i, j).prevIndex >= 0
    PROVE  AppendOK(tl, AppendRequest(i, j))
<1> DEFINE m == AppendRequest(i, j)
           d == disk[i]
           next == nextIndex[i][j]
           T == currentTerm[i]
           e == SubSeq(d.log, next, Len(d.log))
<1>1. /\ T \in Nat /\ d \in Disks /\ d.log \in Seq(Entries) /\ Rooted(tl, d.log)
      /\ Len(d.log) \in Nat /\ DOMAIN d.log = 1 .. Len(d.log) /\ d.log = tl[T]
  BY DiskTypes DEF LogInv, DiskInv, Inv, ElectionInv, ElectionTypeOK
<1>2. next \in Nat /\ next <= Len(d.log) + 1 /\ next >= 1
  <2>1. m.prevIndex = next - 1
    BY DEF AppendRequest
  <2>2. next \in Nat /\ next <= Len(d.log) + 1
    BY DEF LogInv, IndexTypes, NextInv
  <2>. QED  BY <2>1, <2>2
<1>3. /\ m.kind = "AE" /\ m.prevIndex = next - 1 /\ m.term = T /\ m.commit = commitIndex[i]
      /\ m.prevTerm = LogTermAt(d, next - 1) /\ m.entries = e
  <2>1. Max({1, PosOf(d, next)}) = next
    BY <1>1, <1>2, DiskFacts, MaxOfTwo
  <2>2. Min({Len(d.log), PosOf(d, LastLogIndex(d))}) = Len(d.log)
    <3>1. PosOf(d, LastLogIndex(d)) = Len(d.log)
      <4>1. LastLogIndex(d) = Len(d.log)
        BY <1>1, LastFacts
      <4>2. d.snapIndex = 0
        BY <1>1, DiskFacts
      <4>. QED  BY <1>1, <4>1, <4>2 DEF PosOf
    <3>. QED  BY <1>1, <3>1, MinOfTwo
  <2>. QED  BY <2>1, <2>2 DEF AppendRequest
<1> HIDE DEF m, d, next, T
<1>4. /\ e \in Seq(Entries) /\ Len(e) = Len(d.log) - next + 1
      /\ \A k \in 1 .. Len(d.log) - next + 1 : e[k] = d.log[next + k - 1]
  <2>1. \A k \in next .. Len(d.log) : d.log[k] \in Entries
    BY <1>1, <1>2, LogType
  <2>. QED  BY <1>1, <1>2, <2>1, SubSeqProperties
<1> HIDE DEF e
<1>5. Sent(m) = Len(d.log) /\ DOMAIN m.entries = 1 .. Len(d.log) - next + 1
  <2>1. next - 1 + (Len(d.log) - next + 1) = Len(d.log)
    BY <1>1, <1>2
  <2>. QED  BY <1>3, <1>4, <2>1, LogType DEF Sent
<1>6. ASSUME NEW k \in DOMAIN m.entries
      PROVE  m.entries[k] = tl[T][m.prevIndex + k]
  <2>1. k \in 1 .. Len(d.log) - next + 1 /\ next + k - 1 = (next - 1) + k
    BY <1>1, <1>2, <1>5
  <2>. QED  BY <1>1, <1>3, <1>4, <2>1
<1>7. ASSUME m.prevIndex # 0
      PROVE  m.prevTerm = tl[T][m.prevIndex].term
  <2>1. next - 1 \in DOMAIN d.log
    BY <1>1, <1>2, <1>3, <1>7
  <2>. QED  BY <1>1, <1>3, <2>1, DiskFacts
<1>8. /\ m.commit \in 0 .. Sent(m)
      /\ \A n \in 1 .. m.commit : Committed(tl[T][n], T)
  BY <1>1, <1>3, <1>5 DEF LogInv, CommitIndexInv, KnowsCommitted, d, T
<1>9. AppendOK(tl, m)
  BY <1>1, <1>2, <1>3, <1>4, <1>5, <1>6, <1>7, <1>8 DEF AppendOK
<1>. QED  BY <1>9 DEF m

LEMMA SendRequestFacts ==
    ASSUME NEW tl, LogInv(tl), Inv, ElectionStep, AppendsFromStart', NEW i \in Node,
           NEW t \in Threads, SendRequest(i, t)
    PROVE  \E tl2 : LogStep(tl, tl2)
<1> DEFINE me == job[i][t]
           m == IF me.kind = "IS" THEN SnapshotRequest(i, me.peer)
                                  ELSE AppendRequest(i, me.peer)
           j == [me EXCEPT !.pc = "waiting", !.req = m]
<1>1. /\ DOMAIN me = DOMAIN IdleJob /\ me.peer \in Node \ {i} /\ late' = late
      /\ me.pc = "send" /\ disk' = disk /\ me.mine \in Entries
  BY DEF Inv, RpcInv, JobsInv, SendRequest, LogInv, JobTypes
<1>2. CASE NextPeer(i, t)
  <2>1. AcceptFacts(tl) /\ MessageFacts(tl) /\ WorkFacts /\ JobTypes'
    BY <1>1, <1>2, NextPeerJob DEF LogInv
  <2>. QED  BY <2>1, ThreadStep DEF SendRequest
<1>3. CASE MaySend(i) /\ SetJob(i, t, j)
  <2>1. m.from = i /\ m.term = currentTerm[i] /\ m.to = me.peer
    BY DEF SnapshotRequest, AppendRequest
  <2>2. NamesLeader(m)
    <3> HIDE DEF m
    <3>. QED  BY <1>1, <1>3, <2>1, LeaderNamesItself DEF MaySend, Inv
  <2>3. /\ j.pc = "waiting" /\ j.mine = me.mine /\ j.req = m /\ j.peer = me.peer
    BY <1>1 DEF IdleJob
  <2>4. InCall(j) /\ \A q, T, n : ~AcceptedUpTo(j, q, T, n)
    <3> HIDE DEF j
    <3>. QED  BY <2>3 DEF InCall, AcceptedUpTo
  <2>5. job'[i][t] = j
    <3> HIDE DEF j
    <3>. QED  BY <1>3, JobAfter DEF Inv, RpcInv
  <2>6. RequestOK(tl, m)
    <3>1. CASE me.kind = "IS"
      <4>1. m = SnapshotRequest(i, me.peer)
        BY <3>1
      <4>2. disk[i].snapIndex = 0
        BY DiskTypes, DiskFacts DEF LogInv
      <4>. QED  BY <4>1, <4>2 DEF SnapshotRequest, RequestOK
    <3>2. CASE me.kind # "IS"
      <4>1. m = AppendRequest(i, me.peer) /\ m.kind = "AE"
        BY <3>2 DEF AppendRequest
      <4>2. m.prevIndex >= 0
        <5> HIDE DEF m, j
        <5>. QED  BY <2>3, <2>4, <2>5, <4>1 DEF AppendsFromStart
      <4>3. AppendOK(tl, AppendRequest(i, me.peer))
        <5> HIDE DEF m, j
        <5>. QED  BY <1>1, <1>3, <4>1, <4>2, BuiltRequest DEF MaySend
      <4>. QED  BY <4>1, <4>3 DEF RequestOK
    <3>. QED  BY <3>1, <3>2
  <2> HIDE DEF m, j
  <2>7. AcceptFacts(tl) /\ MessageFacts(tl) /\ WorkFacts /\ JobTypes'
    BY <1>1, <1>3, <2>1, <2>2, <2>3, <2>4, <2>6, JobStep DEF LogInv
  <2>. QED  BY <2>7, ThreadStep DEF SendRequest
<1>4. NextPeer(i, t) \/ (MaySend(i) /\ SetJob(i, t, j))
  BY DEF SendRequest
<1>. QED  BY <1>2, <1>3, <1>4

\* The ledger after leader i has appended e to its log.
LEMMA AppendedLedger ==
    ASSUME NEW tl, LogInv(tl), Inv, UNCHANGED electionVars, NEW i \in Node, state[i] = "Leader",
           NEW e \in Entries, e.index = LastLogIndex(disk[i]) + 1, e.term = currentTerm[i],
           e.index <= MaxLog, disk' = [disk EXCEPT ![i].log = Append(@, e)]
    PROVE  /\ \E tl2 : LogFacts(tl, tl2) /\ LedgerInv(tl2)'
           /\ disk'[i].log = Append(disk[i].log, e)
           /\ e.index \in DOMAIN disk'[i].log /\ disk'[i].log[e.index] = e
<1>. PICK T \in Nat : T = currentTerm[i]
  BY DEF Inv, ElectionInv, ElectionTypeOK
<1>0. LedgerInv(tl) /\ DiskInv(tl) /\ tl \in Ledgers /\ disk \in [Node -> Disks]
  BY DEF LogInv, LedgerInv, DiskInv
<1>1. PICK s \in Seq(Entries) : s = disk[i].log /\ s = tl[T] /\ Rooted(tl, s)
  <2>1. disk[i].log \in Seq(Entries) /\ Rooted(tl, disk[i].log)
    BY <1>0, DiskTypes
  <2>. QED  BY <1>0, <2>1 DEF DiskInv
<1>2. PICK new \in Seq(Entries) : new = Append(s, e)
  BY AppendProperties
<1>3. /\ Len(s) \in Nat /\ DOMAIN s = 1 .. Len(s)
      /\ Len(new) = Len(s) + 1 /\ DOMAIN new = 1 .. Len(s) + 1
      /\ \A n \in 1 .. Len(s) : new[n] = s[n]
      /\ new[Len(s) + 1] = e /\ e.index = Len(s) + 1 /\ e.term = T
  <2>1. Len(s) \in Nat /\ DOMAIN s = 1 .. Len(s) /\ DOMAIN new = 1 .. Len(new)
    BY LogType
  <2>2. /\ Len(new) = Len(s) + 1 /\ new[Len(s) + 1] = e
        /\ \A n \in 1 .. Len(s) : new[n] = s[n]
    BY <1>2, AppendProperties
  <2>3. LastLogIndex(disk[i]) = Len(s)
    BY <1>0, <1>1, LastFacts
  <2>. QED  BY <2>1, <2>2, <2>3
<1>4. PICK tl2 : tl2 = [tl EXCEPT ![T] = new]
  OBVIOUS
<1>5. tl2 \in Ledgers /\ tl2[T] = new /\ \A t \in Nat : t # T => tl2[t] = tl[t]
  BY <1>0, <1>4 DEF Ledgers
<1>6. Agree(s, new, Len(s))
  BY <1>3 DEF Agree
<1>7. Extends(tl, tl2)
  <2>1. \A t \in Nat : Agree(tl[t], tl[t], Len(tl[t]))
    BY <1>0, ExtendsSame DEF Extends
  <2>. QED  BY <1>1, <1>5, <1>6, <2>1 DEF Extends
<1>8. Rooted(tl2, new)
  <2>. SUFFICES ASSUME NEW n \in DOMAIN new
                PROVE  new[n].index = n /\ Agree(tl2[new[n].term], new, n)
    BY DEF Rooted
  <2>1. CASE n = Len(s) + 1
    BY <1>3, <1>5, <2>1, AgreeSame
  <2>2. CASE n # Len(s) + 1
    <3>1. n \in DOMAIN s /\ n \in Nat /\ n <= Len(s) /\ new[n] = s[n]
      BY <1>3, <2>2
    <3>2. s[n].index = n /\ Agree(tl[s[n].term], s, n) /\ s[n].term \in Nat
      BY <1>1, <3>1, LogType DEF Rooted
    <3>3. Agree(tl2[s[n].term], s, n)
      BY <1>0, <1>5, <1>7, <3>2, AgreeExtends
    <3>4. Agree(s, new, n)
      BY <1>3, <1>6, <3>1, AgreeLess
    <3>. QED  BY <3>1, <3>2, <3>3, <3>4, AgreeTransitive
  <2>. QED  BY <2>1, <2>2
<1>9. PICK ee \in elected : ee.leader = i /\ ee.term = T
  BY DEF Inv, ElectionInv, LeaderInv
<1>10. ASSUME NEW t \in Nat
       PROVE  /\ Rooted(tl2, tl2[t])
              /\ \A n \in DOMAIN tl2[t] : tl2[t][n].term <= t
              /\ Len(tl2[t]) <= MaxLog
              /\ tl2[t] # <<>> => \E x \in elected' : x.term = t
  <2>1. CASE t = T
    <3>1. \A n \in DOMAIN s : s[n].term <= T
      BY <1>0, <1>1 DEF LedgerInv
    <3>2. \A n \in DOMAIN new : new[n].term <= T
      BY <1>3, <3>1
    <3>3. Len(new) <= MaxLog
      BY <1>3
    <3>. QED  BY <1>5, <1>8, <1>9, <2>1, <3>2, <3>3 DEF electionVars
  <2>2. CASE t # T
    <3>1. tl2[t] = tl[t] /\ tl[t] \in Seq(Entries) /\ Rooted(tl, tl[t])
      BY <1>0, <1>5, <2>2, LedgerTypes
    <3>2. Rooted(tl2, tl[t])
      BY <1>0, <1>5, <1>7, <3>1, RootedExtends
    <3>. QED  BY <1>0, <3>1, <3>2 DEF LedgerInv, electionVars
  <2>. QED  BY <2>1, <2>2
<1>11. LedgerInv(tl2)'
  BY <1>5, <1>10 DEF LedgerInv
<1>12. /\ disk' \in [Node -> Disks] /\ disk'[i].log = new
       /\ \A k \in Node \ {i} : disk'[k] = disk[k]
  <2>1. [disk[i] EXCEPT !.log = new] \in Disks /\ [disk[i] EXCEPT !.log = new].log = new
    BY <1>0 DEF Disks
  <2>2. disk' = [disk EXCEPT ![i] = [disk[i] EXCEPT !.log = new]]
    BY <1>1, <1>2
  <2> DEFINE d == [disk[i] EXCEPT !.log = new]
  <2> HIDE DEF d
  <2>. QED  BY <1>0, <2>1, <2>2 DEF d
<1>13. ASSUME NEW k \in Node, state'[k] = "Leader"
       PROVE  disk'[k].log = tl2[currentTerm'[k]]
  <2>1. CASE k = i
    BY <1>5, <1>12, <2>1 DEF electionVars
  <2>2. CASE k # i
    <3>1. state[k] = "Leader" /\ currentTerm[k] \in Nat /\ currentTerm'[k] = currentTerm[k]
      BY <1>13 DEF Inv, ElectionInv, ElectionTypeOK, electionVars
    <3>2. PICK x \in elected : x.leader = k /\ x.term = currentTerm[k]
      BY <3>1 DEF Inv, ElectionInv, LeaderInv
    <3>3. currentTerm[k] # T
      BY <1>9, <2>2, <3>2 DEF Inv, ElectionInv, ElectionSafety
    <3>4. disk[k].log = tl[currentTerm[k]]
      BY <1>0, <3>1 DEF DiskInv
    <3>. QED  BY <1>5, <1>12, <2>2, <3>1, <3>3, <3>4
  <2>. QED  BY <2>1, <2>2
<1>14. LogFacts(tl, tl2)
  <2>1. state'[i] = "Leader"
    BY DEF electionVars
  <2>2. disk'[i].log = Append(disk[i].log, e)
    BY <1>1, <1>2, <1>12
  <2>. QED  BY <1>7, <1>12, <1>13, <2>1, <2>2 DEF LogFacts
<1>. QED  BY <1>1, <1>2, <1>3, <1>11, <1>12, <1>14

LEMMA ClientAppendFacts ==
    ASSUME NEW tl, LogInv(tl), Inv, ElectionStep, NEW i \in Node, ClientAppend(i)
    PROVE  \E tl2 : LogStep(tl, tl2)
<1> DEFINE j(e) == [IdleJob EXCEPT !.pc = "next", !.todo = PeersOf(i), !.mine = e]
<1>1. LastLogIndex(disk[i]) \in Nat /\ currentTerm[i] \in Nat
  <2>1. disk[i] \in Disks /\ Rooted(tl, disk[i].log) /\ Len(disk[i].log) \in Nat
    BY DiskTypes DEF LogInv
  <2>2. LastLogIndex(disk[i]) \in Nat
    BY <2>1, LastFacts
  <2>. QED  BY <2>2 DEF Inv, ElectionInv, ElectionTypeOK
<1>2. PICK e \in Entries :
        /\ e.index = LastLogIndex(disk[i]) + 1 /\ e.term = currentTerm[i]
        /\ e.index <= MaxLog /\ disk' = [disk EXCEPT ![i].log = Append(@, e)]
        /\ SetJob(i, "S", j(e))
  <2>1. [index |-> LastLogIndex(disk[i]) + 1, term |-> currentTerm[i]] \in Entries
    BY <1>1 DEF Entries
  <2>. QED  BY <2>1 DEF ClientAppend
<1>3. /\ UNCHANGED electionVars /\ state[i] = "Leader" /\ late' = late
      /\ UNCHANGED <<commitIndex, lastApplied, nextIndex, matchIndex, committed, applied, acked>>
      /\ \A k \in Node \ {i} : disk'[k] = disk[k]
  BY <1>2 DEF ClientAppend, LogInv, DiskInv
<1>4. NobodyWins /\ VoteFacts
  BY <1>3, VotesSame DEF NobodyWins, electionVars
<1>5. IndexTypes /\ IndexTypes' /\ JobTypes
  BY <1>3 DEF LogInv, IndexTypes
<1>6. PeerFacts /\ NextFacts
  BY <1>3, <1>4, <1>5, PeersSame
<1>7. /\ \E tl2 : LogFacts(tl, tl2) /\ LedgerInv(tl2)'
      /\ disk'[i].log = Append(disk[i].log, e)
      /\ e.index \in DOMAIN disk'[i].log /\ disk'[i].log[e.index] = e
  BY <1>2, <1>3, AppendedLedger
<1>8. AcceptFacts(tl) /\ MessageFacts(tl) /\ WorkFacts /\ JobTypes'
  <2>1. j(e).pc = "next" /\ j(e).mine = e /\ "S" \in Threads
    BY DEF IdleJob, Threads
  <2>2. SetJob(i, "S", j(e))
    BY <1>2
  <2> HIDE DEF j
  <2>3. ~InCall(j(e)) /\ \A q, T, n : ~AcceptedUpTo(j(e), q, T, n)
    BY <2>1 DEF InCall, AcceptedUpTo
  <2>. QED  BY <1>3, <1>5, <1>7, <2>1, <2>2, <2>3, JobStep
<1>9. PICK tl2 : LogFacts(tl, tl2) /\ LedgerInv(tl2)'
  BY <1>7
<1>10. CommitFacts(tl2) /\ HistFacts
  BY <1>3, HistorySame
<1>. QED  BY <1>4, <1>5, <1>6, <1>8, <1>9, <1>10 DEF LogStep, LogChange

\* What R3 makes of a positive reply.
LEMMA ReplyCounts ==
    ASSUME NEW tl, LogInv(tl), Inv, NEW i \in Node, NEW t \in Threads,
           job[i][t].pc = "answered", state[i] = "Leader",
           currentTerm[i] = job[i][t].req.term,
           job[i][t].req.kind = "AE", job[i][t].reply.success,
           NEW a, a = matchIndex[i][job[i][t].peer],
           NEW k, k = a \/ (k = Sent(job[i][t].req) /\ k >= a)
    PROVE  /\ k \in Nat /\ k <= Len(disk[i].log)
           /\ AckedBy(i, job[i][t].peer, k)
<1> DEFINE me == job[i][t]
           j == me.peer
           m == me.req
<1>1. RequestOK(tl, m) /\ m.to = j /\ NamesLeader(m)
  BY DEF LogInv, MessageInv, InCall, Inv, RpcInv, RequestsInv
<1>2. j \in Node /\ m.term \in Nat
  BY <1>1, ElectedTypes DEF NamesLeader
<1>3. Sent(m) \in Nat /\ Sent(m) <= Len(tl[m.term])
  BY <1>1, SentType DEF AppendOK
<1>4. matchIndex[i][j] \in Nat /\ matchIndex[i][j] <= Len(tl[m.term])
  <2>1. matchIndex[i][j] \in Nat
    BY <1>2 DEF LogInv, IndexTypes
  <2>2. Stored(tl, currentTerm[i], j, matchIndex[i][j])
    BY <1>2 DEF LogInv, MatchInv
  <2>. QED  BY <2>1, <2>2 DEF Stored
<1>5. disk[i].log = tl[m.term]
  BY DEF LogInv, DiskInv
<1>6. k = Sent(m) => AcceptedUpTo(me, j, currentTerm[i], k)
  BY <1>1, <1>3 DEF AcceptedUpTo
<1>7. AckedBy(i, j, k)
  <2>1. AckedBy(i, j, a)
    <3>1. a \in Nat /\ a <= matchIndex[i][j]
      BY <1>4
    <3>. QED  BY <3>1 DEF AckedBy
  <2>2. k = Sent(m) => AckedBy(i, j, k)
    BY <1>6 DEF AckedBy
  <2>. QED  BY <2>1, <2>2
<1>8. k \in Nat /\ k <= Len(disk[i].log)
  <2>1. a \in Nat /\ a <= Len(tl[m.term]) /\ (k = a \/ k = Sent(m))
    BY <1>4
  <2> HIDE DEF m
  <2>. QED  BY <1>3, <1>5, <2>1
<1>. QED  BY <1>7, <1>8

\* R3 as a step on the indexes: they stay, or that of one peer changes.
LEMMA ReplyIndexes ==
    ASSUME NEW tl, LogInv(tl), Inv, NEW i \in Node, NEW t \in Threads, ReceiveReply(i, t)
    PROVE  \/ UNCHANGED <<nextIndex, matchIndex>>
           \/ \E k, n \in Nat :
                /\ state[i] = "Leader" /\ UNCHANGED electionVars
                /\ matchIndex' = [matchIndex EXCEPT ![i][job[i][t].peer] = k]
                /\ nextIndex' = [nextIndex EXCEPT ![i][job[i][t].peer] = n]
                /\ AckedBy(i, job[i][t].peer, k)
                /\ n <= Len(disk[i].log) + 1
<1> DEFINE me == job[i][t]
           j == me.peer
           m == me.req
           current == state[i] = "Leader" /\ currentTerm[i] = m.term
           a == matchIndex[i][j]
           b == nextIndex[i][j]
           L == Len(disk[i].log)
<1>1. me.pc = "answered"
  BY DEF ReceiveReply
<1>2. j \in Node
  <2>1. m.to = j /\ NamesLeader(m)
    BY <1>1 DEF LogInv, MessageInv, InCall, Inv, RpcInv, RequestsInv
  <2>. QED  BY <2>1 DEF NamesLeader
<1>3. /\ a \in Nat /\ b \in Nat /\ L \in Nat
      /\ disk[i].snapIndex = 0 /\ AckedBy(i, j, a)
      /\ matchIndex = [matchIndex EXCEPT ![i][j] = a]
      /\ nextIndex = [nextIndex EXCEPT ![i][j] = b]
  <2>1. a \in Nat /\ b \in Nat
    BY <1>2 DEF LogInv, IndexTypes
  <2>2. L \in Nat /\ disk[i].snapIndex = 0
    BY DiskTypes, DiskFacts DEF LogInv
  <2>3. AckedBy(i, j, a)
    BY <2>1 DEF AckedBy
  <2>. QED  BY <1>2, <2>1, <2>2, <2>3 DEF LogInv, IndexTypes
<1>4. current => b <= L + 1
  BY <1>2 DEF LogInv, NextInv
<1>5. CASE UNCHANGED <<nextIndex, matchIndex>>
  BY <1>5
<1>6. CASE /\ current /\ m.kind = "AE" /\ me.reply.success
           /\ matchIndex' = [matchIndex EXCEPT ![i][j] = Max({a, Sent(m)})]
           /\ nextIndex' = [nextIndex EXCEPT ![i][j] = Max({a, Sent(m)}) + 1]
           /\ UNCHANGED electionVars
  <2>1. PICK k, x, y : k = Max({x, y}) /\ x = a /\ y = Sent(m)
    OBVIOUS
  <2>2. x \in Nat /\ y \in Nat
    <3>1. RequestOK(tl, m) /\ NamesLeader(m)
      BY <1>1 DEF LogInv, MessageInv, InCall, Inv, RpcInv, RequestsInv
    <3>2. Sent(m) \in Nat
      BY <1>6, <3>1, SentType
    <3>. QED  BY <1>3, <2>1, <3>2
  <2>3. Max({x, y}) = IF x >= y THEN x ELSE y
    BY <2>2, MaxOfTwo
  <2>4. k = x \/ (k = y /\ k >= x)
    BY <2>1, <2>2, <2>3
  <2>5. k \in Nat /\ k <= L /\ AckedBy(i, j, k)
    BY <1>1, <1>6, <2>1, <2>4, ReplyCounts
  <2>6. k + 1 \in Nat /\ k + 1 <= L + 1
    BY <1>3, <2>5
  <2>7. k = Max({a, Sent(m)})
    BY <2>1
  <2> HIDE DEF me, j, m, a, L
  <2>. QED  BY <1>6, <2>5, <2>6, <2>7 DEF j, L, me
<1>7. CASE /\ current /\ UNCHANGED matchIndex /\ UNCHANGED electionVars
           /\ nextIndex' = [nextIndex EXCEPT ![i][j] = IF b > 0 + 1 THEN b - 1 ELSE 0]
  <2>1. PICK n : n = IF b > 0 + 1 THEN b - 1 ELSE 0
    OBVIOUS
  <2>2. n \in Nat /\ n <= L + 1
    BY SMTT(30), <1>3, <1>4, <1>7, <2>1
  <2>3. matchIndex' = [matchIndex EXCEPT ![i][j] = a]
    BY <1>3, <1>7
  <2> HIDE DEF me, j, m, a, b, L
  <2>. QED  BY <1>3, <1>7, <2>1, <2>2, <2>3 DEF j, L, me
<1>8. CASE /\ current /\ UNCHANGED electionVars
           /\ matchIndex' = [matchIndex EXCEPT ![i][j] = Max({a, 0})]
           /\ nextIndex' = [nextIndex EXCEPT ![i][j] = 0 + 1]
  <2>1. Max({a, 0}) = a
    BY <1>3, MaxOfTwo
  <2>2. 0 + 1 \in Nat /\ 0 + 1 <= L + 1
    BY <1>3
  <2> HIDE DEF me, j, m, a, b, L
  <2>. QED  BY <1>3, <1>8, <2>1, <2>2 DEF j, L, me
<1>9. \/ UNCHANGED <<nextIndex, matchIndex>>
      \/ /\ current /\ m.kind = "AE" /\ me.reply.success
         /\ matchIndex' = [matchIndex EXCEPT ![i][j] = Max({a, Sent(m)})]
         /\ nextIndex' = [nextIndex EXCEPT ![i][j] = Max({a, Sent(m)}) + 1]
         /\ UNCHANGED electionVars
      \/ /\ current /\ UNCHANGED matchIndex /\ UNCHANGED electionVars
         /\ nextIndex' = [nextIndex EXCEPT ![i][j] = IF b > 0 + 1 THEN b - 1 ELSE 0]
      \/ /\ current /\ UNCHANGED electionVars
         /\ matchIndex' = [matchIndex EXCEPT ![i][j] = Max({a, 0})]
         /\ nextIndex' = [nextIndex EXCEPT ![i][j] = 0 + 1]
  BY <1>3 DEF ReceiveReply, Sent
<1>. QED  BY <1>5, <1>6, <1>7, <1>8, <1>9

LEMMA ReceiveReplyFacts ==
    ASSUME NEW tl, LogInv(tl), Inv, ElectionStep, NEW i \in Node, NEW t \in Threads,
           ReceiveReply(i, t)
    PROVE  \E tl2 : LogStep(tl, tl2)
<1> DEFINE p == job[i][t].peer
<1>1. /\ UNCHANGED <<disk, commitIndex, lastApplied, late, committed, applied, acked>>
      /\ NextPeer(i, t) /\ job[i][t].pc = "answered"
      /\ UNCHANGED electionVars \/ LearnTerm(i, job[i][t].reply.term)
  BY DEF ReceiveReply
<1>2. /\ NobodyWins /\ UNCHANGED <<round, call>>
      /\ \A c \in Node : state'[c] = "Candidate" =>
           state[c] = "Candidate" /\ currentTerm'[c] = currentTerm[c]
  BY <1>1 DEF LearnTerm, BecomeFollower, electionVars, NobodyWins, Inv, ElectionInv,
     ElectionTypeOK
<1>3. VoteFacts
  BY <1>2, VotesSame
<1>4. AcceptFacts(tl) /\ MessageFacts(tl) /\ WorkFacts /\ JobTypes'
  BY <1>1, NextPeerJob DEF LogInv
<1>5. IndexTypes
  BY DEF LogInv
<1>6. IndexTypes' /\ PeerFacts /\ NextFacts
  <2>1. CASE UNCHANGED <<nextIndex, matchIndex>>
    BY <1>1, <1>2, <1>5, <2>1, PeersSame DEF IndexTypes
  <2>2. ASSUME NEW k \in Nat, NEW n \in Nat,
               state[i] = "Leader", UNCHANGED electionVars,
               matchIndex' = [matchIndex EXCEPT ![i][p] = k],
               nextIndex' = [nextIndex EXCEPT ![i][p] = n],
               AckedBy(i, p, k), n <= Len(disk[i].log) + 1
        PROVE  IndexTypes' /\ PeerFacts /\ NextFacts
    <3> HIDE DEF p
    <3>1. IndexTypes'
      BY <1>1, <1>5, <2>2 DEF IndexTypes
    <3>2. \A l, j \in Node : /\ matchIndex[l][j] \in Nat /\ nextIndex[l][j] \in Nat
                             /\ (l # i \/ j # p) => matchIndex'[l][j] = matchIndex[l][j]
                                                    /\ nextIndex'[l][j] = nextIndex[l][j]
      BY <1>5, <2>2 DEF IndexTypes
    <3>3. p \in Node => matchIndex'[i][p] = k /\ nextIndex'[i][p] = n
      BY <1>5, <2>2 DEF IndexTypes
    <3>4. PeerFacts
      <4>1. \A l, j \in Node : AckedBy(l, j, matchIndex[l][j])
        BY <3>2 DEF AckedBy
      <4>. QED  BY <1>2, <2>2, <3>2, <3>3, <4>1 DEF PeerFacts, NobodyWins
    <3>5. NextFacts
      BY <1>1, <1>2, <2>2, <3>2, <3>3 DEF NextFacts, NobodyWins
    <3>. QED  BY <3>1, <3>4, <3>5
  <2>. QED  BY <2>1, <2>2, ReplyIndexes
<1>. QED  BY <1>1, <1>2, <1>3, <1>4, <1>6, QuietStep

\* A crash forgets the commit position and every index, and loses what the threads did.
LEMMA CrashFacts ==
    ASSUME NEW tl, LogInv(tl), Inv, ElectionStep, NEW i \in Node, Crash(i)
    PROVE  \E tl2 : LogStep(tl, tl2)
<1>1. /\ UNCHANGED <<disk, committed, applied, acked>>
      /\ Restart(i)
      /\ commitIndex' = [commitIndex EXCEPT ![i] = disk[i].snapIndex]
      /\ lastApplied' = [lastApplied EXCEPT ![i] = disk[i].snapIndex]
      /\ nextIndex' = [nextIndex EXCEPT ![i] = [j \in Node |-> 1]]
      /\ matchIndex' = [matchIndex EXCEPT ![i] = [j \in Node |-> 0]]
      /\ job' = [job EXCEPT ![i] = [t \in Threads |-> IdleJob]]
  BY DEF Crash
<1>2. /\ \A k \in Node, t \in Threads : job'[k][t] = IF k = i THEN IdleJob ELSE job[k][t]
      /\ disk[i].snapIndex = 0
  BY <1>1, DiskTypes, DiskFacts DEF Inv, RpcInv, JobsInv, LogInv
<1>3. \A m \in late' : \/ m \in late
                       \/ \E t \in Threads : InCall(job[i][t]) /\ m = job[i][t].req
  BY DEF Crash, InCall
<1>4. /\ state'[i] = "Follower"
      /\ call' = [call EXCEPT ![i] = NoCall]
      /\ \A k \in Node \ {i} : /\ state'[k] = state[k] /\ currentTerm'[k] = currentTerm[k]
                               /\ round'[k] = round[k] /\ call'[k] = call[k]
  BY <1>1 DEF Restart, EndElection, AbandonCall, Inv, ElectionInv, ElectionTypeOK
<1>5. NobodyWins
  BY <1>4 DEF NobodyWins
<1>6. VoteFacts
  <2>1. \A c \in Node \ {i} : Votes(c)' = Votes(c)
    BY <1>4 DEF Votes
  <2>. QED  BY <1>4, <2>1, VotesContinue
<1>7. LogFacts(tl, tl) /\ LedgerInv(tl)'
  BY <1>1, <1>5, LogSame
<1>8. IndexTypes /\ JobTypes
  BY DEF LogInv
<1>9. IndexTypes'
  BY <1>1, <1>2, <1>8 DEF IndexTypes
<1>10. \A k \in Node \ {i}, j \in Node :
         matchIndex'[k][j] = matchIndex[k][j] /\ nextIndex'[k][j] = nextIndex[k][j]
         /\ matchIndex[k][j] \in Nat /\ nextIndex[k][j] \in Nat
  BY <1>1, <1>8 DEF IndexTypes
<1>11. PeerFacts /\ NextFacts
  BY <1>4, <1>10 DEF PeerFacts, NextFacts, AckedBy
<1>12. AcceptFacts(tl) /\ MessageFacts(tl) /\ WorkFacts /\ JobTypes'
  <2>1. AcceptFacts(tl)
    BY <1>2, IdleJobFacts DEF AcceptFacts
  <2>2. MessageFacts(tl)
    BY <1>2, <1>3, IdleJobFacts DEF MessageFacts
  <2>3. WorkFacts /\ JobTypes'
    BY <1>1, <1>2, <1>8, IdleJobFacts DEF WorkFacts, Places, JobTypes, Threads
  <2>. QED  BY <2>1, <2>2, <2>3
<1>13. CommitFacts(tl) /\ HistFacts
  <2>1. \A k \in Node : \/ commitIndex'[k] = commitIndex[k] /\ lastApplied'[k] = lastApplied[k]
                        \/ k = i /\ commitIndex'[k] = 0 /\ lastApplied'[k] = 0
    BY <1>1, <1>2, <1>8 DEF IndexTypes
  <2>. QED  BY <1>1, <2>1 DEF CommitFacts, HistFacts
<1>. QED  BY <1>6, <1>7, <1>9, <1>11, <1>12, <1>13 DEF LogStep, LogChange

\* A client is told of an entry only once its node counts it as committed.
LEMMA ClientResultFacts ==
    ASSUME NEW tl, LogInv(tl), Inv, ElectionStep, NEW i \in Node, ClientResult(i),
           MineAt(i)
    PROVE  \E tl2 : LogStep(tl, tl2)
<1> DEFINE e == job[i]["S"].mine
<1>1. /\ UNCHANGED electionVars
      /\ UNCHANGED <<disk, commitIndex, lastApplied, nextIndex, matchIndex, late,
                     committed, applied>>
      /\ SetJob(i, "S", IdleJob) /\ job[i]["S"].pc = "result" /\ "S" \in Threads
  BY DEF ClientResult, Threads
<1>2. \/ acked' = acked
      \/ acked' = acked \cup {e} /\ (Written(i) \/ Deleted(i))
  BY DEF ClientResult
<1>3. Written(i) \/ Deleted(i) => \E x \in committed : x.entry = e
  <2>1. /\ e.index \in DOMAIN disk[i].log /\ disk[i].log[e.index] = e
        /\ LastLogIndex(disk[i]) = Len(disk[i].log) /\ Len(disk[i].log) \in Nat
        /\ DOMAIN disk[i].log = 1 .. Len(disk[i].log)
    <3>1. disk[i] \in Disks /\ Rooted(tl, disk[i].log) /\ Len(disk[i].log) \in Nat
          /\ DOMAIN disk[i].log = 1 .. Len(disk[i].log)
      BY DiskTypes DEF LogInv
    <3>2. LastLogIndex(disk[i]) = Len(disk[i].log)
      BY <3>1, LastFacts
    <3>. QED  BY <1>1, <3>1, <3>2 DEF MineAt
  <2>2. /\ commitIndex[i] \in Nat
        /\ \A n \in 1 .. commitIndex[i] : \E x \in committed : x.entry = disk[i].log[n]
    BY DEF LogInv, CommitIndexInv, KnowsCommitted, Committed, IndexTypes
  <2>3. Written(i) \/ Deleted(i) => e.index \in 1 .. commitIndex[i]
    BY <2>1, <2>2 DEF Written, Deleted
  <2>. QED  BY <2>1, <2>2, <2>3
<1>4. NobodyWins /\ VoteFacts
  BY <1>1, VotesSame DEF NobodyWins, electionVars
<1>5. IndexTypes /\ IndexTypes' /\ JobTypes
  BY <1>1 DEF LogInv, IndexTypes
<1>6. PeerFacts /\ NextFacts
  BY <1>1, <1>4, <1>5, PeersSame
<1>7. AcceptFacts(tl) /\ MessageFacts(tl) /\ WorkFacts /\ JobTypes'
  BY <1>1, <1>5, IdleJobFacts, JobStep
<1>8. LogFacts(tl, tl) /\ LedgerInv(tl)'
  BY <1>1, <1>4, LogSame
<1>9. CommitFacts(tl) /\ HistFacts
  BY <1>1, <1>2, <1>3 DEF CommitFacts, HistFacts
<1>. QED  BY <1>4, <1>5, <1>6, <1>7, <1>8, <1>9 DEF LogStep, LogChange

-----------------------------------------------------------------------------
(***************************************************************************)
(* Commitment.                                                             *)
(***************************************************************************)

\* Without compaction a node applies all it commits and keeps its log.
LEMMA CommitToFacts ==
    ASSUME NoCompaction, IndexTypes, NEW i \in Node, NEW d \in Disks, NEW c \in Nat,
           Len(d.log) <= MaxLog, lastApplied[i] <= c, c <= Len(d.log), CommitTo(i, d, c)
    PROVE  /\ commitIndex' = [commitIndex EXCEPT ![i] = c]
           /\ lastApplied' = [lastApplied EXCEPT ![i] = c]
           /\ disk' = [disk EXCEPT ![i] = d]
           /\ \A a \in applied' : a \in applied \/ (a.at \in 1 .. c /\ a.entry = d.log[a.at])
<1> DEFINE S == {k \in lastApplied[i] .. c :
                   \A x \in lastApplied[i] + 1 .. k : x <= d.snapIndex \/ InLog(d, x)}
<1>1. /\ lastApplied[i] \in Nat /\ d.snapIndex = 0 /\ DOMAIN d.log = 1 .. Len(d.log)
      /\ Len(d.log) \in Nat /\ \A n \in Int : PosOf(d, n) = n /\ (InLog(d, n) <=> n \in DOMAIN d.log)
  BY DiskFacts DEF IndexTypes
<1>2. S = lastApplied[i] .. c
  BY <1>1
<1> HIDE DEF S
<1>3. Max(S) = c
  <2>1. S \in SUBSET Nat /\ c \in S /\ \A x \in S : x <= c
    BY <1>1, <1>2
  <2>2. Max(S) \in S /\ c <= Max(S)
    BY <2>1, MaxIsLargest
  <2>. QED  BY <1>1, <1>2, <2>1, <2>2
<1>4. AppliedTo(i, d, c) = c
  <2>1. S # {}
    BY <1>1, <1>2
  <2>. QED  BY <1>3, <2>1 DEF AppliedTo, S
<1>5. MaybeSnapshot(d, c) = d
  <2>1. ~(c - d.snapIndex >= SnapshotThreshold)
    BY <1>1, ReplicationAssumption DEF NoCompaction
  <2>. QED  BY <2>1 DEF MaybeSnapshot
<1>6. applied' = applied \cup
        {[at |-> x, entry |-> d.log[PosOf(d, x)]] :
           x \in {y \in lastApplied[i] + 1 .. c : y > d.snapIndex}}
  BY <1>4 DEF CommitTo
<1>7. \A x \in lastApplied[i] + 1 .. c : x \in 1 .. c /\ PosOf(d, x) = x
  BY <1>1
<1>. QED  BY <1>4, <1>5, <1>6, <1>7 DEF CommitTo

\* What updateCommitIndex may commit is stored by a majority that no later leader passes.
LEMMA CommittableIsChosen ==
    ASSUME NEW tl, LogInv(tl), Inv, NEW i \in Node, state[i] = "Leader",
           NEW c \in Committable(i), NEW T, T = currentTerm[i]
    PROVE  /\ c \in Nat /\ c > commitIndex[i] /\ c \in DOMAIN disk[i].log
           /\ Chosen(tl, T, c)
<1> DEFINE Q == {j \in Node : IF j = i THEN LastLogIndex(disk[i]) >= c
                                       ELSE matchIndex[i][j] >= c}
<1>1. /\ disk[i] \in Disks /\ disk[i].log \in Seq(Entries) /\ disk[i].log = tl[T]
      /\ LedgerInv(tl) /\ DiskInv(tl) /\ MatchInv(tl) /\ T \in Nat
      /\ commitIndex[i] \in Nat /\ \A j \in Node : matchIndex[i][j] \in Nat
  <2>1. LedgerInv(tl) /\ DiskInv(tl) /\ MatchInv(tl) /\ IndexTypes
    BY DEF LogInv
  <2>2. T \in Nat
    BY DEF Inv, ElectionInv, ElectionTypeOK
  <2>3. disk[i] \in Disks /\ disk[i].log \in Seq(Entries) /\ disk[i].log = tl[T]
    BY <2>1, DiskTypes DEF DiskInv
  <2>4. commitIndex[i] \in Nat /\ \A j \in Node : matchIndex[i][j] \in Nat
    BY <2>1 DEF IndexTypes
  <2>. QED  BY <2>1, <2>2, <2>3, <2>4
<1>2. c \in Nat /\ c > commitIndex[i] /\ c > 0
  <2>1. LastLogIndex(disk[i]) \in Nat
    <3>1. Len(disk[i].log) \in Nat /\ Rooted(tl, disk[i].log)
      BY <1>1, DiskTypes
    <3>. QED  BY <1>1, <3>1, LastFacts
  <2>2. c \in commitIndex[i] + 1 .. LastLogIndex(disk[i])
    BY DEF Committable
  <2>. QED  BY <1>1, <2>1, <2>2
<1>3. c \in DOMAIN disk[i].log /\ Has(tl[T], c, T)
  <2>1. InLog(disk[i], c) /\ LogTermAt(disk[i], c) = T
    BY DEF Committable
  <2>2. c \in DOMAIN disk[i].log
    BY <1>1, <1>2, <2>1, DiskFacts
  <2>. QED  BY <1>1, <2>1, <2>2, DiskFacts DEF Has
<1>4. Q \in SUBSET Node /\ IsMajority(Q)
  BY DEF Committable, MajorityMatched
<1>5. \A j \in Q : j = i \/ AckedBy(i, j, c)
  BY <1>1, <1>2 DEF AckedBy
<1> HIDE DEF Q
<1>6. Held(tl, T, c, Q)
  <2>1. \A j \in Q : currentTerm[j] <= T \/ AckedBy(i, j, c)
    BY <1>1, <1>5
  <2>. QED  BY <1>2, <1>3, <1>4, <2>1 DEF LogInv, ChoosableInv
<1>7. ASSUME NEW j \in Q
      PROVE  currentTerm[j] >= T /\ Has(disk[j].log, c, T)
  <2>1. CASE j = i
    BY <1>1, <1>3, <2>1
  <2>2. CASE j # i
    <3>1. /\ j \in Node /\ currentTerm[j] \in Nat
          /\ disk[j].log \in Seq(Entries)
      BY <1>1, <1>4, DiskTypes DEF Inv, ElectionInv, ElectionTypeOK
    <3>2. /\ currentTerm[j] >= T
          /\ currentTerm[j] = T => Agree(disk[j].log, tl[T], c)
      BY <1>1, <1>2, <1>5, <2>2, <3>1, AckedIsStored
    <3>3. ASSUME Agree(disk[j].log, tl[T], c)
          PROVE  Has(disk[j].log, c, T)
      <4>1. Agree(tl[T], disk[j].log, c) /\ c <= c
        BY <1>2, <3>3, AgreeSymmetric
      <4>. QED  BY <1>1, <1>3, <3>1, <4>1, HasAgrees
    <3>. QED  BY <1>1, <1>6, <3>1, <3>2, <3>3 DEF Held
  <2>. QED  BY <2>1, <2>2
<1>. QED  BY <1>2, <1>3, <1>4, <1>6, <1>7 DEF Chosen

\* updateCommitIndex of a leader.
LEMMA LeaderCommits ==
    ASSUME NEW tl, LogInv(tl), Inv, ElectionStep, NoCompaction, NEW i \in Node,
           UNCHANGED electionVars, VoteFacts,
           state[i] = "Leader", Committable(i) # {}, NEW c, c = Max(Committable(i)),
           CommitTo(i, disk[i], c), acked' = acked,
           committed' = committed \cup
             {[entry |-> disk[i].log[PosOf(disk[i], x)], in |-> currentTerm[i]] :
                x \in {y \in commitIndex[i] + 1 .. c : InLog(disk[i], y)}}
    PROVE  /\ disk' = disk /\ CommitFacts(tl) /\ HistFacts /\ LogFacts(tl, tl)
           /\ commitIndex' \in [Node -> Nat] /\ lastApplied' \in [Node -> Nat]
<1>. PICK T : T = currentTerm[i]
  OBVIOUS
<1>1. /\ disk \in [Node -> Disks] /\ disk[i] \in Disks /\ disk[i].log \in Seq(Entries)
      /\ disk[i].log = tl[T] /\ T \in Nat /\ Rooted(tl, disk[i].log)
      /\ Len(disk[i].log) \in Nat /\ DOMAIN disk[i].log = 1 .. Len(disk[i].log)
      /\ LedgerInv(tl) /\ DiskInv(tl) /\ IndexTypes
      /\ commitIndex[i] \in Nat /\ lastApplied[i] = commitIndex[i]
  BY DiskTypes DEF LogInv, DiskInv, IndexTypes, Inv, ElectionInv, ElectionTypeOK,
     CommitIndexInv
<1>2. \A n \in Committable(i) : n \in Nat /\ n <= Len(disk[i].log)
  BY <1>1, CommittableIsChosen
<1>3. c \in Committable(i)
  <2>1. Committable(i) \in SUBSET Nat
    BY <1>2
  <2>2. \A n \in Committable(i) : n <= Len(disk[i].log)
    BY <1>2
  <2>. QED  BY <1>1, <2>1, <2>2, MaxIsLargest
<1>4. c \in Nat /\ c > commitIndex[i] /\ c \in DOMAIN disk[i].log /\ Chosen(tl, T, c)
  BY <1>1, <1>3, CommittableIsChosen
<1>5. /\ commitIndex' = [commitIndex EXCEPT ![i] = c]
      /\ lastApplied' = [lastApplied EXCEPT ![i] = c]
      /\ disk' = [disk EXCEPT ![i] = disk[i]]
      /\ \A a \in applied' : a \in applied \/ (a.at \in 1 .. c /\ a.entry = disk[i].log[a.at])
  <2>1. Len(disk[i].log) <= MaxLog
    BY <1>1, LogBounded
  <2>. QED  BY <1>1, <1>4, <2>1, CommitToFacts
<1>6. disk' = disk
  BY <1>1, <1>5
<1>7. LogFacts(tl, tl) /\ LedgerInv(tl)'
  <2>1. NobodyWins
    BY DEF NobodyWins, electionVars
  <2>. QED  BY <1>6, <2>1, LogSame
<1>8. Chosen(tl, T, c)'
  BY <1>1, <1>4, <1>7, ChosenStep
<1>9. \A x \in committed' : x \in committed \/
        \E y \in commitIndex[i] + 1 .. c : x = [entry |-> disk[i].log[y], in |-> T]
  <2>1. \A y \in commitIndex[i] + 1 .. c : PosOf(disk[i], y) = y
    BY <1>1, <1>4, DiskFacts
  <2>. QED  BY <2>1
<1>10. \A y \in commitIndex[i] + 1 .. c :
         [entry |-> disk[i].log[y], in |-> T] \in committed'
  <2>1. \A y \in commitIndex[i] + 1 .. c : PosOf(disk[i], y) = y /\ InLog(disk[i], y)
    BY <1>1, <1>4, DiskFacts
  <2>. QED  BY <2>1
<1>11. ASSUME NEW y \in commitIndex[i] + 1 .. c, NEW x,
              x = [entry |-> disk[i].log[y], in |-> T]
       PROVE  CommittedOK(tl, x)' /\ x.in = T /\ x.entry.index <= c
  <2>1. y \in DOMAIN disk[i].log /\ y \in 1 .. c
    BY <1>1, <1>4
  <2>2. x.entry = tl[T][y] /\ x.entry \in Entries /\ x.entry.index = y /\ x.in = T
    BY <1>1, <1>11, <2>1, LogType DEF Rooted
  <2>3. CommittedOK(tl, x)'
    BY <1>1, <1>4, <1>8, <2>1, <2>2 DEF CommittedOK
  <2>. QED  BY <2>1, <2>2, <2>3
<1>12. KnowsCommitted(i, c)'
  <2>1. ASSUME NEW n \in 1 .. c
        PROVE  \E x \in committed' : x.entry = disk[i].log[n] /\ x.in <= T
    <3>1. CASE n \in 1 .. commitIndex[i]
      <4>1. \E x \in committed : x.entry = disk[i].log[n] /\ x.in <= T
        BY <3>1 DEF LogInv, CommitIndexInv, KnowsCommitted, Committed
      <4>. QED  BY <4>1
    <3>2. CASE n \in commitIndex[i] + 1 .. c
      <4>1. PICK x : x = [entry |-> disk[i].log[n], in |-> T]
        OBVIOUS
      <4>2. x \in committed' /\ x.entry = disk[i].log[n] /\ x.in = T
        BY <1>10, <3>2, <4>1
      <4>. QED  BY <1>1, <4>2
    <3>. QED  BY <1>1, <1>4, <3>1, <3>2
  <2>2. c \in 0 .. Len(disk[i].log) /\ currentTerm'[i] = T
    BY <1>1, <1>4 DEF electionVars
  <2>. QED  BY <1>6, <2>1, <2>2 DEF KnowsCommitted, Committed
<1>13. CommitFacts(tl)
  <2>1. \A k \in Node : k # i => commitIndex'[k] = commitIndex[k] /\ lastApplied'[k] = lastApplied[k]
    BY <1>1, <1>5 DEF IndexTypes
  <2>2. commitIndex'[i] = c /\ lastApplied'[i] = c
    BY <1>1, <1>5 DEF IndexTypes
  <2>3. \A x \in committed' : x \in committed \/
          (CommittedOK(tl, x)' /\ x.in = T /\ x.entry.index <= c)
    BY <1>9, <1>11
  <2>4. c >= commitIndex[i]
    BY <1>1, <1>4
  <2>. QED  BY <1>4, <1>12, <2>1, <2>2, <2>3, <2>4 DEF CommitFacts
<1>14. HistFacts
  <2>1. commitIndex'[i] = c
    BY <1>1, <1>5 DEF IndexTypes
  <2>. QED  BY <1>5, <1>6, <2>1 DEF HistFacts
<1>15. commitIndex' \in [Node -> Nat] /\ lastApplied' \in [Node -> Nat]
  BY <1>1, <1>4, <1>5 DEF IndexTypes
<1>. QED  BY <1>6, <1>7, <1>13, <1>14, <1>15

LEMMA EndRoundFacts ==
    ASSUME NEW tl, LogInv(tl), Inv, ElectionStep, NoCompaction,
           NEW i \in Node, NEW t \in Threads, EndRound(i, t)
    PROVE  \E tl2 : LogStep(tl, tl2)
<1>1. /\ UNCHANGED <<electionVars, nextIndex, matchIndex, late, acked>>
      /\ job[i][t].pc = "next"
  BY DEF EndRound
<1>2. NobodyWins /\ VoteFacts
  BY <1>1, VotesSame DEF NobodyWins, electionVars
<1>3. IndexTypes /\ JobTypes
  BY DEF LogInv
<1>4. PeerFacts /\ NextFacts
  BY <1>1, <1>2, <1>3, PeersSame
<1>5. /\ disk' = disk /\ CommitFacts(tl) /\ HistFacts /\ LogFacts(tl, tl)
      /\ commitIndex' \in [Node -> Nat] /\ lastApplied' \in [Node -> Nat]
  <2>1. CASE state[i] = "Leader" /\ Committable(i) # {}
    <3>1. PICK c : c = Max(Committable(i))
      OBVIOUS
    <3>2. /\ CommitTo(i, disk[i], c)
          /\ committed' = committed \cup
             {[entry |-> disk[i].log[PosOf(disk[i], x)], in |-> currentTerm[i]] :
                x \in {y \in commitIndex[i] + 1 .. c : InLog(disk[i], y)}}
      BY <2>1, <3>1 DEF EndRound
    <3>. QED  BY <1>1, <1>2, <2>1, <3>1, <3>2, LeaderCommits
  <2>2. CASE ~(state[i] = "Leader" /\ Committable(i) # {})
    <3>1. UNCHANGED <<disk, commitIndex, lastApplied, committed, applied>>
      BY <2>2 DEF EndRound
    <3>. QED  BY <1>1, <1>2, <1>3, <3>1, LogSame, HistorySame DEF IndexTypes
  <2>. QED  BY <2>1, <2>2
<1>6. AcceptFacts(tl) /\ MessageFacts(tl) /\ WorkFacts /\ JobTypes'
  <2> DEFINE me == job[i][t]
             j == IF t = "S" THEN [me EXCEPT !.pc = "result"] ELSE IdleJob
  <2>1. SetJob(i, t, j)
    BY DEF EndRound
  <2>2. DOMAIN me = DOMAIN IdleJob /\ me.mine \in Entries
    BY <1>3 DEF Inv, RpcInv, JobsInv, JobTypes
  <2>3. /\ j.pc \in {"idle", "result"} /\ j.mine \in Entries
        /\ t = "S" => j.mine = me.mine
    BY <2>2, IdleJobFacts DEF IdleJob
  <2> HIDE DEF j
  <2>4. ~InCall(j) /\ \A q, T, n : ~AcceptedUpTo(j, q, T, n)
    BY <2>3 DEF InCall, AcceptedUpTo
  <2>. QED  BY <1>1, <1>3, <1>5, <2>1, <2>3, <2>4, JobStep
<1>7. IndexTypes'
  BY <1>1, <1>3, <1>5 DEF IndexTypes
<1>8. LedgerInv(tl)'
  BY <1>2, <1>5, LogSame
<1>. QED  BY <1>2, <1>4, <1>5, <1>6, <1>7, <1>8 DEF LogStep, LogChange

-----------------------------------------------------------------------------
(***************************************************************************)
(* The follower.                                                           *)
(***************************************************************************)

\* Without compaction a request for entries is refused, fails the log check, or is
\* stored; one for a snapshot changes no log.
LEMMA HandleCases ==
    ASSUME NEW tl, LogInv(tl), NEW m, NamesLeader(m), RequestOK(tl, m), Handle(m)
    PROVE  /\ Refuse(m) \/ Accept(m)
           /\ m.kind = "AE" => AppendOK(tl, m) /\ ~BelowSnapshot(m)
           /\ \/ /\ m.kind = "AE" => Refuse(m) \/ ~Matches(m)
                 /\ UNCHANGED <<disk, commitIndex, lastApplied, applied>>
              \/ /\ m.kind = "AE" /\ Accept(m) /\ Matches(m) /\ ~Advances(m.to, m)
                 /\ disk' = [disk EXCEPT ![m.to] = AddEntries(disk[m.to], m.entries)]
                 /\ UNCHANGED <<commitIndex, lastApplied, applied>>
              \/ /\ m.kind = "AE" /\ Accept(m) /\ Matches(m) /\ Advances(m.to, m)
                 /\ CommitTo(m.to, AddEntries(disk[m.to], m.entries),
                      Min({m.commit, LastLogIndex(AddEntries(disk[m.to], m.entries))}))
<1>1. m.to \in Node /\ disk[m.to].snapIndex = 0
  <2>1. m.to \in Node
    BY DEF NamesLeader
  <2>. QED  BY <2>1, DiskTypes, DiskFacts DEF LogInv
<1>2. CASE m.kind = "AE"
  <2>1. AppendOK(tl, m)
    BY <1>2 DEF RequestOK
  <2>2. ~BelowSnapshot(m)
    BY <1>1, <2>1 DEF BelowSnapshot, AppendOK
  <2>3. HandleAppendEntries(m)
    BY <1>2 DEF Handle, HandleInstallSnapshot
  <2>. QED  BY <1>2, <2>1, <2>2, <2>3 DEF HandleAppendEntries, Refuse
<1>3. CASE m.kind # "AE"
  <2>1. m.snapIndex = 0
    BY <1>3 DEF RequestOK, AppendOK
  <2>2. HandleInstallSnapshot(m)
    BY <1>3 DEF Handle, HandleAppendEntries
  <2>. QED  BY <1>1, <1>3, <2>1, <2>2 DEF HandleInstallSnapshot, Refuse
<1>. QED  BY <1>2, <1>3

\* The receiver stays as it is or becomes a follower in the term of the request.
LEMMA HandleRoles ==
    ASSUME NEW tl, LogInv(tl), Inv, ElectionStep,
           NEW m, NamesLeader(m), Refuse(m) \/ Accept(m)
    PROVE  /\ NobodyWins /\ VoteFacts
           /\ Accept(m) => /\ state'[m.to] = "Follower" /\ currentTerm'[m.to] = m.term
                           /\ m.term \in Nat
<1>1. m.to \in Node /\ m.term \in Nat
  BY ElectedTypes DEF NamesLeader
<1>. USE DEF Inv, ElectionInv, ElectionTypeOK
<1>2. UNCHANGED <<round, call>>
  BY DEF Refuse, Accept, electionVars
<1>3. Accept(m) => state'[m.to] = "Follower" /\ currentTerm'[m.to] = m.term
  <2>. SUFFICES ASSUME Accept(m) PROVE state'[m.to] = "Follower" /\ currentTerm'[m.to] = m.term
    OBVIOUS
  <2>1. PICK j \in Node, T \in Nat : j = m.to /\ T = m.term
    BY <1>1
  <2>2. FollowLeader(j, T, m.from) /\ ~(T < currentTerm[j]) /\ currentTerm[j] \in Nat
    BY <2>1 DEF Accept, Stale
  <2>3. CASE BecomeFollower(j, T, m.from)
    BY <2>1, <2>3 DEF BecomeFollower
  <2>4. CASE T <= currentTerm[j] /\ state[j] = "Follower" /\ UNCHANGED <<state, currentTerm>>
    <3>1. currentTerm[j] = T
      <4>1. PICK c \in Nat : c = currentTerm[j] /\ ~(T < c) /\ T <= c
        BY <2>2, <2>4
      <4> HIDE DEF Inv, ElectionInv, ElectionTypeOK
      <4>2. c = T
        BY <4>1
      <4>. QED  BY <4>1, <4>2
    <3>2. state' = state /\ currentTerm' = currentTerm
      BY <2>4
    <3>. QED  BY <2>1, <2>4, <3>1, <3>2
  <2>. QED  BY <2>2, <2>3, <2>4 DEF FollowLeader
<1>4. \A c \in Node : state'[c] \in {"Candidate", "Leader"} =>
        state'[c] = state[c] /\ currentTerm'[c] = currentTerm[c]
  <2>1. CASE Refuse(m)
    BY <2>1 DEF Refuse, electionVars
  <2>2. CASE Accept(m)
    BY <1>1, <1>3, <2>2 DEF Accept, FollowLeader, BecomeFollower
  <2>. QED  BY <2>1, <2>2
<1>5. NobodyWins
  BY <1>4 DEF NobodyWins
<1>6. VoteFacts
  BY <1>2, <1>4, VotesSame
<1>. QED  BY <1>1, <1>3, <1>5, <1>6

\* A follower's log that is made to follow its leader's.
LEMMA FollowedLog ==
    ASSUME NEW tl, LogInv(tl), Inv, ElectionStep, NobodyWins,
           NEW j \in Node, NEW d \in Disks, disk' = [disk EXCEPT ![j] = d],
           state'[j] = "Follower", NEW e \in elected, e.term = currentTerm'[j],
           d = disk[j] \/ Cuts(disk[j].log, d.log, tl[e.term])
    PROVE  LogFacts(tl, tl) /\ LedgerInv(tl)'
<1>1. LedgerInv(tl) /\ DiskInv(tl) /\ disk \in [Node -> Disks]
  BY DEF LogInv, DiskInv
<1>2. elected \subseteq elected'
  BY Grows DEF Inv
<1>3. LedgerInv(tl)'
  BY <1>1, <1>2, LedgerSame
<1>4. Extends(tl, tl)
  BY <1>1, ExtendsSame DEF LedgerInv
<1>5. disk' \in [Node -> Disks] /\ disk'[j] = d /\ \A k \in Node \ {j} : disk'[k] = disk[k]
  BY <1>1
<1>6. \A k \in Node : state'[k] = "Leader" => disk'[k].log = tl[currentTerm'[k]]
  <2>. SUFFICES ASSUME NEW k \in Node, state'[k] = "Leader"
                PROVE  disk'[k].log = tl[currentTerm'[k]]
    OBVIOUS
  <2>1. k # j /\ state[k] = "Leader" /\ currentTerm'[k] = currentTerm[k]
    BY NobodyWinsSame
  <2>. QED  BY <1>1, <1>5, <2>1 DEF DiskInv
<1>. QED  BY <1>3, <1>4, <1>5, <1>6 DEF LogFacts

\* What a matching request leaves on the disk of its receiver.
LEMMA StoredRequest ==
    ASSUME NEW tl, LogInv(tl), NEW m, m.to \in Node, m.term \in Nat, AppendOK(tl, m),
           Matches(m), NEW d, d = AddEntries(disk[m.to], m.entries)
    PROVE  /\ d \in Disks /\ Rooted(tl, d.log) /\ Len(d.log) <= MaxLog
           /\ Agree(d.log, tl[m.term], Sent(m))
           /\ d = disk[m.to] \/ Cuts(disk[m.to].log, d.log, tl[m.term])
<1>1. /\ LedgerInv(tl) /\ disk[m.to] \in Disks /\ Rooted(tl, disk[m.to].log)
  BY DiskTypes DEF LogInv
<1>2. /\ d \in Disks /\ Agree(d.log, tl[m.term], Sent(m))
      /\ d = disk[m.to] \/ Cuts(disk[m.to].log, d.log, tl[m.term])
  BY <1>1, AddEntriesFollows DEF Matches
<1>3. Rooted(tl, d.log)
  <2>1. CASE Cuts(disk[m.to].log, d.log, tl[m.term])
    <3>1. PICK k \in 0 .. Len(tl[m.term]) : d.log = SubSeq(tl[m.term], 1, k)
      BY <2>1 DEF Cuts
    <3>2. tl \in Ledgers /\ tl[m.term] \in Seq(Entries) /\ Rooted(tl, tl[m.term])
      BY <1>1, LedgerTypes
    <3>. QED  BY <3>1, <3>2, RootedPrefix
  <2>. QED  BY <1>1, <1>2, <2>1
<1>4. Len(d.log) <= MaxLog
  BY <1>1, <1>2, <1>3, DiskFacts, LogBounded
<1>. QED  BY <1>2, <1>3, <1>4

\* The receiver commits what the leader had committed when it sent.
LEMMA FollowerCommits ==
    ASSUME NEW tl, LogInv(tl), NoCompaction, NEW m, m.to \in Node, m.term \in Nat,
           AppendOK(tl, m), currentTerm'[m.to] = m.term,
           NEW d \in Disks, Rooted(tl, d.log), Len(d.log) <= MaxLog,
           Agree(d.log, tl[m.term], Sent(m)), Advances(m.to, m),
           CommitTo(m.to, d, Min({m.commit, LastLogIndex(d)})),
           UNCHANGED <<committed, acked>>
    PROVE  /\ disk' = [disk EXCEPT ![m.to] = d]
           /\ CommitFacts(tl) /\ HistFacts
           /\ commitIndex' \in [Node -> Nat] /\ lastApplied' \in [Node -> Nat]
<1>. PICK j \in Node : j = m.to
  OBVIOUS
<1>1. /\ IndexTypes /\ DiskInv(tl) /\ disk \in [Node -> Disks]
      /\ commitIndex[j] \in Nat /\ lastApplied[j] = commitIndex[j]
      /\ Len(d.log) \in Nat /\ LastLogIndex(d) = Len(d.log)
  BY DiskFacts, LastFacts DEF LogInv, DiskInv, IndexTypes, CommitIndexInv
<1>2. PICK c \in Nat : /\ c = m.commit /\ c \in 0 .. Sent(m) /\ c <= Sent(m)
                       /\ Sent(m) \in 0 .. Len(d.log)
  <2>1. m.commit \in 0 .. Sent(m) /\ Sent(m) \in 0 .. Len(d.log)
    BY DEF AppendOK, Agree
  <2>. QED  BY <1>1, <2>1
<1>3. Min({m.commit, LastLogIndex(d)}) = c
  BY <1>1, <1>2, MinOfTwo
<1>4. c > commitIndex[j] /\ c <= Len(d.log) /\ lastApplied[j] <= c
  BY <1>1, <1>2 DEF Advances
<1>5. /\ commitIndex' = [commitIndex EXCEPT ![j] = c]
      /\ lastApplied' = [lastApplied EXCEPT ![j] = c]
      /\ disk' = [disk EXCEPT ![j] = d]
      /\ \A a \in applied' : a \in applied \/ (a.at \in 1 .. c /\ a.entry = d.log[a.at])
  <2>1. CommitTo(j, d, c)
    BY <1>3
  <2>. QED  BY <1>1, <1>4, <2>1, CommitToFacts
<1>6. disk'[j] = d /\ commitIndex'[j] = c /\ lastApplied'[j] = c
      /\ \A k \in Node : k # j => commitIndex'[k] = commitIndex[k]
                                  /\ lastApplied'[k] = lastApplied[k]
  BY <1>1, <1>5 DEF IndexTypes
<1>7. KnowsCommitted(j, c)'
  <2>1. \A n \in 1 .. c : Committed(tl[m.term][n], m.term) /\ d.log[n] = tl[m.term][n]
    BY <1>1, <1>2 DEF AppendOK, Agree
  <2>2. \A n \in 1 .. c : Committed(d.log[n], m.term)'
    BY <2>1 DEF Committed
  <2>3. c \in 0 .. Len(d.log)
    BY <1>1, <1>4
  <2>. QED  BY <1>6, <2>2, <2>3 DEF KnowsCommitted
<1>8. CommitFacts(tl)
  <2>1. c >= commitIndex[j]
    BY <1>1, <1>4
  <2>. QED  BY <1>6, <1>7, <2>1 DEF CommitFacts
<1>9. HistFacts
  BY <1>5, <1>6 DEF HistFacts
<1>10. commitIndex' \in [Node -> Nat] /\ lastApplied' \in [Node -> Nat]
  BY <1>1, <1>5 DEF IndexTypes
<1>. QED  BY <1>5, <1>8, <1>9, <1>10

LEMMA HandleFacts ==
    ASSUME NEW tl, LogInv(tl), Inv, ElectionStep, NoCompaction,
           NEW m, NamesLeader(m), RequestOK(tl, m), Handle(m)
    PROVE  /\ NobodyWins /\ VoteFacts /\ LogFacts(tl, tl) /\ LedgerInv(tl)'
           /\ CommitFacts(tl) /\ HistFacts /\ IndexTypes' /\ PeerFacts /\ NextFacts
           /\ \A k \in Node : disk'[k] = disk[k] \/ job[k]["S"].pc = "idle"
           /\ m.kind = "AE" /\ ReplyTo(m).success =>
                /\ currentTerm'[m.to] = m.term
                /\ Agree(disk'[m.to].log, tl[m.term], Sent(m))
<1> DEFINE new == AddEntries(disk[m.to], m.entries)
<1>1. /\ m.to \in Node /\ m.term \in Nat /\ job[m.to]["S"].pc = "idle"
      /\ IndexTypes /\ disk \in [Node -> Disks]
      /\ UNCHANGED <<nextIndex, matchIndex, committed, acked>>
  BY ElectedTypes DEF NamesLeader, Handle, ServerFree, JobIdle, LogInv, DiskInv
<1>2. /\ Refuse(m) \/ Accept(m)
      /\ m.kind = "AE" => AppendOK(tl, m) /\ ~BelowSnapshot(m)
  BY HandleCases
<1>3. NobodyWins /\ VoteFacts
  BY <1>2, HandleRoles
<1>4. PeerFacts /\ NextFacts
  BY <1>1, <1>3, PeersSame
<1>5. m.kind = "AE" /\ ReplyTo(m).success => Matches(m) /\ ~Refuse(m)
  BY <1>2 DEF ReplyTo, Refuse
<1>6. CASE /\ m.kind = "AE" => Refuse(m) \/ ~Matches(m)
           /\ UNCHANGED <<disk, commitIndex, lastApplied, applied>>
  <2>1. LogFacts(tl, tl) /\ LedgerInv(tl)'
    BY <1>3, <1>6, LogSame
  <2>2. CommitFacts(tl) /\ HistFacts
    BY <1>1, <1>6, HistorySame
  <2>3. IndexTypes'
    BY <1>1, <1>6 DEF IndexTypes
  <2>. QED  BY <1>3, <1>4, <1>5, <1>6, <2>1, <2>2, <2>3
<1>7. CASE m.kind = "AE" /\ Accept(m) /\ Matches(m) /\
           \/ /\ disk' = [disk EXCEPT ![m.to] = new]
              /\ UNCHANGED <<commitIndex, lastApplied, applied>>
           \/ /\ Advances(m.to, m)
              /\ CommitTo(m.to, new, Min({m.commit, LastLogIndex(new)}))
  <2>1. PICK d : d = new
    OBVIOUS
  <2>2. /\ d \in Disks /\ Rooted(tl, d.log) /\ Len(d.log) <= MaxLog
        /\ Agree(d.log, tl[m.term], Sent(m))
        /\ d = disk[m.to] \/ Cuts(disk[m.to].log, d.log, tl[m.term])
    BY <1>1, <1>2, <1>7, <2>1, StoredRequest
  <2>3. state'[m.to] = "Follower" /\ currentTerm'[m.to] = m.term
    BY <1>2, <1>7, HandleRoles
  <2>4. /\ disk' = [disk EXCEPT ![m.to] = d]
        /\ CommitFacts(tl) /\ HistFacts
        /\ commitIndex' \in [Node -> Nat] /\ lastApplied' \in [Node -> Nat]
    <3>1. CASE /\ disk' = [disk EXCEPT ![m.to] = new]
               /\ UNCHANGED <<commitIndex, lastApplied, applied>>
      BY <1>1, <2>1, <3>1, HistorySame DEF IndexTypes
    <3>2. CASE /\ Advances(m.to, m)
               /\ CommitTo(m.to, new, Min({m.commit, LastLogIndex(new)}))
      <4>1. CommitTo(m.to, d, Min({m.commit, LastLogIndex(d)}))
        BY <2>1, <3>2
      <4>. QED  BY <1>1, <1>2, <1>7, <2>2, <2>3, <3>2, <4>1, FollowerCommits
    <3>. QED  BY <1>7, <3>1, <3>2
  <2>5. PICK e \in elected : e.term = m.term
    BY DEF NamesLeader
  <2>6. LogFacts(tl, tl) /\ LedgerInv(tl)'
    BY <1>1, <1>3, <2>2, <2>3, <2>4, <2>5, FollowedLog
  <2>7. IndexTypes'
    BY <1>1, <2>4 DEF IndexTypes
  <2>8. disk'[m.to] = d /\ \A k \in Node : k # m.to => disk'[k] = disk[k]
    BY <1>1, <2>4
  <2>. QED  BY <1>1, <1>3, <1>4, <2>2, <2>3, <2>4, <2>6, <2>7, <2>8
<1>. QED  BY <1>6, <1>7, HandleCases

LEMMA HandleRequestFacts ==
    ASSUME NEW tl, LogInv(tl), Inv, ElectionStep, NoCompaction,
           NEW i \in Node, NEW t \in Threads, HandleRequest(i, t)
    PROVE  \E tl2 : LogStep(tl, tl2)
<1> DEFINE me == job[i][t]
           j == [me EXCEPT !.pc = "answered", !.reply = ReplyTo(me.req)]
<1>. PICK m : m = me.req
  OBVIOUS
<1>1. /\ me.pc = "waiting" /\ Handle(m) /\ SetJob(i, t, j) /\ late' = late
      /\ NamesLeader(m) /\ RequestOK(tl, m)
  BY DEF HandleRequest, Inv, RpcInv, RequestsInv, LogInv, MessageInv, InCall
<1>2. /\ NobodyWins /\ VoteFacts /\ LogFacts(tl, tl) /\ LedgerInv(tl)'
      /\ CommitFacts(tl) /\ HistFacts /\ IndexTypes' /\ PeerFacts /\ NextFacts
      /\ \A k \in Node : disk'[k] = disk[k] \/ job[k]["S"].pc = "idle"
      /\ m.kind = "AE" /\ ReplyTo(m).success =>
           /\ currentTerm'[m.to] = m.term
           /\ Agree(disk'[m.to].log, tl[m.term], Sent(m))
  BY <1>1, HandleFacts
<1>3. /\ DOMAIN me = DOMAIN IdleJob /\ me.mine \in Entries /\ JobTypes
  BY DEF Inv, RpcInv, JobsInv, LogInv, JobTypes
<1>4. /\ j.pc = "answered" /\ j.mine = me.mine /\ j.req = m /\ j.peer = me.peer
      /\ j.reply = ReplyTo(m)
  BY <1>3 DEF IdleJob
<1> HIDE DEF j
<1>5. ASSUME NEW q \in Node, NEW T \in Nat, NEW n \in Nat, AcceptedUpTo(j, q, T, n)
      PROVE  currentTerm'[q] = T /\ Agree(disk'[q].log, tl[T], n)
  <2>1. /\ m.kind = "AE" /\ ReplyTo(m).success /\ m.to = q /\ m.term = T /\ n <= Sent(m)
    BY <1>4, <1>5 DEF AcceptedUpTo
  <2>2. Agree(disk'[q].log, tl[T], Sent(m)) /\ currentTerm'[q] = T
    BY <1>2, <2>1
  <2>3. disk'[q].log \in Seq(Entries) /\ Len(tl[T]) \in Nat
    BY <1>2, DiskFacts, LedgerTypes DEF LogFacts, LogInv
  <2>. QED  BY <2>1, <2>2, <2>3, AgreeLess
<1>6. InCall(me)
  BY <1>1 DEF InCall
<1>7. t = "S" => disk'[i] = disk[i]
  BY <1>1, <1>2
<1>8. AcceptFacts(tl) /\ MessageFacts(tl) /\ WorkFacts /\ JobTypes'
  BY SMTT(30), <1>1, <1>2, <1>3, <1>4, <1>5, <1>6, <1>7, JobStep
<1>. QED  BY <1>2, <1>8 DEF LogStep, LogChange

LEMMA HandleLateFacts ==
    ASSUME NEW tl, LogInv(tl), Inv, ElectionStep, NoCompaction,
           NEW m \in late, HandleLate(m)
    PROVE  \E tl2 : LogStep(tl, tl2)
<1>1. /\ Handle(m) /\ late' \subseteq late /\ job' = job
      /\ NamesLeader(m) /\ RequestOK(tl, m)
  BY DEF HandleLate, Inv, RpcInv, RequestsInv, LogInv, MessageInv
<1>2. /\ NobodyWins /\ VoteFacts /\ LogFacts(tl, tl) /\ LedgerInv(tl)'
      /\ CommitFacts(tl) /\ HistFacts /\ IndexTypes' /\ PeerFacts /\ NextFacts
      /\ \A k \in Node : disk'[k] = disk[k] \/ job[k]["S"].pc = "idle"
  BY <1>1, HandleFacts
<1>3. AcceptFacts(tl) /\ MessageFacts(tl)
  BY <1>1 DEF AcceptFacts, MessageFacts
<1>4. WorkFacts /\ JobTypes'
  BY <1>1, <1>2 DEF WorkFacts, LogInv, JobTypes
<1>. QED  BY <1>2, <1>3, <1>4 DEF LogStep, LogChange

-----------------------------------------------------------------------------
(***************************************************************************)
(* The invariant of the log.                                               *)
(***************************************************************************)

LEMMA NextFactsHold ==
    ASSUME NEW tl, LogInv(tl), Inv, ElectionStep, NoCompaction, AppendsFromStart',
           \A i \in Node : ClientResult(i) => MineAt(i), [Next]_vars
    PROVE  \E tl2 : LogStep(tl, tl2)
<1>1. CASE UNCHANGED vars
  <2>1. UNCHANGED electionVars /\ UNCHANGED logVars
    BY <1>1 DEF vars
  <2>2. NobodyWins /\ VoteFacts
    BY <2>1, VotesSame DEF NobodyWins, electionVars
  <2>. QED  BY <2>1, <2>2, VoterStep
<1>2. ASSUME NEW i \in Node, Campaign(i) \/ AskVote(i) \/ LoseVoteCall(i)
      PROVE  \E tl2 : LogStep(tl, tl2)
  BY <1>2, CampaignFacts, AskVoteFacts, LoseVoteCallFacts
<1>3. ASSUME NEW i \in Node, CountVote(i) \/ Vote(i)
      PROVE  \E tl2 : LogStep(tl, tl2)
  BY <1>3, CountVoteFacts, VoteCallFacts
<1>4. ASSUME NEW m \in stray, VoteLate(m)
      PROVE  \E tl2 : LogStep(tl, tl2)
  BY <1>4, VoteLateFacts
<1>5. ASSUME NEW i \in Node, BeginHeartbeat(i) \/ ClientAppend(i)
      PROVE  \E tl2 : LogStep(tl, tl2)
  BY <1>5, BeginHeartbeatFacts, ClientAppendFacts
<1>6. ASSUME NEW i \in Node, NEW t \in Threads, CheckPeer(i, t) \/ SendRequest(i, t)
      PROVE  \E tl2 : LogStep(tl, tl2)
  BY <1>6, CheckPeerFacts, SendRequestFacts
<1>7. ASSUME NEW i \in Node, NEW t \in Threads, RequestFails(i, t) \/ ReceiveReply(i, t)
      PROVE  \E tl2 : LogStep(tl, tl2)
  BY <1>7, RequestFailsFacts, ReceiveReplyFacts
<1>8. ASSUME NEW i \in Node, NEW t \in Threads, HandleRequest(i, t)
      PROVE  \E tl2 : LogStep(tl, tl2)
  BY <1>8, HandleRequestFacts
<1>9. ASSUME NEW m \in late, HandleLate(m)
      PROVE  \E tl2 : LogStep(tl, tl2)
  BY <1>9, HandleLateFacts
<1>10. ASSUME NEW i \in Node, NEW t \in Threads, EndRound(i, t)
       PROVE  \E tl2 : LogStep(tl, tl2)
  BY <1>10, EndRoundFacts
<1>11. ASSUME NEW i \in Node, ClientResult(i) \/ Crash(i)
       PROVE  \E tl2 : LogStep(tl, tl2)
  BY <1>11, ClientResultFacts, CrashFacts
<1>. QED
  BY <1>1, <1>2, <1>3, <1>4, <1>5, <1>6, <1>7, <1>8, <1>9, <1>10, <1>11 DEF Next

\* At the start every log and every ledger is empty.
LEMMA LogInvInit == Init => \E tl : LogInv(tl)
<1>. SUFFICES ASSUME Init PROVE \E tl : LogInv(tl)
  OBVIOUS
<1>. PICK tl : tl = [t \in Nat |-> <<>>]
  OBVIOUS
<1>1. /\ disk = [i \in Node |-> EmptyDisk]
      /\ commitIndex = [i \in Node |-> 0]
      /\ lastApplied = [i \in Node |-> 0]
      /\ nextIndex = [i \in Node |-> [j \in Node |-> 1]]
      /\ matchIndex = [i \in Node |-> [j \in Node |-> 0]]
      /\ job = [i \in Node |-> [t \in Threads |-> IdleJob]]
      /\ late = {} /\ committed = {} /\ applied = {} /\ acked = {}
      /\ \A i \in Node : state[i] = "Follower"
  BY DEF Init, ReplicationInit, ElectionInit
<1>2. /\ <<>> \in Seq(Entries) /\ Len(<<>>) = 0 /\ DOMAIN <<>> = {} /\ MaxLog \in Nat
  BY EmptySeq, LenProperties, ReplicationAssumption
<1>3. EmptyDisk \in Disks /\ EmptyDisk.log = <<>>
  BY <1>2 DEF EmptyDisk, Disks
<1>4. \A i \in Node, t \in Threads : job[i][t] = IdleJob
  BY <1>1
<1>5. LedgerInv(tl)
  BY <1>2 DEF LedgerInv, Ledgers, Rooted
<1>6. DiskInv(tl)
  BY <1>1, <1>2, <1>3 DEF DiskInv, Rooted
<1>7. MatchInv(tl) /\ ChoosableInv(tl) /\ NextInv
  BY <1>1, <1>4, IdleJobFacts DEF MatchInv, ChoosableInv, NextInv
<1>8. MessageInv(tl) /\ CommittedInv(tl) /\ TermCommitInv
  BY <1>1, <1>4, IdleJobFacts DEF MessageInv, CommittedInv, TermCommitInv
<1>9. CommitIndexInv /\ HistInv
  BY <1>1, <1>2, <1>3 DEF CommitIndexInv, KnowsCommitted, HistInv, AckedIsCommitted
<1>10. IndexTypes /\ JobTypes
  BY <1>1, <1>4, IdleJobFacts DEF IndexTypes, JobTypes
<1>. QED  BY <1>5, <1>6, <1>7, <1>8, <1>9, <1>10 DEF LogInv

\* What the two hypotheses of the theorems below come to for every reachable state.
LogIsSound == WorkInv /\ \E tl : LogInv(tl)

LEMMA WorkInvInit == Init => WorkInv
<1>. SUFFICES ASSUME Init PROVE WorkInv
  OBVIOUS
<1>1. \A i \in Node, t \in Threads : job[i][t] = IdleJob
  BY DEF Init, ReplicationInit
<1>. QED  BY <1>1, IdleJobFacts DEF WorkInv, Places, Threads

LEMMA LogIsSoundStep ==
    ASSUME NoCompaction, Inv, LogIsSound, AppendsFromStart', [Next]_vars
    PROVE  LogIsSound'
<1>1. ElectionStep
  BY NextIsElectionStep
<1>2. PICK tl : LogInv(tl)
  BY DEF LogIsSound
<1>3. \A i \in Node : ClientResult(i) => MineAt(i)
  BY DEF ClientResult, LogIsSound, WorkInv
<1>4. PICK tl2 : LogStep(tl, tl2)
  BY <1>1, <1>2, <1>3, NextFactsHold
<1>5. LogInv(tl2)'
  BY <1>1, <1>2, <1>4, LogInvStep DEF LogStep
<1>6. WorkInv'
  BY <1>4, WorkStep DEF LogIsSound, LogStep
<1>. QED  BY <1>5, <1>6 DEF LogIsSound

LEMMA LogIsSoundAlways ==
    ASSUME NoCompaction
    PROVE  Spec /\ []AppendsFromStart => []LogIsSound
<1>1. Init => LogIsSound
  BY LogInvInit, WorkInvInit DEF LogIsSound
<1>2. Inv /\ LogIsSound /\ AppendsFromStart' /\ [Next]_vars => LogIsSound'
  BY LogIsSoundStep
<1>. QED  BY <1>1, <1>2, InvIsInvariant, PTL DEF Spec

-----------------------------------------------------------------------------
(***************************************************************************)
(* The properties follow from the invariant.                               *)
(***************************************************************************)

LEMMA TypeOKHolds ==
    ASSUME NEW tl, LogInv(tl), WorkInv, Inv
    PROVE  TypeOK
<1>1. /\ ElectionTypeOK /\ IndexTypes /\ JobTypes /\ JobsInv /\ RequestsInv
  BY DEF Inv, ElectionInv, RpcInv, LogInv
<1>2. ASSUME NEW i \in Node
      PROVE  /\ disk[i].log \in Seq(Entries)
             /\ disk[i].snapIndex \in Nat /\ disk[i].snapTerm \in Nat
  BY DiskTypes, DiskFacts DEF LogInv
<1>3. ASSUME NEW i \in Node, NEW t \in Threads
      PROVE  /\ job[i][t].pc \in {"idle", "next", "send", "waiting", "answered", "result"}
             /\ job[i][t].todo \subseteq Node \ {i}
             /\ job[i][t].pc \in {"waiting", "answered"} =>
                  job[i][t].req.from = i /\ job[i][t].req.kind \in {"AE", "IS"}
             /\ job[i][t].mine \in Entries
  BY <1>1 DEF JobTypes, JobsInv, LogInv, WorkInv, Places, MessageInv, InCall, RequestOK,
              AppendOK
<1>4. \A m \in late : m.kind \in {"AE", "IS"} /\ m.from # m.to
  BY <1>1 DEF RequestsInv, NamesLeader, LogInv, MessageInv, RequestOK, AppendOK
<1>5. \A c \in committed : c.entry \in Entries /\ c.in \in Nat
  BY DEF LogInv, CommittedInv, CommittedOK
<1>6. /\ \A a \in applied : a.entry \in Entries /\ a.at \in Nat
      /\ acked \subseteq Entries
  BY <1>5 DEF LogInv, HistInv, AckedIsCommitted
<1>. QED  BY <1>1, <1>2, <1>3, <1>4, <1>5, <1>6 DEF TypeOK, IndexTypes

\* An entry at its own index in a log without a snapshot is held.
LEMMA HoldsAt ==
    ASSUME NEW d \in Disks, NEW e, e.index \in DOMAIN d.log, d.log[e.index] = e
    PROVE  Holds(d, e)
<1>1. e.index \in Int
  BY DiskFacts
<1>. QED  BY <1>1, DiskFacts DEF Holds

LEMMA LogIsContiguousHolds ==
    ASSUME NEW tl, LogInv(tl)
    PROVE  LogIsContiguous
<1>. SUFFICES ASSUME NEW i \in Node, NEW p \in DOMAIN disk[i].log
              PROVE  disk[i].log[p].index = disk[i].snapIndex + p
  BY DEF LogIsContiguous
<1>1. disk[i] \in Disks /\ Rooted(tl, disk[i].log) /\ p \in Nat
  BY DiskTypes DEF LogInv
<1>2. disk[i].log[p].index = p /\ disk[i].snapIndex = 0
  BY <1>1, DiskFacts DEF Rooted
<1>. QED  BY <1>1, <1>2

LEMMA LogMatchingHolds ==
    ASSUME NEW tl, LogInv(tl)
    PROVE  LogMatching
<1>. SUFFICES ASSUME NEW i \in Node, NEW j \in Node,
                     NEW p \in DOMAIN disk[i].log, NEW q \in DOMAIN disk[j].log,
                     disk[i].log[p] = disk[j].log[q],
                     NEW k \in 1 .. Min({p, q}) - 1
              PROVE  disk[i].log[p - k] = disk[j].log[q - k]
  BY DEF LogMatching
<1>1. /\ disk[i].log \in Seq(Entries) /\ Rooted(tl, disk[i].log)
      /\ disk[j].log \in Seq(Entries) /\ Rooted(tl, disk[j].log)
      /\ p \in Nat /\ q \in Nat /\ tl \in Ledgers
  BY DiskTypes DEF LogInv, LedgerInv
<1>2. p = q
  BY <1>1 DEF Rooted
<1>3. Agree(disk[i].log, disk[j].log, p)
  BY <1>1, <1>2, RootedMatch
<1>4. p - k \in 1 .. p
  <2>1. Min({p, q}) = p
    BY <1>1, <1>2, MinOfTwo
  <2>. QED  BY <1>1, <2>1
<1>. QED  BY <1>2, <1>3, <1>4 DEF Agree

LEMMA LeaderCompletenessHolds ==
    ASSUME NEW tl, LogInv(tl), Inv
    PROVE  LeaderCompleteness
<1>. SUFFICES ASSUME NEW c \in committed, NEW i \in Node,
                     state[i] = "Leader", currentTerm[i] >= c.in
              PROVE  Holds(disk[i], c.entry)
  BY DEF LeaderCompleteness
<1>1. /\ LedgerInv(tl) /\ disk[i] \in Disks /\ disk[i].log = tl[currentTerm[i]]
      /\ DOMAIN disk[i].log = 1 .. Len(disk[i].log) /\ Len(disk[i].log) \in Nat
  BY DiskTypes DEF LogInv, DiskInv
<1>2. PICK n \in Nat : /\ c.entry.index \in 1 .. n /\ Chosen(tl, c.in, n)
                       /\ tl[c.in][c.entry.index] = c.entry
  BY DEF LogInv, CommittedInv, CommittedOK
<1>3. c.in \in Nat
  BY DEF LogInv, CommittedInv, CommittedOK
<1>4. PICK e \in elected : e.leader = i /\ e.term = currentTerm[i]
  BY DEF Inv, ElectionInv, LeaderInv
<1>5. Agree(tl[c.in], disk[i].log, n)
  <2>1. e.term \in Nat
    BY ElectedTypes
  <2>. QED  BY <1>1, <1>2, <1>3, <1>4, <2>1, ChosenIsLed
<1>6. c.entry.index \in DOMAIN disk[i].log /\ disk[i].log[c.entry.index] = c.entry
  BY <1>1, <1>2, <1>5 DEF Agree
<1>. QED  BY <1>1, <1>6, HoldsAt

LEMMA MajorityGrows ==
    ASSUME NEW Q \in SUBSET Node, NEW S \in SUBSET Node, IsMajority(Q), Q \subseteq S
    PROVE  IsMajority(S)
<1>1. IsFiniteSet(S) /\ IsFiniteSet(Q) /\ IsFiniteSet(Node)
  BY FS_Subset, ElectionAssumption
<1>2. Cardinality(Q) <= Cardinality(S) /\ Cardinality(Q) \in Nat /\ Cardinality(S) \in Nat
      /\ Cardinality(Node) \in Nat
  BY <1>1, FS_Subset, FS_CardinalityType
<1>. QED  BY <1>2 DEF IsMajority

LEMMA MajorityStoredHolds ==
    ASSUME NEW tl, LogInv(tl), Inv
    PROVE  MajorityStored
<1>. SUFFICES ASSUME NEW c \in committed
              PROVE  IsMajority({j \in Node : Holds(disk[j], c.entry)})
  BY DEF MajorityStored
<1>1. PICK n \in Nat : /\ c.entry.index \in 1 .. n /\ Chosen(tl, c.in, n)
                       /\ tl[c.in][c.entry.index] = c.entry
  BY DEF LogInv, CommittedInv, CommittedOK
<1>2. PICK Q \in SUBSET Node : IsMajority(Q) /\ \A j \in Q : Has(disk[j].log, n, c.in)
  BY <1>1 DEF Chosen
<1>3. ASSUME NEW j \in Q
      PROVE  Holds(disk[j], c.entry)
  <2>1. /\ disk[j] \in Disks /\ Rooted(tl, disk[j].log)
        /\ DOMAIN disk[j].log = 1 .. Len(disk[j].log) /\ Len(disk[j].log) \in Nat
    BY DiskTypes DEF LogInv
  <2>2. Agree(tl[c.in], disk[j].log, n)
    BY <1>2, <2>1 DEF Has, Rooted
  <2>3. c.entry.index \in DOMAIN disk[j].log /\ disk[j].log[c.entry.index] = c.entry
    BY <1>1, <2>1, <2>2 DEF Agree
  <2>. QED  BY <2>1, <2>3, HoldsAt
<1>. QED  BY <1>2, <1>3, MajorityGrows

\* Two committed entries at one index are the same.
LEMMA CommittedAgree ==
    ASSUME NEW tl, LogInv(tl), Inv, NEW x \in committed, NEW y \in committed,
           x.entry.index = y.entry.index, x.in <= y.in
    PROVE  x.entry = y.entry
<1>1. PICK n \in Nat : /\ x.entry.index \in 1 .. n /\ Chosen(tl, x.in, n)
                       /\ tl[x.in][x.entry.index] = x.entry
  BY DEF LogInv, CommittedInv, CommittedOK
<1>2. PICK k \in Nat : Chosen(tl, y.in, k) /\ tl[y.in][y.entry.index] = y.entry
  BY DEF LogInv, CommittedInv, CommittedOK
<1>3. x.in \in Nat /\ y.in \in Nat /\ LedgerInv(tl)
  BY DEF LogInv, CommittedInv, CommittedOK
<1>4. PICK e \in elected : e.term = y.in
  <2>1. tl[y.in] # <<>>
    BY <1>2, EmptySeq DEF Chosen, Has
  <2>. QED  BY <1>3, <2>1 DEF LedgerInv
<1>5. Agree(tl[x.in], tl[y.in], n)
  BY <1>1, <1>3, <1>4, ChosenIsLed
<1>. QED  BY <1>1, <1>2, <1>5 DEF Agree

LEMMA StateMachineSafetyHolds ==
    ASSUME NEW tl, LogInv(tl), Inv
    PROVE  StateMachineSafety
<1>. SUFFICES ASSUME NEW a \in applied, NEW b \in applied
              PROVE  /\ a.entry.index = a.at
                     /\ a.at = b.at => a.entry = b.entry
  BY DEF StateMachineSafety
<1>1. a.entry.index = a.at /\ b.entry.index = b.at
  BY DEF LogInv, HistInv
<1>2. PICK x \in committed, y \in committed : x.entry = a.entry /\ y.entry = b.entry
  BY DEF LogInv, HistInv
<1>3. x.in <= y.in \/ y.in <= x.in
  <2>1. x.in \in Nat /\ y.in \in Nat
    BY DEF LogInv, CommittedInv, CommittedOK
  <2>. QED  BY <2>1
<1>. QED  BY <1>1, <1>2, <1>3, CommittedAgree

LEMMA MatchIndexIsTrueHolds ==
    ASSUME NEW tl, LogInv(tl), Inv
    PROVE  MatchIndexIsTrue
<1>. SUFFICES ASSUME NEW i \in Node, NEW j \in Node, state[i] = "Leader",
                     currentTerm[j] = currentTerm[i], NEW p \in DOMAIN disk[i].log,
                     disk[i].log[p].index <= matchIndex[i][j]
              PROVE  Holds(disk[j], disk[i].log[p])
  BY DEF MatchIndexIsTrue
<1>1. /\ disk[i].log = tl[currentTerm[i]] /\ Rooted(tl, disk[i].log)
      /\ DOMAIN disk[i].log = 1 .. Len(disk[i].log) /\ Len(disk[i].log) \in Nat
      /\ disk[j] \in Disks /\ DOMAIN disk[j].log = 1 .. Len(disk[j].log)
      /\ Len(disk[j].log) \in Nat
  BY DiskTypes DEF LogInv, DiskInv
<1>2. disk[i].log[p].index = p /\ p \in Nat /\ p >= 1
  BY <1>1 DEF Rooted
<1>3. PICK n \in Nat : n = matchIndex[i][j]
  BY DEF LogInv, IndexTypes
<1>4. Agree(disk[j].log, tl[currentTerm[i]], n)
  <2>1. Stored(tl, currentTerm[i], j, n)
    BY <1>3 DEF LogInv, MatchInv
  <2>2. n > 0
    BY <1>2, <1>3
  <2>. QED  BY <2>1, <2>2 DEF Stored
<1>5. p \in DOMAIN disk[j].log /\ disk[j].log[p] = disk[i].log[p]
  BY <1>1, <1>2, <1>3, <1>4 DEF Agree
<1>. QED  BY <1>1, <1>2, <1>5, HoldsAt

-----------------------------------------------------------------------------
(***************************************************************************)
(* Requests start within the log while the two threads of a node take      *)
(* turns: two refusals are never counted for one position.                 *)
(***************************************************************************)

\* No node replicates with both of its threads at once.
ThreadsTakeTurns == \A i \in Node : JobIdle(i, "H") \/ JobIdle(i, "S")

\* nextIndex_ still is what the request was built from, and what starts at the
\* beginning of the log is not refused for its previous entry.
CallOK(me, i) ==
    me.req.kind = "AE" =>
        /\ me.req.prevIndex \in Nat
        /\ me.req.prevIndex = 0 => me.req.prevTerm = 0
        /\ state[i] = "Leader" /\ currentTerm[i] = me.req.term =>
             nextIndex[i][me.peer] = me.req.prevIndex + 1
        /\ me.pc = "answered" /\ ~me.reply.success /\ me.reply.term <= me.req.term =>
             me.req.prevIndex # 0

TurnsInv ==
    /\ \A i, j \in Node : nextIndex[i][j] >= 1
    /\ \A i \in Node, t \in Threads : InCall(job[i][t]) => CallOK(job[i][t], i)

LEMMA CallKept ==
    ASSUME Inv, ElectionStep, NEW i \in Node, NEW me, NamesLeader(me.req), CallOK(me, i),
           nextIndex'[i] = nextIndex[i] \/ Wins(i)
    PROVE  CallOK(me, i)'
<1>. SUFFICES ASSUME state'[i] = "Leader", currentTerm'[i] = me.req.term
              PROVE  nextIndex'[i][me.peer] = nextIndex[i][me.peer]
                     /\ state[i] = "Leader" /\ currentTerm[i] = me.req.term
  BY DEF CallOK
<1>1. StepFacts
  BY FactsNext DEF ElectionStep, Inv, ElectionInv
<1>2. PICK e \in elected : e.term = me.req.term
  BY DEF NamesLeader
<1>3. ~Wins(i)
  <2>. SUFFICES ASSUME Wins(i) PROVE FALSE
    OBVIOUS
  <2>1. currentTerm[i] = me.req.term
    BY DEF Wins
  <2>. QED  BY <1>2, <2>1, WinnerIsFirst DEF Inv
<1>4. state[i] = "Leader" /\ currentTerm'[i] = currentTerm[i]
  BY <1>1, <1>3 DEF StepFacts
<1>. QED  BY <1>3, <1>4

\* A step that leaves the calls in flight and nextIndex_ alone.
LEMMA CallsKept ==
    ASSUME Inv, ElectionStep, TurnsInv, \A i, j \in Node : nextIndex'[i][j] >= 1,
           \A i \in Node, t \in Threads : InCall(job'[i][t]) =>
             /\ job'[i][t] = job[i][t]
             /\ nextIndex'[i] = nextIndex[i] \/ Wins(i)
    PROVE  TurnsInv'
<1>1. ASSUME NEW i \in Node, NEW t \in Threads, InCall(job'[i][t])
      PROVE  CallOK(job[i][t], i)'
  <2>1. PICK me : me = job[i][t]
    OBVIOUS
  <2>2. me = job'[i][t] /\ InCall(me) /\ (nextIndex'[i] = nextIndex[i] \/ Wins(i))
    BY <1>1, <2>1
  <2>3. CallOK(me, i) /\ NamesLeader(me.req)
    BY <2>1, <2>2 DEF TurnsInv, Inv, RpcInv, RequestsInv, InCall
  <2>4. CallOK(me, i)'
    BY <2>2, <2>3, CallKept
  <2>. QED  BY <2>2, <2>4 DEF CallOK
<1>. QED  BY <1>1 DEF TurnsInv, InCall

\* One thread leaves its call, or was in none.
LEMMA CallLeft ==
    ASSUME Inv, ElectionStep, TurnsInv, NEW i \in Node, NEW t \in Threads, NEW j,
           SetJob(i, t, j), ~InCall(j), nextIndex' = nextIndex
    PROVE  TurnsInv'
<1>1. /\ job'[i][t] = j
      /\ \A k \in Node, u \in Threads : k # i \/ u # t => job'[k][u] = job[k][u]
  BY JobAfter DEF Inv, RpcInv
<1>2. \A k, l \in Node : nextIndex'[k][l] >= 1
  BY DEF TurnsInv
<1>. QED  BY <1>1, <1>2, CallsKept

LEMMA NextPeerLeaves ==
    ASSUME Inv, ElectionStep, TurnsInv, NEW i \in Node, NEW t \in Threads,
           NextPeer(i, t), nextIndex' = nextIndex
    PROVE  TurnsInv'
<1> DEFINE j == [IdleJob EXCEPT !.pc = "next", !.todo = job[i][t].todo,
                                !.mine = job[i][t].mine]
<1>1. SetJob(i, t, j)
  BY DEF NextPeer
<1>2. ~InCall(j)
  BY DEF InCall, IdleJob
<1> HIDE DEF j
<1>. QED  BY <1>1, <1>2, CallLeft

LEMMA TurnsWins ==
    ASSUME NEW tl, LogInv(tl), Inv, ElectionStep, TurnsInv, NEW i \in Node, CountVote(i)
    PROVE  TurnsInv'
<1>1. job' = job
  BY DEF CountVote
<1>2. IndexTypes
  BY DEF LogInv
<1>3. CASE state'[i] = "Leader" /\ state[i] # "Leader"
  <2>1. nextIndex' = [nextIndex EXCEPT ![i] = [j \in Node |-> LastLogIndex(disk[i]) + 1]]
    BY <1>3 DEF CountVote
  <2>2. LastLogIndex(disk[i]) \in Nat
    <3>1. Len(disk[i].log) \in Nat /\ LastLogIndex(disk[i]) = Len(disk[i].log)
      BY DiskTypes, LastFacts DEF LogInv
    <3>. QED  BY <3>1
  <2>3. Wins(i)
    <3>1. StepFacts
      BY FactsNext DEF ElectionStep, Inv, ElectionInv
    <3>. QED  BY <1>3, <3>1 DEF StepFacts
  <2>4. \A k \in Node : k # i => nextIndex'[k] = nextIndex[k]
    BY <1>2, <2>1 DEF IndexTypes
  <2>5. \A j \in Node : nextIndex'[i][j] >= 1
    BY <1>2, <2>1, <2>2 DEF IndexTypes
  <2>6. \A k, j \in Node : nextIndex'[k][j] >= 1
    BY <2>4, <2>5 DEF TurnsInv
  <2>. QED  BY <1>1, <2>3, <2>4, <2>6, CallsKept
<1>4. CASE ~(state'[i] = "Leader" /\ state[i] # "Leader")
  <2>1. nextIndex' = nextIndex
    BY <1>4 DEF CountVote
  <2>2. \A k, j \in Node : nextIndex'[k][j] >= 1
    BY <2>1 DEF TurnsInv
  <2>. QED  BY <1>1, <2>1, <2>2, CallsKept
<1>. QED  BY <1>3, <1>4

LEMMA TurnsCrash ==
    ASSUME Inv, ElectionStep, TurnsInv, IndexTypes, NEW i \in Node, Crash(i)
    PROVE  TurnsInv'
<1>1. /\ nextIndex' = [nextIndex EXCEPT ![i] = [j \in Node |-> 1]]
      /\ job' = [job EXCEPT ![i] = [t \in Threads |-> IdleJob]]
  BY DEF Crash
<1>2. \A k \in Node, t \in Threads : job'[k][t] = IF k = i THEN IdleJob ELSE job[k][t]
  BY <1>1 DEF Inv, RpcInv, JobsInv
<1>3. \A k \in Node : k # i => nextIndex'[k] = nextIndex[k]
  BY <1>1 DEF IndexTypes
<1>4. \A k, j \in Node : nextIndex'[k][j] >= 1
  <2>1. \A j \in Node : nextIndex'[i][j] = 1
    BY <1>1 DEF IndexTypes
  <2>. QED  BY <1>3, <2>1 DEF TurnsInv
<1>. QED  BY <1>2, <1>3, <1>4, IdleJobFacts, CallsKept

\* One thread makes its call, or the call gets its answer.
LEMMA CallChanged ==
    ASSUME Inv, ElectionStep, TurnsInv, NEW i \in Node, NEW t \in Threads, NEW j,
           SetJob(i, t, j), CallOK(j, i)', nextIndex' = nextIndex
    PROVE  TurnsInv'
<1>1. /\ job'[i][t] = j
      /\ \A k \in Node, u \in Threads : k # i \/ u # t => job'[k][u] = job[k][u]
  BY JobAfter DEF Inv, RpcInv
<1>2. ASSUME NEW k \in Node, NEW u \in Threads, InCall(job'[k][u])
      PROVE  CallOK(job[k][u], k)'
  <2>1. CASE k = i /\ u = t
    BY <1>1, <2>1 DEF CallOK
  <2>2. CASE k # i \/ u # t
    <3>1. PICK me : me = job[k][u]
      OBVIOUS
    <3>2. me = job'[k][u] /\ InCall(me)
      BY <1>1, <1>2, <2>2, <3>1
    <3>3. CallOK(me, k) /\ NamesLeader(me.req)
      BY <3>1, <3>2 DEF TurnsInv, Inv, RpcInv, RequestsInv, InCall
    <3>4. CallOK(me, k)'
      BY <3>3, CallKept
    <3>. QED  BY <3>2, <3>4 DEF CallOK
  <2>. QED  BY <2>1, <2>2
<1>. QED  BY <1>2 DEF TurnsInv, InCall

LEMMA TurnsSend ==
    ASSUME NEW tl, LogInv(tl), Inv, ElectionStep, TurnsInv,
           NEW i \in Node, NEW t \in Threads, SendRequest(i, t)
    PROVE  TurnsInv'
<1> DEFINE me == job[i][t]
           m == IF me.kind = "IS" THEN SnapshotRequest(i, me.peer)
                                  ELSE AppendRequest(i, me.peer)
           j == [me EXCEPT !.pc = "waiting", !.req = m]
<1>1. /\ DOMAIN me = DOMAIN IdleJob /\ me.peer \in Node
      /\ UNCHANGED <<nextIndex, electionVars>>
  BY DEF Inv, RpcInv, JobsInv, SendRequest
<1>2. CASE NextPeer(i, t)
  BY <1>1, <1>2, NextPeerLeaves
<1>3. CASE SetJob(i, t, j)
  <2>1. j.pc = "waiting" /\ j.req = m /\ j.peer = me.peer
    BY <1>1 DEF IdleJob
  <2>2. ASSUME m.kind = "AE"
        PROVE  /\ m.prevIndex \in Nat
               /\ m.prevIndex = 0 => m.prevTerm = 0
               /\ nextIndex[i][me.peer] = m.prevIndex + 1
    <3>1. /\ m.prevIndex = nextIndex[i][me.peer] - 1
          /\ m.prevTerm = LogTermAt(disk[i], nextIndex[i][me.peer] - 1)
      BY <2>2 DEF AppendRequest, SnapshotRequest
    <3>2. nextIndex[i][me.peer] \in Nat /\ nextIndex[i][me.peer] >= 1
      BY <1>1 DEF TurnsInv, LogInv, IndexTypes
    <3>3. LogTermAt(disk[i], 0) = 0
      BY DiskTypes, DiskFacts DEF LogInv
    <3> HIDE DEF m
    <3>. QED  BY <3>1, <3>2, <3>3
  <2> HIDE DEF m, j
  <2>3. PICK x : x = j
    OBVIOUS
  <2>4. PICK r, p : r = m /\ p = me.peer
    OBVIOUS
  <2>5. /\ x.pc = "waiting" /\ x.req = r /\ x.peer = p
        /\ r.kind = "AE" => /\ r.prevIndex \in Nat
                            /\ r.prevIndex = 0 => r.prevTerm = 0
                            /\ nextIndex'[i][p] = r.prevIndex + 1
    BY <1>1, <2>1, <2>2, <2>3, <2>4
  <2>6. CallOK(x, i)'
    BY <2>5 DEF CallOK
  <2>. QED  BY <1>1, <1>3, <2>3, <2>6, CallChanged
<1>. QED  BY <1>2, <1>3 DEF SendRequest

LEMMA TurnsHandle ==
    ASSUME NEW tl, LogInv(tl), Inv, ElectionStep, TurnsInv,
           NEW i \in Node, NEW t \in Threads, HandleRequest(i, t)
    PROVE  TurnsInv'
<1> DEFINE me == job[i][t]
           j == [me EXCEPT !.pc = "answered", !.reply = ReplyTo(me.req)]
<1>. PICK m : m = me.req
  OBVIOUS
<1>1. /\ me.pc = "waiting" /\ Handle(m) /\ SetJob(i, t, j) /\ nextIndex' = nextIndex
      /\ NamesLeader(m) /\ RequestOK(tl, m) /\ CallOK(me, i)
      /\ DOMAIN me = DOMAIN IdleJob
  BY DEF HandleRequest, Handle, Inv, RpcInv, RequestsInv, JobsInv, LogInv, MessageInv, InCall,
     TurnsInv
<1>2. /\ j.pc = "answered" /\ j.req = m /\ j.peer = me.peer /\ j.reply = ReplyTo(m)
  BY <1>1 DEF IdleJob
<1> HIDE DEF j
<1>3. ASSUME m.kind = "AE", m.prevIndex = 0, ~ReplyTo(m).success,
             ReplyTo(m).term <= m.term
      PROVE  FALSE
  <2>1. /\ m.to \in Node /\ m.term \in Nat /\ currentTerm[m.to] \in Nat
    BY <1>1, ElectedTypes DEF NamesLeader, Inv, ElectionInv, ElectionTypeOK
  <2>2. Matches(m)
    <3>1. m.prevTerm = 0
      BY <1>1, <1>3 DEF CallOK
    <3>2. HasLogAt(disk[m.to], 0) /\ LogTermAt(disk[m.to], 0) = 0
      BY <2>1, DiskTypes, DiskFacts DEF LogInv
    <3>. QED  BY <1>3, <3>1, <3>2 DEF Matches
  <2>3. ReplyTo(m).term = currentTerm[m.to] /\ Stale(m)
    BY <1>3, <2>2 DEF ReplyTo
  <2>. QED  BY <1>3, <2>1, <2>3 DEF Stale
<1>4. TurnsInv'
  <2>1. PICK x, y : x = me /\ y = j
    OBVIOUS
  <2>2. CallOK(x, i) /\ NamesLeader(x.req)
    BY <1>1, <2>1
  <2>3. CallOK(x, i)'
    BY <1>1, <2>2, CallKept
  <2>4. /\ y.pc = "answered" /\ y.req = x.req /\ y.peer = x.peer
        /\ x.req.kind = "AE" /\ ~y.reply.success /\ y.reply.term <= x.req.term
             => x.req.prevIndex # 0
    BY <1>2, <1>3, <2>1
  <2>5. CallOK(y, i)'
    BY <2>3, <2>4 DEF CallOK
  <2>. QED  BY <1>1, <2>1, <2>5, CallChanged
<1>. QED  BY <1>4

LEMMA TurnsReply ==
    ASSUME NEW tl, LogInv(tl), Inv, ElectionStep, TurnsInv, ThreadsTakeTurns,
           NEW i \in Node, NEW t \in Threads, ReceiveReply(i, t)
    PROVE  TurnsInv'
<1>1. job[i][t].pc = "answered" /\ NextPeer(i, t) /\ InCall(job[i][t])
  BY DEF ReceiveReply, InCall
<1>. PICK p \in Node : p = job[i][t].peer
  <2>1. job[i][t].req.to = job[i][t].peer /\ NamesLeader(job[i][t].req)
    BY <1>1 DEF LogInv, MessageInv, Inv, RpcInv, RequestsInv, InCall
  <2>. QED  BY <2>1 DEF NamesLeader
<1>2. CASE UNCHANGED <<nextIndex, matchIndex>>
  BY <1>1, <1>2, NextPeerLeaves
<1>3. ASSUME NEW n \in Nat, n >= 1, nextIndex' = [nextIndex EXCEPT ![i][p] = n]
      PROVE  TurnsInv'
  <2>1. \A k \in Node : k # i => nextIndex'[k] = nextIndex[k]
    BY <1>3 DEF LogInv, IndexTypes
  <2>2. \A k, l \in Node : nextIndex'[k][l] >= 1
    BY <1>3 DEF LogInv, IndexTypes, TurnsInv
  <2>3. \A u \in Threads : ~InCall(job'[i][u])
    <3>1. \A u \in Threads : u # t => job'[i][u] = job[i][u] /\ job[i][u].pc = "idle"
      BY <1>1, JobAfter DEF NextPeer, ThreadsTakeTurns, JobIdle, Threads, Inv, RpcInv
    <3>2. job'[i][t].pc = "next"
      <4> DEFINE j == [IdleJob EXCEPT !.pc = "next", !.todo = job[i][t].todo,
                                      !.mine = job[i][t].mine]
      <4>1. SetJob(i, t, j)
        BY <1>1 DEF NextPeer
      <4>2. j.pc = "next"
        BY DEF IdleJob
      <4> HIDE DEF j
      <4>. QED  BY <4>1, <4>2, JobAfter DEF Inv, RpcInv
    <3>. QED  BY <3>1, <3>2 DEF InCall
  <2>4. \A k \in Node, u \in Threads : k # i => job'[k][u] = job[k][u]
    BY <1>1, JobAfter DEF NextPeer, Inv, RpcInv
  <2>. QED  BY <2>1, <2>2, <2>3, <2>4, CallsKept
<1>4. CASE ~UNCHANGED <<nextIndex, matchIndex>>
  <2>1. PICK a \in Nat, b \in Nat :
          a = matchIndex[i][p] /\ b = nextIndex[i][p] /\ b >= 1
    BY DEF LogInv, IndexTypes, TurnsInv
  <2>0. PICK s : s = Sent(job[i][t].req)
    OBVIOUS
  <2>2. disk[i].snapIndex = 0
    BY DiskTypes, DiskFacts DEF LogInv
  <2>3. CASE /\ job[i][t].req.kind = "AE"
             /\ nextIndex' = [nextIndex EXCEPT ![i][p] = Max({a, s}) + 1]
    <3>1. s \in Nat
      BY <1>1, <2>0, <2>3, SentType DEF LogInv, MessageInv
    <3>2. Max({a, s}) = IF a >= s THEN a ELSE s
      BY <3>1, MaxOfTwo
    <3>3. PICK n : n = Max({a, s}) + 1
      OBVIOUS
    <3>4. n \in Nat /\ n >= 1
      BY <3>1, <3>2, <3>3
    <3>. QED  BY <1>3, <2>3, <3>3, <3>4
  <2>4. CASE /\ b # 1
             /\ nextIndex' = [nextIndex EXCEPT ![i][p] = IF b > 0 + 1 THEN b - 1 ELSE 0]
    <3>1. PICK n : n = IF b > 0 + 1 THEN b - 1 ELSE 0
      OBVIOUS
    <3>2. n \in Nat /\ n >= 1
      BY <2>1, <2>4, <3>1
    <3>. QED  BY <1>3, <2>4, <3>1, <3>2
  <2>5. CASE nextIndex' = [nextIndex EXCEPT ![i][p] = 0 + 1]
    <3>1. 0 + 1 \in Nat /\ 0 + 1 >= 1
      OBVIOUS
    <3>. QED  BY <1>3, <2>5, <3>1
  <2>6. /\ job[i][t].req.kind = "AE" /\ ~job[i][t].reply.success
        /\ job[i][t].reply.term <= currentTerm[i]
        /\ state[i] = "Leader" /\ currentTerm[i] = job[i][t].req.term
        => b # 1
    <3>1. CallOK(job[i][t], i)
      BY <1>1 DEF TurnsInv
    <3>. SUFFICES ASSUME job[i][t].req.kind = "AE", ~job[i][t].reply.success,
                         job[i][t].reply.term <= currentTerm[i],
                         state[i] = "Leader", currentTerm[i] = job[i][t].req.term
                  PROVE  b # 1
      OBVIOUS
    <3>2. b = job[i][t].req.prevIndex + 1 /\ job[i][t].req.prevIndex # 0
          /\ job[i][t].req.prevIndex \in Nat
      BY <1>1, <2>1, <3>1 DEF CallOK
    <3>. QED  BY <3>2
  <2>. QED  BY <1>4, <2>0, <2>1, <2>2, <2>3, <2>4, <2>5, <2>6 DEF ReceiveReply, Sent
<1>. QED  BY <1>2, <1>4

LEMMA TurnsStep ==
    ASSUME NEW tl, LogInv(tl), Inv, ElectionStep, TurnsInv, ThreadsTakeTurns, [Next]_vars
    PROVE  TurnsInv'
<1>0. \A i, j \in Node : nextIndex[i][j] >= 1
  BY DEF TurnsInv
<1>1. CASE UNCHANGED <<job, nextIndex>>
  BY <1>0, <1>1, CallsKept
<1>2. ASSUME NEW i \in Node, CountVote(i) \/ Crash(i)
      PROVE  TurnsInv'
  BY <1>2, TurnsWins, TurnsCrash DEF LogInv
<1>3. ASSUME NEW i \in Node, BeginHeartbeat(i)
      PROVE  TurnsInv'
  <2> DEFINE j == [IdleJob EXCEPT !.pc = "next", !.todo = PeersOf(i)]
  <2>1. SetJob(i, "H", j) /\ nextIndex' = nextIndex /\ "H" \in Threads
    BY <1>3 DEF BeginHeartbeat, Threads
  <2>2. ~InCall(j)
    BY DEF InCall, IdleJob
  <2> HIDE DEF j
  <2>. QED  BY <2>1, <2>2, CallLeft
<1>4. ASSUME NEW i \in Node, ClientAppend(i)
      PROVE  TurnsInv'
  <2>1. PICK e : SetJob(i, "S", [IdleJob EXCEPT !.pc = "next", !.todo = PeersOf(i), !.mine = e])
    BY <1>4 DEF ClientAppend
  <2> DEFINE j == [IdleJob EXCEPT !.pc = "next", !.todo = PeersOf(i), !.mine = e]
  <2>2. SetJob(i, "S", j) /\ nextIndex' = nextIndex /\ "S" \in Threads
    BY <1>4, <2>1 DEF ClientAppend, Threads
  <2>3. ~InCall(j)
    BY DEF InCall, IdleJob
  <2> HIDE DEF j
  <2>. QED  BY <2>2, <2>3, CallLeft
<1>5. ASSUME NEW i \in Node, NEW t \in Threads, CheckPeer(i, t)
      PROVE  TurnsInv'
  <2>1. PICK j : SetJob(i, t, j) /\ j.pc \in {"next", "send"}
    <3> DEFINE me == job[i][t]
               l == FirstPeer(me.todo)
               kind == IF nextIndex[i][l] <= disk[i].snapIndex THEN "IS" ELSE "AE"
               skip == [me EXCEPT !.todo = @ \ {l}]
               go == [me EXCEPT !.pc = "send", !.todo = @ \ {l}, !.peer = l, !.kind = kind]
    <3>1. SetJob(i, t, skip) \/ SetJob(i, t, go)
      BY <1>5 DEF CheckPeer
    <3>2. me.pc = "next" /\ DOMAIN me = DOMAIN IdleJob
      BY <1>5 DEF CheckPeer, Inv, RpcInv, JobsInv
    <3>3. skip.pc = "next" /\ go.pc = "send"
      BY <3>2 DEF IdleJob
    <3>. QED  BY <3>1, <3>3
  <2>2. ~InCall(j) /\ nextIndex' = nextIndex
    BY <1>5, <2>1 DEF InCall, CheckPeer
  <2>. QED  BY <2>1, <2>2, CallLeft
<1>6. ASSUME NEW i \in Node, NEW t \in Threads, SendRequest(i, t) \/ HandleRequest(i, t)
      PROVE  TurnsInv'
  BY <1>6, TurnsSend, TurnsHandle
<1>7. ASSUME NEW i \in Node, NEW t \in Threads, RequestFails(i, t)
      PROVE  TurnsInv'
  BY <1>7, NextPeerLeaves DEF RequestFails
<1>8. ASSUME NEW i \in Node, NEW t \in Threads, ReceiveReply(i, t)
      PROVE  TurnsInv'
  BY <1>8, TurnsReply
<1>9. ASSUME NEW i \in Node, NEW t \in Threads, EndRound(i, t)
      PROVE  TurnsInv'
  <2>1. PICK j : SetJob(i, t, j) /\ j.pc \in {"idle", "result"}
    <3>1. DOMAIN job[i][t] = DOMAIN IdleJob
      BY DEF Inv, RpcInv, JobsInv
    <3>. QED  BY <1>9, <3>1 DEF EndRound, IdleJob
  <2>2. ~InCall(j) /\ nextIndex' = nextIndex
    BY <1>9, <2>1 DEF InCall, EndRound
  <2>. QED  BY <2>1, <2>2, CallLeft
<1>10. ASSUME NEW i \in Node, ClientResult(i)
       PROVE  TurnsInv'
  BY <1>10, IdleJobFacts, CallLeft DEF ClientResult, Threads
<1>11. ASSUME NEW m \in late, HandleLate(m)
       PROVE  TurnsInv'
  BY <1>1, <1>11 DEF HandleLate, Handle
<1>12. ASSUME NEW i \in Node, Campaign(i) \/ AskVote(i) \/ LoseVoteCall(i) \/ Vote(i)
       PROVE  TurnsInv'
  BY <1>1, <1>12 DEF Campaign, AskVote, LoseVoteCall, Vote, logVars
<1>13. ASSUME NEW m \in stray, VoteLate(m)
       PROVE  TurnsInv'
  BY <1>1, <1>13 DEF VoteLate, logVars
<1>14. CASE UNCHANGED vars
  BY <1>1, <1>14 DEF vars, logVars
<1>. QED
  BY <1>2, <1>3, <1>4, <1>5, <1>6, <1>7, <1>8, <1>9, <1>10, <1>11, <1>12, <1>13, <1>14
     DEF Next

-----------------------------------------------------------------------------
(***************************************************************************)
(* The theorems.  NoCompaction: no log gets as long as the threshold of    *)
(* maybeCreateSnapshot.  AppendsFromStart: no AppendEntries request names  *)
(* a previous entry before the first.  Where either fails a follower       *)
(* answers success to entries it does not look at.                         *)
(***************************************************************************)

\* While the heartbeat thread and the client operations of a node do not overlap, no
\* request is built with prevLogIndex -1 (replicateToPeer, nextIndex_ after a refusal).
THEOREM TurnsKeepRequestsInLog ==
    ASSUME NoCompaction
    PROVE  Spec /\ []ThreadsTakeTurns => []AppendsFromStart
<1>1. Init => TurnsInv /\ LogIsSound
  <2>1. Init => TurnsInv
    <3>. SUFFICES ASSUME Init PROVE TurnsInv
      OBVIOUS
    <3>1. /\ nextIndex = [i \in Node |-> [j \in Node |-> 1]]
          /\ job = [i \in Node |-> [t \in Threads |-> IdleJob]]
      BY DEF Init, ReplicationInit
    <3>. QED  BY <3>1, IdleJobFacts DEF TurnsInv
  <2>. QED  BY <2>1, LogInvInit, WorkInvInit DEF LogIsSound
<1>2. TurnsInv => AppendsFromStart
  BY DEF TurnsInv, CallOK, AppendsFromStart
<1>3. Inv /\ LogIsSound /\ TurnsInv /\ ThreadsTakeTurns /\ [Next]_vars
        => TurnsInv' /\ LogIsSound'
  <2>. SUFFICES ASSUME Inv, LogIsSound, TurnsInv, ThreadsTakeTurns, [Next]_vars
                PROVE  TurnsInv' /\ LogIsSound'
    OBVIOUS
  <2>1. TurnsInv'
    <3>1. PICK tl : LogInv(tl)
      BY DEF LogIsSound
    <3>. QED  BY <3>1, NextIsElectionStep, TurnsStep
  <2>2. AppendsFromStart'
    BY <1>2, <2>1, PTL
  <2>. QED  BY <2>1, <2>2, LogIsSoundStep
<1>. QED  BY <1>1, <1>2, <1>3, InvIsInvariant, PTL DEF Spec

\* Logs, indexes, jobs and messages keep their types.
THEOREM LogTypesAreKept ==
    ASSUME NoCompaction
    PROVE  Spec /\ []AppendsFromStart => []TypeOK
<1>1. Inv /\ LogIsSound => TypeOK
  BY TypeOKHolds DEF LogIsSound
<1>. QED  BY <1>1, InvIsInvariant, LogIsSoundAlways, PTL

\* logIndexToPos finds every entry where its index says it is.
THEOREM LogStaysContiguous ==
    ASSUME NoCompaction
    PROVE  Spec /\ []AppendsFromStart => []LogIsContiguous
<1>1. LogIsSound => LogIsContiguous
  BY LogIsContiguousHolds DEF LogIsSound
<1>. QED  BY <1>1, LogIsSoundAlways, PTL

\* Log matching: handleAppendEntries never leaves two logs that share an entry and
\* differ before it.
THEOREM LogsMatch ==
    ASSUME NoCompaction
    PROVE  Spec /\ []AppendsFromStart => []LogMatching
<1>1. LogIsSound => LogMatching
  BY LogMatchingHolds DEF LogIsSound
<1>. QED  BY <1>1, LogIsSoundAlways, PTL

\* Leader completeness: isCandidateLogUpToDate and the term test of updateCommitIndex
\* together keep a node without a committed entry from leading a later term.
THEOREM LeadersAreComplete ==
    ASSUME NoCompaction
    PROVE  Spec /\ []AppendsFromStart => []LeaderCompleteness
<1>1. Inv /\ LogIsSound => LeaderCompleteness
  BY LeaderCompletenessHolds DEF LogIsSound
<1>. QED  BY <1>1, InvIsInvariant, LogIsSoundAlways, PTL

\* What updateCommitIndex has committed stays on a majority, whatever is cut later.
THEOREM MajorityKeepsCommitted ==
    ASSUME NoCompaction
    PROVE  Spec /\ []AppendsFromStart => []MajorityStored
<1>1. Inv /\ LogIsSound => MajorityStored
  BY MajorityStoredHolds DEF LogIsSound
<1>. QED  BY <1>1, InvIsInvariant, LogIsSoundAlways, PTL

\* applyCommittedLogs applies the same entry at an index on every node.
THEOREM NodesApplyTheSame ==
    ASSUME NoCompaction
    PROVE  Spec /\ []AppendsFromStart => []StateMachineSafety
<1>1. Inv /\ LogIsSound => StateMachineSafety
  BY StateMachineSafetyHolds DEF LogIsSound
<1>. QED  BY <1>1, InvIsInvariant, LogIsSoundAlways, PTL

\* matchIndex_ of a leader is what a follower of its term stores.
THEOREM MatchIndexIsNeverAhead ==
    ASSUME NoCompaction
    PROVE  Spec /\ []AppendsFromStart => []MatchIndexIsTrue
<1>1. Inv /\ LogIsSound => MatchIndexIsTrue
  BY MatchIndexIsTrueHolds DEF LogIsSound
<1>. QED  BY <1>1, InvIsInvariant, LogIsSoundAlways, PTL

\* leaderPut and leaderDelete answer OK for committed entries only.
THEOREM ClientsHearOfCommittedOnly ==
    ASSUME NoCompaction
    PROVE  Spec /\ []AppendsFromStart => []AckedIsCommitted
<1>1. LogIsSound => AckedIsCommitted
  BY DEF LogIsSound, LogInv, HistInv
<1>. QED  BY <1>1, LogIsSoundAlways, PTL

\* One step, from the invariant.
LEMMA StepKeepsCommitted ==
    ASSUME NoCompaction, Inv, LogIsSound, AppendsFromStart', [Next]_vars
    PROVE  /\ \A i \in Node : \A p \in DOMAIN disk[i].log :
                disk[i].log[p].index <= commitIndex[i] => Holds(disk'[i], disk[i].log[p])
           /\ \A i \in Node : \/ commitIndex'[i] >= commitIndex[i]
                                 /\ lastApplied'[i] >= lastApplied[i]
                              \/ Crash(i)
<1>1. ElectionStep
  BY NextIsElectionStep
<1>2. PICK tl : LogInv(tl)
  BY DEF LogIsSound
<1>3. PICK tl2 : LogFacts(tl, tl2) /\ CommitFacts(tl2)
  <2>1. \A i \in Node : ClientResult(i) => MineAt(i)
    BY DEF ClientResult, LogIsSound, WorkInv
  <2>. QED  BY <1>1, <1>2, <2>1, NextFactsHold DEF LogStep, LogChange
<1>4. ASSUME NEW i \in Node, NEW p \in DOMAIN disk[i].log,
             disk[i].log[p].index <= commitIndex[i]
      PROVE  Holds(disk'[i], disk[i].log[p])
  <2>1. /\ Rooted(tl, disk[i].log) /\ p \in Nat /\ p >= 1
        /\ disk'[i] \in Disks /\ Len(disk'[i].log) \in Nat
        /\ DOMAIN disk'[i].log = 1 .. Len(disk'[i].log)
    BY <1>2, <1>3, DiskTypes, DiskFacts DEF LogInv, LogFacts
  <2>2. PICK c \in Nat : c = commitIndex[i] /\ KnowsCommitted(i, c)
    BY <1>2 DEF LogInv, CommitIndexInv, IndexTypes
  <2>3. Agree(disk[i].log, disk'[i].log, c)
    BY <1>1, <1>2, <1>3, <2>2, CommittedKept DEF LogInv
  <2>4. disk[i].log[p].index = p
    BY <2>1 DEF Rooted
  <2>5. p \in DOMAIN disk'[i].log /\ disk'[i].log[p] = disk[i].log[p]
    BY <1>4, <2>1, <2>2, <2>3, <2>4 DEF Agree
  <2>. QED  BY <2>1, <2>4, <2>5, HoldsAt
<1>5. ASSUME NEW i \in Node, ~Crash(i)
      PROVE  commitIndex'[i] >= commitIndex[i] /\ lastApplied'[i] >= lastApplied[i]
  <2>1. commitIndex[i] \in Nat /\ lastApplied[i] = commitIndex[i]
    BY <1>2 DEF LogInv, CommitIndexInv, IndexTypes
  <2>. QED  BY <1>3, <1>5, <2>1 DEF CommitFacts
<1>. QED  BY <1>4, <1>5

\* A node never drops an entry below its commitIndex_: the cut in handleAppendEntries
\* stays above it.
THEOREM NodesKeepCommitted ==
    ASSUME NoCompaction
    PROVE  Spec /\ []AppendsFromStart => CommittedStays
<1>1. Inv /\ LogIsSound /\ AppendsFromStart' /\ [Next]_vars =>
        [\A i \in Node : \A p \in DOMAIN disk[i].log :
           disk[i].log[p].index <= commitIndex[i] => Holds(disk'[i], disk[i].log[p])]_vars
  BY StepKeepsCommitted
<1>. QED  BY <1>1, InvIsInvariant, LogIsSoundAlways, PTL DEF Spec, CommittedStays

\* commitIndex_ and lastApplied_ of a running node only grow.
THEOREM CommitOnlyAdvances ==
    ASSUME NoCompaction
    PROVE  Spec /\ []AppendsFromStart => CommitNeverRegresses
<1>1. Inv /\ LogIsSound /\ AppendsFromStart' /\ [Next]_vars =>
        [\A i \in Node : \/ commitIndex'[i] >= commitIndex[i]
                            /\ lastApplied'[i] >= lastApplied[i]
                         \/ Crash(i)]_vars
  BY StepKeepsCommitted
<1>. QED  BY <1>1, InvIsInvariant, LogIsSoundAlways, PTL DEF Spec, CommitNeverRegresses
=============================================================================
