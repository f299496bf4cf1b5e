----------------------- MODULE RaftMembershipProofs -----------------------
(***************************************************************************)
(* Proofs about RaftMembership: who is elected, and what is applied, while *)
(* the nodes count votes and copies in different configurations; and, at   *)
(* the end, that committed changes follow each other.                      *)
(*                                                                         *)
(* The invariant speaks of one thing the state does not hold: tl, by term, *)
(* the log its leader had when it last led.  MembershipSound says that     *)
(* some tl exists for which all its parts hold.                            *)
(***************************************************************************)
EXTENDS RaftMembership, FiniteSetTheorems, WellFoundedInduction, TLAPS

-----------------------------------------------------------------------------
(***************************************************************************)
(* Types: the configurations that occur are those of Confs.                *)
(***************************************************************************)

Roles == {"Follower", "Candidate", "Leader"}

Standings == {"voter", "learner", "leaving", "removed"}

Entries ==
    {e \in [term : Nat, op : {"PUT", "JOINT", "NEW"}, old : SUBSET Node, new : SUBSET Node] :
        e.op # "PUT" => /\ e.new \in Confs /\ e.new # {}
                        /\ e.op = "JOINT" => e.old \in Confs}

Configs ==
    {c \in [phase : {"STABLE", "JOINT"}, current : SUBSET Node,
            old : SUBSET Node, new : SUBSET Node] :
        /\ c.current \in Confs
        /\ c.phase = "STABLE" <=> c.new = {}
        /\ c.phase = "JOINT" => c.old \in Confs /\ c.new \in Confs}

Rounds == [term : Nat, lastTerm : Nat, lastIndex : Nat,
           todo : SUBSET Node, granted : SUBSET Node]

Replies == [kind : {"none", "vote", "append"}, from : Node \cup {Nil},
            asked : Nat, term : Nat, ok : BOOLEAN, match : Nat]

Changes ==
    {a \in [stage : {"idle", "begun", "joint", "new"}, old : SUBSET Node, new : SUBSET Node] :
        a.stage # "idle" => a.old \in Confs /\ a.new \in Confs /\ a.new # {}}

TypeInv ==
    /\ state \in [Node -> Roles]
    /\ currentTerm \in [Node -> Nat]
    /\ votedFor \in [Node -> Node \cup {Nil}]
    /\ log \in [Node -> Seq(Entries)]
    /\ commitIndex \in [Node -> Nat]
    /\ \A i \in Node : commitIndex[i] <= Len(log[i])
    /\ matchIndex \in [Node -> [Node -> Nat]]
    /\ config \in [Node -> Configs]
    /\ standing \in [Node -> Standings]
    /\ round \in [Node -> Rounds]
    /\ \A i \in Node : i \notin round[i].todo
    /\ reply \in [Node -> Replies]
    /\ \A i \in Node : reply[i].kind # "none" => reply[i].from \in Node
    /\ admin \in [Node -> Changes]
    /\ restarts \in [Node -> {"never", "once", "done"}]
    /\ elected \subseteq [term : Nat, leader : Node]
    /\ applied \subseteq [index : Nat, entry : Entries, term : Nat]
    /\ finished \subseteq [conf : SUBSET Node, at : Nat]

-----------------------------------------------------------------------------
(***************************************************************************)
(* Numbers, majorities and configurations.                                 *)
(***************************************************************************)

LEMMA LeastExists ==
    ASSUME NEW S \in SUBSET Nat, S # {}
    PROVE  \E m \in S : \A x \in S : m <= x
<1>1. \E m \in S : \A y \in S : ~(<<y, m>> \in OpToRel(<, Nat))
  BY NatLessThanWellFounded, WFMin, Zenon
<1>2. \A x, y \in Nat : y < x => <<y, x>> \in OpToRel(<, Nat)
  <2>. SUFFICES ASSUME NEW x \in Nat, NEW y \in Nat, y < x
                PROVE  <<y, x>> \in OpToRel(<, Nat)
    OBVIOUS
  <2>1. <<y, x>>[1] < <<y, x>>[2] /\ <<y, x>> \in Nat \X Nat
    OBVIOUS
  <2>. QED  BY <2>1, Zenon DEF OpToRel
<1>3. PICK m \in S : \A y \in S : ~(y < m)
  BY <1>1, <1>2, Zenon
<1>4. \A y \in S : m <= y
  <2>1. m \in Nat /\ \A y \in S : y \in Nat
    OBVIOUS
  <2>. QED  BY <1>3, <2>1
<1>. QED  BY <1>4

\* Max of a set of numbers with a bound is the largest of them.
LEMMA MaxIs ==
    ASSUME NEW S \in SUBSET Nat, S # {}, NEW b \in Nat, \A x \in S : x <= b
    PROVE  Max(S) \in S /\ \A x \in S : x <= Max(S)
<1> DEFINE T == {b - x : x \in S}
<1>1. \A x \in S : b - x \in Nat
  OBVIOUS
<1>2. T \in SUBSET Nat /\ T # {}
  BY <1>1
<1>3. PICK m \in T : \A x \in T : m <= x
  <2>. HIDE DEF T
  <2>. QED  BY <1>2, LeastExists
<1>4. PICK x \in S : m = b - x
  BY <1>3
<1>5. \A y \in S : b - x <= b - y
  BY <1>3, <1>4
<1>6. \A y \in S : x >= y
  BY <1>5
<1>7. \E y \in S : \A z \in S : y >= z
  BY <1>6
<1>8. Max(S) \in S /\ \A z \in S : Max(S) >= z
  BY <1>7 DEF Max
<1>. QED  BY <1>8

LEMMA MinIs ==
    ASSUME NEW a \in Nat, NEW b \in Nat
    PROVE  Min({a, b}) = IF a <= b THEN a ELSE b
  BY DEF Min

LEMMA ConfsGrow ==
    ASSUME NEW X \in Confs, NEW n \in Node
    PROVE  /\ n \in Joining => X \cup {n} \in Confs
           /\ n \in Leaving => X \ {n} \in Confs
  BY DEF Confs

LEMMA ConfsRead ==
    /\ \A c \in Clusters, i \in Node : c.conf[i] \in Confs
    /\ \A i \in Node : LaterConf[i] \in Confs
  BY MembershipAssumption DEF Confs, Range

\* A majority of one of the configurations.
Quorum(S) == \E C \in Confs : IsMajorityOf(S, C)

LEMMA QuorumMeets ==
    ASSUME QuorumsMeet, NEW S \in SUBSET Node, NEW T \in SUBSET Node, Quorum(S), Quorum(T)
    PROVE  \E p \in Node : p \in S /\ p \in T
  BY DEF QuorumsMeet, Quorum

LEMMA WinnersAreQuorum ==
    ASSUME NEW c \in Configs, NEW S \in SUBSET Node, WinsIn(c, S)
    PROVE  Quorum(S)
  BY DEF Configs, WinsIn, Quorum

LEMMA MatchedIsQuorum ==
    ASSUME TypeInv, NEW i \in Node, NEW n \in DOMAIN log[i], MajorityMatched(i, n)
    PROVE  Stored(i, n) \in SUBSET Node /\ Quorum(Stored(i, n))
<1>1. Stored(i, n) \in SUBSET Node
  BY DEF Stored, PeersOf, Members, TypeInv, Configs
<1>2. log[i][n] \in Entries
  BY DEF TypeInv
<1>3. CASE log[i][n].op = "JOINT"
  BY <1>1, <1>2, <1>3 DEF MajorityMatched, Entries, Quorum
<1>4. CASE log[i][n].op # "JOINT"
  BY <1>1, <1>4, WinnersAreQuorum DEF MajorityMatched, TypeInv
<1>. QED  BY <1>1, <1>3, <1>4

-----------------------------------------------------------------------------
(***************************************************************************)
(* The loop of applyCommittedLogs.                                         *)
(***************************************************************************)

\* What the node's state may be after some of the entries.
AppliedStates(i, st) ==
    [config : Configs, match : {matchIndex[i], [j \in Node |-> 0]},
     state : {st, "Follower"}, standing : Standings]

LEMMA ConfigAfterType ==
    ASSUME NEW c \in Configs, NEW e \in Entries, e.op \in {"JOINT", "NEW"}
    PROVE  ConfigAfter(c, e) \in Configs
  BY DEF ConfigAfter, Joint, Stable, Configs, Entries

LEMMA ApplyConfigType ==
    ASSUME NEW i \in Node, NEW st \in Roles, NEW s \in AppliedStates(i, st),
           NEW e \in Entries, e.op \in {"JOINT", "NEW"}
    PROVE  ApplyConfig(i, s, e) \in AppliedStates(i, st)
<1>1. ConfigAfter(s.config, e) \in Configs
  BY ConfigAfterType DEF AppliedStates
<1>. QED  BY <1>1 DEF ApplyConfig, AppliedStates, Standings, Roles

\* The state after each entry comes from the state after the one before it.
LEMMA ApplyingRuns ==
    ASSUME TypeInv, NEW i \in Node, NEW st, NEW lg, NEW n \in Nat, commitIndex[i] <= n
    PROVE  /\ Applying(i, st, lg, n)[commitIndex[i]] =
                 [config |-> config[i], match |-> matchIndex[i],
                  state |-> st, standing |-> standing[i]]
           /\ \A k \in commitIndex[i] + 1 .. n :
                 Applying(i, st, lg, n)[k] =
                   IF lg[k].op \in {"JOINT", "NEW"}
                   THEN ApplyConfig(i, Applying(i, st, lg, n)[k - 1], lg[k])
                   ELSE Applying(i, st, lg, n)[k - 1]
<1> DEFINE c == commitIndex[i]
           now == [config |-> config[i], match |-> matchIndex[i],
                   state |-> st, standing |-> standing[i]]
           step(k, x) == IF lg[k].op \in {"JOINT", "NEW"} THEN ApplyConfig(i, x, lg[k]) ELSE x
           run(f, m) == f = [k \in c .. m |-> IF k = c THEN now ELSE step(k, f[k - 1])]
<1>1. c \in Nat
  BY DEF TypeInv
<1>2. \A d \in Nat : \E f : run(f, c + d)
  <2> DEFINE Bad == {d \in Nat : ~ \E f : run(f, c + d)}
  <2>. SUFFICES ASSUME Bad # {} PROVE FALSE
    OBVIOUS
  <2>1. PICK d \in Bad : \A x \in Bad : d <= x
    <3>1. Bad \in SUBSET Nat
      OBVIOUS
    <3>. HIDE DEF Bad
    <3>. QED  BY <3>1, LeastExists
  <2>2. CASE d = 0
    <3> DEFINE f == [k \in c .. c |-> now]
    <3>1. run(f, c)
      BY <1>1
    <3>2. c + d = c
      BY <1>1, <2>2
    <3>. QED  BY <3>1, <3>2, <2>1
  <2>3. CASE d # 0
    <3>1. d - 1 \in Nat /\ d - 1 \notin Bad
      BY <2>1, <2>3
    <3>2. PICK g : run(g, c + (d - 1))
      BY <3>1
    <3> DEFINE f == [k \in c .. c + d |-> IF k = c THEN now
                                         ELSE IF k = c + d THEN step(k, g[k - 1]) ELSE g[k]]
    <3>3. ASSUME NEW k \in c .. c + d, k # c
          PROVE  f[k] = step(k, f[k - 1])
      <4>1. k - 1 \in c .. c + (d - 1) /\ c + d # c
        BY <1>1, <3>3, <2>3
      <4>2. g[c] = now
        BY <1>1, <3>1, <3>2
      <4>3. f[k - 1] = g[k - 1]
        BY <1>1, <4>1, <4>2
      <4>4. CASE k = c + d
        BY <4>3, <4>4, <3>3
      <4>5. CASE k # c + d
        <5>1. k \in c .. c + (d - 1)
          <6>1. c \in Nat /\ d \in Nat /\ k \in Int /\ k >= c /\ k <= c + d /\ k # c + d
            BY <1>1, <2>1, <3>3, <4>5
          <6>. HIDE DEF c
          <6>. QED  BY <6>1
        <5>2. g[k] = step(k, g[k - 1])
          BY <3>2, <3>3, <5>1
        <5>3. f[k] = g[k]
          BY <3>3, <4>5
        <5>. QED  BY <4>3, <5>2, <5>3
      <4>. QED  BY <4>4, <4>5
    <3>4. f[c] = now
      BY <1>1
    <3>5. \A k \in c .. c + d : f[k] = IF k = c THEN now ELSE step(k, f[k - 1])
      BY <3>3, <3>4
    <3>6. f = [k \in c .. c + d |-> f[k]]
      OBVIOUS
    <3> HIDE DEF f
    <3>7. run(f, c + d)
      BY <3>5, <3>6
    <3>. QED  BY <2>1, <3>7
  <2>. QED  BY <2>2, <2>3
<1> DEFINE after == Applying(i, st, lg, n)
<1>3. run(after, n)
  <2>1. n - c \in Nat /\ c + (n - c) = n
    BY <1>1
  <2>2. \E f : run(f, n)
    BY <1>2, <2>1
  <2>3. after = CHOOSE f : run(f, n)
    BY DEF Applying
  <2>. HIDE DEF after
  <2>. QED  BY <2>2, <2>3
<1>4. /\ after[c] = now
      /\ \A k \in c + 1 .. n : after[k] = step(k, after[k - 1])
  <2>. HIDE DEF after
  <2>. QED  BY <1>1, <1>3
<1>. QED  BY <1>4

LEMMA ApplyingIs ==
    ASSUME TypeInv, NEW i \in Node, NEW st \in Roles, NEW lg \in Seq(Entries),
           NEW n \in Nat, commitIndex[i] <= n, n <= Len(lg)
    PROVE  Applying(i, st, lg, n)[n] \in AppliedStates(i, st)
<1> DEFINE c == commitIndex[i]
           now == [config |-> config[i], match |-> matchIndex[i],
                   state |-> st, standing |-> standing[i]]
           step(k, x) == IF lg[k].op \in {"JOINT", "NEW"} THEN ApplyConfig(i, x, lg[k]) ELSE x
           after == Applying(i, st, lg, n)
<1>1. c \in Nat /\ now \in AppliedStates(i, st)
  BY DEF TypeInv, AppliedStates
<1>4. /\ after[c] = now
      /\ \A k \in c + 1 .. n : after[k] = step(k, after[k - 1])
  BY ApplyingRuns
<1> HIDE DEF after
<1>5. \A k \in c .. n : after[k] \in AppliedStates(i, st)
  <2> DEFINE Bad == {k \in c .. n : after[k] \notin AppliedStates(i, st)}
  <2>. SUFFICES ASSUME Bad # {} PROVE FALSE
    OBVIOUS
  <2>1. PICK k \in Bad : \A x \in Bad : k <= x
    <3>1. Bad \in SUBSET Nat
      BY <1>1
    <3>. HIDE DEF Bad
    <3>. QED  BY <3>1, LeastExists
  <2>2. k \in c + 1 .. n
    BY <1>1, <1>4, <2>1
  <2>3. k - 1 \in c .. n /\ k - 1 \notin Bad
    BY <1>1, <2>1, <2>2
  <2>4. after[k - 1] \in AppliedStates(i, st)
    BY <2>3
  <2>5. lg[k] \in Entries
    BY <1>1, <2>2
  <2>6. step(k, after[k - 1]) \in AppliedStates(i, st)
    BY <2>4, <2>5, ApplyConfigType
  <2>. QED  BY <1>4, <2>1, <2>2, <2>6
<1>. QED  BY <1>1, <1>5 DEF after

-----------------------------------------------------------------------------
(***************************************************************************)
(* Logs and the ledger.                                                    *)
(***************************************************************************)

Ledgers == [Nat -> Seq(Entries)]

\* The first n entries of two logs are there and the same.
Agree(s, t, n) ==
    /\ n \in 0 .. Len(s)
    /\ n \in 0 .. Len(t)
    /\ \A k \in 1 .. n : s[k] = t[k]

\* The log holds an entry of term T at n.
Has(s, n, T) == n \in DOMAIN s /\ s[n].term = T

\* Every entry of s was written by the leader of its term, after the same entries.
Rooted(tl, s) == \A n \in DOMAIN s : Agree(tl[s[n].term], s, n)

\* The ledger only grows.
Extends(tl, tl2) == \A t \in Nat : Agree(tl[t], tl2[t], Len(tl[t]))

-----------------------------------------------------------------------------
(***************************************************************************)
(* The invariant: elections.                                               *)
(***************************************************************************)

\* The votes that count, or are about to count, for c's round.
Backers(c) ==
    round[c].granted
    \cup (IF reply[c].kind = "vote" /\ reply[c].ok THEN {reply[c].from} ELSE {})

\* v does not vote for anyone but c in term t any more.
Spent(v, t, c) ==
    /\ currentTerm[v] >= t
    /\ currentTerm[v] = t => votedFor[v] = c

\* A candidate's round is that of its term; it and its voters have spent their votes.
CampaignInv ==
    \A c \in Node : state[c] = "Candidate" =>
        /\ round[c].term = currentTerm[c]
        /\ round[c].lastTerm = LastTerm(log[c])
        /\ round[c].lastIndex = Len(log[c])
        /\ reply[c].kind # "append"
        /\ reply[c].kind = "vote" => reply[c].asked = currentTerm[c]
        /\ c \in round[c].granted
        /\ votedFor[c] = c
        /\ \A v \in Backers(c) : Spent(v, currentTerm[c], c)

\* Two candidates of one term have no voter in common.
RivalsInv ==
    \A c, d \in Node :
        /\ state[c] = "Candidate" /\ state[d] = "Candidate"
        /\ c # d /\ currentTerm[c] = currentTerm[d]
        => Backers(c) \cap Backers(d) = {}

\* Q elected e, and nobody else is voted for by a node of Q in e's term.
Backed(e, Q) ==
    /\ Quorum(Q)
    /\ e.leader \in Q
    /\ \A v \in Q : Spent(v, e.term, e.leader)
    /\ \A c \in Node : state[c] = "Candidate" /\ currentTerm[c] = e.term
                          => Backers(c) \cap Q = {}

ElectedInv ==
    /\ \A e, f \in elected : e.term = f.term => e = f
    /\ \A i \in Node : state[i] = "Leader" =>
         [term |-> currentTerm[i], leader |-> i] \in elected
    /\ \A e \in elected : \E Q \in SUBSET Node : Backed(e, Q)

-----------------------------------------------------------------------------
(***************************************************************************)
(* The invariant: logs.                                                    *)
(***************************************************************************)

\* A leader's log is made of what the leaders before it wrote.
LedgerInv(tl) ==
    /\ tl \in Ledgers
    /\ \A t \in Nat :
        /\ Rooted(tl, tl[t])
        /\ \A n \in DOMAIN tl[t] : tl[t][n].term <= t
        /\ tl[t] # <<>> => \E e \in elected : e.term = t

\* So is every log, up to the node's own term.
LogsInv(tl) ==
    \A i \in Node :
        /\ Rooted(tl, log[i])
        /\ \A n \in DOMAIN log[i] : log[i][n].term <= currentTerm[i]
        /\ state[i] = "Leader" => log[i] = tl[currentTerm[i]]

\* Node p stores the first n entries of the leader of term T, or has moved on.
Keeps(tl, T, p, n) ==
    /\ n \in 0 .. Len(tl[T])
    /\ n > 0 => /\ currentTerm[p] >= T
                /\ currentTerm[p] = T => Agree(log[p], tl[T], n)

\* Who answers that a request is stored has stored it.
AnswersInv(tl) ==
    \A i \in Node : reply[i].kind = "append" /\ reply[i].ok =>
        Keeps(tl, reply[i].asked, reply[i].from, reply[i].match)

MatchInv(tl) ==
    \A i, p \in Node : state[i] = "Leader" => Keeps(tl, currentTerm[i], p, matchIndex[i][p])

\* Leader i knows, or is about to learn, that p stores everything up to n.
AckedBy(i, p, n) ==
    \/ n <= matchIndex[i][p]
    \/ /\ reply[i].kind = "append" /\ reply[i].ok
       /\ reply[i].from = p
       /\ reply[i].asked = currentTerm[i]
       /\ n <= reply[i].match

\* Entry (n, T) is in the log of every later leader, of every node of Q that has left
\* term T, and of every later candidate that has a vote from Q.
Held(tl, T, n, Q) ==
    /\ \A e \in elected : e.term > T => Has(tl[e.term], n, T)
    /\ \A p \in Q : currentTerm[p] > T => Has(log[p], n, T)
    /\ \A c \in Node : /\ state[c] = "Candidate" /\ currentTerm[c] > T
                       /\ Backers(c) \cap Q # {}
                       => Has(log[c], n, T)

\* Whatever a leader may still come to commit is out of reach of every later election.
ChoosableInv(tl) ==
    \A i \in Node : state[i] = "Leader" =>
        \A n \in Nat, Q \in SUBSET Node :
            /\ Has(tl[currentTerm[i]], n, currentTerm[i])
            /\ Quorum(Q)
            /\ \A p \in Q : currentTerm[p] <= currentTerm[i] \/ AckedBy(i, p, n)
            => Held(tl, currentTerm[i], n, Q)

\* The entry (n, T) is stored by a quorum that holds it.
Chosen(tl, T, n) ==
    /\ Has(tl[T], n, T)
    /\ \E Q \in SUBSET Node :
         /\ Quorum(Q)
         /\ Held(tl, T, n, Q)
         /\ \A p \in Q : currentTerm[p] >= T /\ Has(log[p], n, T)

\* What a node has committed is its piece of a leader's log, below a chosen entry.
CommitInv(tl) ==
    \A i \in Node : commitIndex[i] # 0 =>
        \E T \in Nat, n \in Nat :
            /\ T <= currentTerm[i]
            /\ Chosen(tl, T, n)
            /\ commitIndex[i] <= n
            /\ Agree(log[i], tl[T], commitIndex[i])

AppliedInv(tl) ==
    \A a \in applied : \E T \in Nat, n \in Nat :
        /\ T <= a.term
        /\ Chosen(tl, T, n)
        /\ a.index \in 1 .. n
        /\ a.entry = tl[T][a.index]

MembershipInv(tl) ==
    /\ TypeInv
    /\ CampaignInv
    /\ RivalsInv
    /\ ElectedInv
    /\ LedgerInv(tl)
    /\ LogsInv(tl)
    /\ AnswersInv(tl)
    /\ MatchInv(tl)
    /\ ChoosableInv(tl)
    /\ CommitInv(tl)
    /\ AppliedInv(tl)

MembershipSound == \E tl : MembershipInv(tl)

-----------------------------------------------------------------------------
(***************************************************************************)
(* Pieces of the ledger.                                                   *)
(***************************************************************************)

LEMMA SeqFacts ==
    ASSUME NEW s \in Seq(Entries)
    PROVE  /\ Len(s) \in Nat /\ DOMAIN s = 1 .. Len(s)
           /\ \A n \in DOMAIN s : s[n] \in Entries /\ s[n].term \in Nat
<1>1. Len(s) \in Nat /\ DOMAIN s = 1 .. Len(s) /\ \A n \in DOMAIN s : s[n] \in Entries
  OBVIOUS
<1>2. \A e \in Entries : e.term \in Nat
  BY DEF Entries
<1>. QED  BY <1>1, <1>2

LEMMA LedgerFacts ==
    ASSUME NEW tl, LedgerInv(tl), NEW t \in Nat
    PROVE  /\ tl[t] \in Seq(Entries) /\ Len(tl[t]) \in Nat
           /\ DOMAIN tl[t] = 1 .. Len(tl[t])
           /\ \A n \in DOMAIN tl[t] : tl[t][n] \in Entries /\ tl[t][n].term \in Nat
<1>1. tl[t] \in Seq(Entries)
  BY DEF LedgerInv, Ledgers
<1>. QED  BY <1>1, SeqFacts

\* The same for any function of terms to logs.
LEMMA LedgersFacts ==
    ASSUME NEW tl \in Ledgers, NEW t \in Nat
    PROVE  /\ tl[t] \in Seq(Entries) /\ Len(tl[t]) \in Nat
           /\ DOMAIN tl[t] = 1 .. Len(tl[t])
           /\ \A n \in DOMAIN tl[t] : tl[t][n] \in Entries /\ tl[t][n].term \in Nat
<1>1. tl[t] \in Seq(Entries)
  BY DEF Ledgers
<1>. QED  BY <1>1, SeqFacts

LEMMA RootedHas ==
    ASSUME NEW tl, NEW s, NEW n, NEW T, Rooted(tl, s), Has(s, n, T)
    PROVE  Agree(tl[T], s, n)
  BY DEF Rooted, Has

\* Terms do not decrease along a log.
LEMMA TermsRise ==
    ASSUME NEW tl, LedgerInv(tl), NEW s \in Seq(Entries), Rooted(tl, s),
           NEW m \in DOMAIN s, NEW n \in 1 .. m
    PROVE  n \in DOMAIN s /\ s[n].term <= s[m].term
<1>1. /\ Len(s) \in Nat /\ DOMAIN s = 1 .. Len(s) /\ n \in DOMAIN s
      /\ s[m].term \in Nat
  BY SeqFacts
<1> DEFINE T == s[m].term
<1>2. Agree(tl[T], s, m)
  BY DEF Rooted
<1>3. n \in DOMAIN tl[T] /\ tl[T][n] = s[n]
  BY <1>1, <1>2, LedgerFacts DEF Agree
<1>4. tl[T][n].term <= T
  BY <1>1, <1>3 DEF LedgerInv
<1>. QED  BY <1>1, <1>3, <1>4

LEMMA RootedExtends ==
    ASSUME NEW tl, NEW tl2, LedgerInv(tl), Extends(tl, tl2),
           NEW s \in Seq(Entries), Rooted(tl, s)
    PROVE  Rooted(tl2, s)
<1>. SUFFICES ASSUME NEW n \in DOMAIN s
              PROVE  Agree(tl2[s[n].term], s, n)
  BY DEF Rooted
<1> DEFINE T == s[n].term
<1>1. T \in Nat /\ n \in 1 .. Len(s) /\ Len(s) \in Nat
  BY SeqFacts
<1>2. Agree(tl[T], s, n) /\ Agree(tl[T], tl2[T], Len(tl[T])) /\ Len(tl[T]) \in Nat
  BY <1>1, LedgerFacts DEF Rooted, Extends
<1>. QED  BY <1>1, <1>2 DEF Agree

LEMMA HasExtends ==
    ASSUME NEW tl, NEW tl2, LedgerInv(tl), Extends(tl, tl2),
           NEW t \in Nat, NEW n, NEW T, Has(tl[t], n, T), tl2[t] \in Seq(Entries)
    PROVE  Has(tl2[t], n, T)
<1>1. /\ n \in 1 .. Len(tl[t]) /\ Len(tl[t]) \in Nat
      /\ DOMAIN tl2[t] = 1 .. Len(tl2[t])
  BY LedgerFacts, SeqFacts DEF Has
<1>2. Agree(tl[t], tl2[t], Len(tl[t]))
  BY DEF Extends
<1>. QED  BY <1>1, <1>2 DEF Agree, Has

\* A candidate with a log as up to date as p's has what p has.
LEMMA UpToDateHas ==
    ASSUME NEW tl, LedgerInv(tl), LogsInv(tl), TypeInv, CampaignInv,
           NEW c \in Node, state[c] = "Candidate", NEW p \in Node,
           UpToDate(round[c], log[p]),
           NEW n \in Nat, NEW T \in Nat, Has(tl[T], n, T), Has(log[p], n, T),
           \A e \in elected : e.term > T => Has(tl[e.term], n, T)
    PROVE  Has(log[c], n, T)
<1>1. /\ log[c] \in Seq(Entries) /\ log[p] \in Seq(Entries)
      /\ Rooted(tl, log[c]) /\ Rooted(tl, log[p])
  BY DEF TypeInv, LogsInv
<1>2. /\ Len(log[c]) \in Nat /\ DOMAIN log[c] = 1 .. Len(log[c])
      /\ Len(log[p]) \in Nat /\ DOMAIN log[p] = 1 .. Len(log[p])
      /\ \A k \in DOMAIN log[c] : log[c][k].term \in Nat
      /\ \A k \in DOMAIN log[p] : log[p][k].term \in Nat
  BY <1>1, SeqFacts
<1>3. n \in 1 .. Len(log[p]) /\ log[p][n].term = T
  BY <1>2 DEF Has
<1> DEFINE last == LastTerm(log[p])
<1>4. last = log[p][Len(log[p])].term /\ last \in Nat /\ last >= T
  <2>1. log[p] # <<>> /\ Len(log[p]) \in DOMAIN log[p] /\ n \in 1 .. Len(log[p])
    BY <1>2, <1>3
  <2>2. log[p][n].term <= log[p][Len(log[p])].term
    BY <1>1, <2>1, TermsRise
  <2>. QED  BY <1>2, <1>3, <2>1, <2>2 DEF LastTerm, Last
<1> DEFINE L == Len(log[c])
           U == log[c][L].term
<1>5. /\ L \in DOMAIN log[c] /\ U \in Nat /\ U = LastTerm(log[c])
      /\ U > last \/ (U = last /\ L >= Len(log[p]))
  <2>0. /\ LastTerm(log[c]) > last \/ (LastTerm(log[c]) = last /\ L >= Len(log[p]))
    BY DEF CampaignInv, UpToDate
  <2>1. CASE log[c] = <<>>
    <3>1. LastTerm(log[c]) = 0 /\ L = 0
      BY <2>1 DEF LastTerm
    <3>. QED  BY <1>2, <1>3, <1>4, <2>0, <3>1
  <2>2. CASE log[c] # <<>>
    <3>1. L \in DOMAIN log[c]
      BY <1>1, <1>2, <2>2
    <3>2. LastTerm(log[c]) = U
      BY <2>2 DEF LastTerm, Last
    <3>. QED  BY <1>2, <2>0, <3>1, <3>2
  <2>. QED  BY <2>1, <2>2
<1>6. Agree(tl[U], log[c], L)
  BY <1>1, <1>5 DEF Rooted
<1> HIDE DEF U, L, last
<1>7. CASE U = T
  <2>1. last = T /\ L >= Len(log[p])
    BY <1>4, <1>5, <1>7
  <2>2. n \in 1 .. L
    BY <1>2, <1>3, <1>5, <2>1 DEF L
  <2>3. log[c][n] = tl[T][n]
    BY <1>6, <1>7, <2>2 DEF Agree
  <2>. QED  BY <1>2, <2>2, <2>3 DEF Has, L
<1>8. CASE U # T
  <2>1. U > T
    BY <1>4, <1>5, <1>8
  <2>2. Has(tl[U], n, T)
    <3>1. L \in DOMAIN tl[U] /\ L >= 1
      BY <1>2, <1>5, <1>6, LedgerFacts DEF Agree, L
    <3>2. tl[U] # <<>>
      BY <3>1
    <3>3. \E e \in elected : e.term = U
      BY <1>5, <3>2 DEF LedgerInv
    <3>. QED  BY <2>1, <3>3
  <2>3. n <= L
    <3>. SUFFICES ASSUME L < n PROVE FALSE
      BY <1>2, <1>5 DEF L
    <3>1. n \in DOMAIN tl[U] /\ L \in 1 .. n /\ tl[U] \in Seq(Entries) /\ Rooted(tl, tl[U])
      BY SMTT(30), <1>2, <1>5, <2>2, LedgerFacts DEF Has, L, LedgerInv
    <3>2. tl[U][L].term <= tl[U][n].term
      BY <3>1, TermsRise
    <3>3. tl[U][L] = log[c][L] /\ log[c][L].term = U
      BY <1>2, <1>5, <1>6 DEF Agree, U, L
    <3>. QED  BY <1>5, <2>1, <2>2, <3>2, <3>3 DEF Has
  <2>4. n \in 1 .. L /\ log[c][n] = tl[U][n]
    BY <1>3, <1>6, <2>3 DEF Agree
  <2>. QED  BY <1>2, <2>2, <2>4 DEF Has, L
<1>. QED  BY <1>7, <1>8

-----------------------------------------------------------------------------
(***************************************************************************)
(* Merging a request into a log.                                           *)
(***************************************************************************)

\* Two rooted logs with entries of one term at n are the same up to n.
LEMMA RootedAgree ==
    ASSUME NEW tl, LedgerInv(tl), NEW s \in Seq(Entries), NEW t \in Seq(Entries),
           Rooted(tl, s), Rooted(tl, t), NEW n \in DOMAIN s, n \in DOMAIN t,
           s[n].term = t[n].term
    PROVE  Agree(s, t, n)
<1>1. Agree(tl[s[n].term], s, n) /\ Agree(tl[s[n].term], t, n)
  BY DEF Rooted
<1>. QED  BY <1>1 DEF Agree

LEMMA ConcatIs ==
    ASSUME NEW s \in Seq(Entries), NEW t \in Seq(Entries)
    PROVE  /\ s \o t \in Seq(Entries)
           /\ Len(s \o t) = Len(s) + Len(t)
           /\ \A k \in 1 .. Len(s) + Len(t) :
                 (s \o t)[k] = IF k <= Len(s) THEN s[k] ELSE t[k - Len(s)]
  OBVIOUS

\* Of a log and a request that fits, one is left as it is.
LEMMA MergeIs ==
    ASSUME NEW tl, LedgerInv(tl), NEW own \in Seq(Entries), NEW lg \in Seq(Entries),
           Rooted(tl, own), Rooted(tl, lg), NEW p \in Nat, p <= Len(lg), Matches(own, lg, p)
    PROVE  \/ /\ Merge(own, lg, p) = own
              /\ Agree(own, lg, Len(lg))
           \/ /\ Merge(own, lg, p) = lg
              /\ ~Agree(own, lg, Len(lg))
<1>1. /\ Len(own) \in Nat /\ DOMAIN own = 1 .. Len(own)
      /\ Len(lg) \in Nat /\ DOMAIN lg = 1 .. Len(lg)
  BY SeqFacts
<1>2. PICK a \in Nat, b \in Nat : a = Len(own) /\ b = Len(lg)
  BY <1>1
<1>3. PICK m \in Nat : m = Min({a, b}) /\ m = IF a <= b THEN a ELSE b
  BY MinIs
<1> DEFINE clash == {k \in p + 1 .. m : own[k].term # lg[k].term}
<1>4. Merge(own, lg, p) =
        CASE clash # {} -> lg
          [] clash = {} /\ a >= b -> own
          [] OTHER -> own \o SubSeq(lg, a + 1, b)
  BY <1>2, <1>3 DEF Merge
<1>5. m <= a /\ m <= b /\ (a <= b => m = a) /\ (a >= b => m = b)
  BY <1>3
<1>6. /\ DOMAIN own = 1 .. a /\ DOMAIN lg = 1 .. b /\ p <= b
      /\ Agree(own, lg, b) <=> b <= a /\ \A k \in 1 .. b : own[k] = lg[k]
      /\ Agree(own, lg, m) <=> \A k \in 1 .. m : own[k] = lg[k]
  <2>1. b \in 0 .. b /\ (b \in 0 .. a <=> b <= a) /\ m \in 0 .. a /\ m \in 0 .. b
    BY <1>5
  <2>. QED  BY <1>1, <1>2, <2>1 DEF Agree
<1>7. CASE clash # {}
  <2>1. PICK k \in p + 1 .. m : own[k].term # lg[k].term
    BY <1>7
  <2>2. k \in 1 .. b /\ own[k] # lg[k]
    BY <1>5, <2>1
  <2>. QED  BY <1>2, <1>4, <1>6, <1>7, <2>2
<1>8. CASE clash = {}
  <2>1. \A k \in 1 .. m : own[k] = lg[k]
    <3>1. CASE m = 0
      BY <3>1
    <3>2. CASE m > p
      <4>1. m \in p + 1 .. m /\ m \in DOMAIN own /\ m \in DOMAIN lg
        BY <1>5, <1>6, <3>2
      <4>2. own[m].term = lg[m].term
        BY <1>8, <4>1
      <4>3. Agree(own, lg, m)
        BY <4>1, <4>2, RootedAgree
      <4>. QED  BY <1>6, <4>3
    <3>3. CASE m <= p /\ m # 0
      <4>1. p # 0 /\ p <= a /\ own[p].term = lg[p].term
        BY <1>2, <3>3 DEF Matches
      <4>2. p \in DOMAIN own /\ p \in DOMAIN lg
        BY <1>6, <4>1
      <4>3. Agree(own, lg, p)
        BY <4>1, <4>2, RootedAgree
      <4>. QED  BY <3>3, <4>3 DEF Agree
    <3>. QED  BY <3>1, <3>2, <3>3
  <2>2. CASE a >= b
    BY <1>2, <1>4, <1>5, <1>6, <1>8, <2>1, <2>2
  <2>3. CASE a < b
    <3> DEFINE tail == SubSeq(lg, a + 1, b)
               both == own \o tail
    <3>1. Merge(own, lg, p) = both
      <4>1. ~(a >= b)
        BY <2>3
      <4>. HIDE DEF clash
      <4>. QED  BY <1>4, <1>8, <4>1
    <3>2. /\ tail \in Seq(Entries) /\ Len(tail) = b - a
          /\ \A k \in 1 .. b - a : tail[k] = lg[a + k]
      <4>1. a + 1 \in 1 .. b + 1 /\ b \in 0 .. b /\ (b + 1) - (a + 1) = b - a
        BY <2>3
      <4>2. \A k \in a + 1 .. b : lg[k] \in Entries
        BY <1>6, SeqFacts
      <4>. QED  BY <1>2, <2>3, <4>1, <4>2
    <3> HIDE DEF tail
    <3>3. /\ both \in Seq(Entries) /\ Len(both) = b
          /\ \A k \in 1 .. b : both[k] = IF k <= a THEN own[k] ELSE tail[k - a]
      <4>1. /\ both \in Seq(Entries) /\ Len(both) = Len(own) + Len(tail)
            /\ \A k \in 1 .. Len(own) + Len(tail) :
                  both[k] = IF k <= Len(own) THEN own[k] ELSE tail[k - Len(own)]
        BY <3>2, ConcatIs
      <4>2. Len(own) = a /\ Len(own) + Len(tail) = b
        BY <1>2, <2>3, <3>2
      <4>. HIDE DEF both
      <4>. QED  BY <4>1, <4>2
    <3> HIDE DEF both
    <3>4. \A k \in 1 .. b : both[k] = lg[k]
      <4>. SUFFICES ASSUME NEW k \in 1 .. b PROVE both[k] = lg[k]
        OBVIOUS
      <4>1. CASE k <= a
        <5>1. k \in 1 .. m
          BY <1>5, <2>3, <4>1
        <5>. QED  BY <2>1, <3>3, <4>1, <5>1
      <4>2. CASE ~(k <= a)
        <5>1. k - a \in 1 .. b - a /\ a + (k - a) = k
          BY <2>3, <4>2
        <5>. QED  BY <3>2, <3>3, <4>2, <5>1
      <4>. QED  BY <4>1, <4>2
    <3>5. both = lg
      BY <1>2, <3>3, <3>4
    <3>6. ~Agree(own, lg, Len(lg))
      BY <1>2, <1>6, <2>3
    <3>. QED  BY <3>1, <3>5, <3>6
  <2>. QED  BY <2>2, <2>3
<1>. QED  BY <1>7, <1>8

-----------------------------------------------------------------------------
(***************************************************************************)
(* What one step does to votes, terms, leaders and logs.  The invariant    *)
(* follows from these facts alone.                                         *)
(***************************************************************************)

\* The vote v gives candidate c in this step.
Grants(v, c) ==
    /\ currentTerm[v] <= currentTerm[c]
    /\ currentTerm[v] = currentTerm[c] => votedFor[v] \in {Nil, c}
    /\ UpToDate(round[c], log[v])
    /\ currentTerm'[v] = currentTerm[c]
    /\ votedFor'[v] = c

\* c starts a round in this step.
Campaigns(c) ==
    /\ currentTerm'[c] = currentTerm[c] + 1
    /\ votedFor'[c] = c
    /\ round'[c].term = currentTerm'[c]
    /\ round'[c].lastTerm = LastTerm(log[c])
    /\ round'[c].lastIndex = Len(log[c])
    /\ round'[c].granted = {c}
    /\ reply'[c].kind = "none"
    /\ log'[c] = log[c]
    /\ Backers(c)' = {c}

\* c is a candidate before and after this step.
Continues(c) ==
    /\ state[c] = "Candidate"
    /\ currentTerm'[c] = currentTerm[c]
    /\ log'[c] = log[c]
    /\ round'[c].term = round[c].term
    /\ round'[c].lastTerm = round[c].lastTerm
    /\ round'[c].lastIndex = round[c].lastIndex
    /\ round[c].granted \subseteq round'[c].granted
    /\ reply'[c].kind # "append"
    /\ reply'[c].kind = "vote" => reply'[c].asked = currentTerm[c]
    /\ \A v \in Backers(c)' : v \in Backers(c) \/ Grants(v, c)

\* i wins the election of its current term in this step.
Wins(i) ==
    /\ state[i] = "Candidate"
    /\ state' = [state EXCEPT ![i] = "Leader"]
    /\ UNCHANGED <<currentTerm, votedFor, log>>
    /\ \A p \in Node : matchIndex'[i][p] = 0
    /\ elected' = elected \cup {[term |-> currentTerm[i], leader |-> i]}
    /\ \E S \in SUBSET Backers(i) : Quorum(S) /\ i \in S

VoteFacts ==
    /\ \A v \in Node : currentTerm'[v] >= currentTerm[v]
    /\ \A v \in Node :
         votedFor'[v] # votedFor[v] /\ currentTerm'[v] = currentTerm[v]
           => \/ votedFor[v] = Nil
              \/ state[v] = "Candidate" /\ state'[v] = "Follower"
    /\ \A c \in Node : state'[c] = "Candidate" => Campaigns(c) \/ Continues(c)
    /\ \A i \in Node : state'[i] = "Leader" =>
         \/ state[i] = "Leader" /\ currentTerm'[i] = currentTerm[i]
         \/ Wins(i)
    /\ elected' = elected \/ \E i \in Node : Wins(i)

\* A log stays, a leader appends to it, or it becomes that of an elected leader.
LogChange(tl, tl2, p) ==
    \/ log'[p] = log[p]
    \/ /\ state[p] = "Leader" /\ currentTerm'[p] = currentTerm[p]
       /\ log'[p] = tl2[currentTerm[p]]
    \/ /\ \E e \in elected : e.term = currentTerm'[p]
       /\ log'[p] = tl[currentTerm'[p]]
       /\ ~Agree(log[p], log'[p], Len(log'[p]))

LogFacts(tl, tl2) ==
    /\ Extends(tl, tl2)
    /\ \A p \in Node : LogChange(tl, tl2, p)
    /\ \A i \in Node : state'[i] = "Leader" => log'[i] = tl2[currentTerm'[i]]

AnswerFacts(tl2) ==
    \A i \in Node : reply'[i].kind = "append" /\ reply'[i].ok =>
        \/ reply'[i] = reply[i]
        \/ \E T \in Nat, p \in Node, n \in Nat :
             /\ T = reply'[i].asked /\ p = reply'[i].from /\ n = reply'[i].match
             /\ Keeps(tl2, T, p, n)'

\* Leader i leads before and after this step.
StillLeads(i) ==
    state[i] = "Leader" /\ state'[i] = "Leader" /\ currentTerm'[i] = currentTerm[i]

\* What a leader newly has an answer for was stored by a node of its term or before.
AckFacts ==
    \A i, p \in Node, n \in Nat : StillLeads(i) /\ AckedBy(i, p, n)' =>
        \/ AckedBy(i, p, n)
        \/ n = 0
        \/ currentTerm[p] <= currentTerm[i] /\ currentTerm'[p] = currentTerm[i]

MatchFacts ==
    \A i, p \in Node : StillLeads(i) =>
        matchIndex'[i][p] = 0 \/ AckedBy(i, p, matchIndex'[i][p])

\* A leader commits what a quorum stores, a follower what its leader has committed.
CommitFacts ==
    \A i \in Node :
        \/ commitIndex'[i] \in {0, commitIndex[i]}
        \/ /\ state[i] = "Leader" /\ UNCHANGED <<currentTerm, log>>
           /\ Has(log[i], commitIndex'[i], currentTerm[i])
           /\ Stored(i, commitIndex'[i]) \in SUBSET Node
           /\ Quorum(Stored(i, commitIndex'[i]))
        \/ \E l \in Node : /\ state[l] = "Leader" /\ currentTerm'[i] = currentTerm[l]
                           /\ commitIndex'[i] <= commitIndex[l]
                           /\ Agree(log'[i], log[l], commitIndex'[i])

AppliedFacts ==
    \A a \in applied' : a \in applied
        \/ \E i \in Node : /\ a.index \in 1 .. commitIndex'[i]
                           /\ a.entry = log'[i][a.index]
                           /\ a.term = currentTerm'[i]

StepFacts(tl, tl2) ==
    /\ TypeInv'
    /\ LedgerInv(tl2)'
    /\ VoteFacts
    /\ LogFacts(tl, tl2)
    /\ AnswerFacts(tl2)
    /\ AckFacts
    /\ MatchFacts
    /\ CommitFacts
    /\ AppliedFacts

-----------------------------------------------------------------------------
(***************************************************************************)
(* One leader per term.                                                    *)
(***************************************************************************)

LEMMA NilIsNoNode == Nil \notin Node
  BY MembershipAssumption

LEMMA BackersType ==
    ASSUME TypeInv, NEW c \in Node
    PROVE  Backers(c) \in SUBSET Node
  BY DEF TypeInv, Backers, Rounds, Replies

LEMMA BackersTypeNext ==
    ASSUME TypeInv', NEW c \in Node
    PROVE  Backers(c)' \in SUBSET Node
  BY DEF TypeInv, Backers, Rounds, Replies

\* A vote that is spent stays spent, unless its candidate steps down.
LEMMA SpentStays ==
    ASSUME TypeInv, TypeInv', CampaignInv, VoteFacts,
           NEW v \in Node, NEW c \in Node, NEW t \in Nat,
           Spent(v, t, c),
           v = c /\ currentTerm[c] = t /\ state[c] = "Candidate" => state'[c] # "Follower"
    PROVE  Spent(v, t, c)'
<1>1. /\ currentTerm[v] \in Nat /\ currentTerm'[v] >= currentTerm[v] /\ currentTerm[v] >= t
      /\ currentTerm'[v] >= t
  BY DEF TypeInv, VoteFacts, Spent
<1>2. ASSUME currentTerm'[v] = t
      PROVE  votedFor'[v] = c
  <2>1. currentTerm[v] = t /\ currentTerm'[v] = currentTerm[v] /\ votedFor[v] = c
    BY <1>1, <1>2 DEF Spent
  <2>2. ~(state[v] = "Candidate" /\ state'[v] = "Follower")
    BY <2>1 DEF CampaignInv
  <2>. QED  BY <2>1, <2>2, NilIsNoNode DEF VoteFacts
<1>. QED  BY <1>1, <1>2 DEF Spent

LEMMA CampaignStep ==
    ASSUME TypeInv, TypeInv', CampaignInv, VoteFacts
    PROVE  CampaignInv'
<1>. SUFFICES ASSUME NEW c \in Node, state'[c] = "Candidate"
              PROVE  /\ round'[c].term = currentTerm'[c]
                     /\ round'[c].lastTerm = LastTerm(log'[c])
                     /\ round'[c].lastIndex = Len(log'[c])
                     /\ reply'[c].kind # "append"
                     /\ reply'[c].kind = "vote" => reply'[c].asked = currentTerm'[c]
                     /\ c \in round'[c].granted
                     /\ votedFor'[c] = c
                     /\ \A v \in Backers(c)' : Spent(v, currentTerm[c], c)'
  BY DEF CampaignInv
<1>1. currentTerm[c] \in Nat /\ currentTerm'[c] \in Nat
  BY DEF TypeInv
<1>2. CASE Campaigns(c)
  <2>1. Spent(c, currentTerm[c], c)'
    BY <1>1, <1>2 DEF Campaigns, Spent
  <2>. QED  BY <1>2, <2>1 DEF Campaigns
<1>3. CASE Continues(c)
  <2>1. /\ state[c] = "Candidate" /\ currentTerm'[c] = currentTerm[c]
        /\ \A v \in Backers(c) : Spent(v, currentTerm[c], c)
        /\ c \in round[c].granted
    BY <1>3 DEF CampaignInv, Continues
  <2>2. ASSUME NEW v \in Backers(c)'
        PROVE  Spent(v, currentTerm[c], c)'
    <3>0. v \in Node
      BY BackersType, BackersTypeNext
    <3>1. CASE v \in Backers(c)
      <4>1. Spent(v, currentTerm[c], c)
        BY <2>1, <3>1
      <4>2. PICK t \in Nat : t = currentTerm[c]
        BY <1>1
      <4>3. Spent(v, t, c)'
        BY <3>0, <4>1, <4>2, SpentStays
      <4>. QED  BY <2>1, <4>2, <4>3 DEF Spent
    <3>2. CASE Grants(v, c)
      BY <1>1, <2>1, <3>2 DEF Grants, Spent
    <3>. QED  BY <1>3, <3>1, <3>2 DEF Continues
  <2>3. votedFor'[c] = c
    <3>1. c \in Backers(c)'
      BY <1>3, <2>1 DEF Continues, Backers
    <3>. QED  BY <2>2, <3>1 DEF Spent
  <2>. QED  BY <1>3, <2>1, <2>2, <2>3 DEF CampaignInv, Continues
<1>. QED  BY <1>2, <1>3 DEF VoteFacts

LEMMA RivalsStep ==
    ASSUME TypeInv, TypeInv', CampaignInv, RivalsInv, VoteFacts
    PROVE  RivalsInv'
<1>. SUFFICES ASSUME NEW c \in Node, NEW d \in Node,
                     state'[c] = "Candidate", state'[d] = "Candidate",
                     c # d, currentTerm'[c] = currentTerm'[d],
                     NEW v \in Backers(c)', v \in Backers(d)'
              PROVE  FALSE
  BY DEF RivalsInv
<1>0. /\ v \in Node /\ currentTerm[v] \in Nat
      /\ currentTerm[c] \in Nat /\ currentTerm[d] \in Nat
  BY BackersTypeNext DEF TypeInv
<1>1. ASSUME NEW x \in Node, NEW y \in Node, Campaigns(x), Continues(y), x # y,
             currentTerm'[x] = currentTerm'[y], x \in Backers(y)'
      PROVE  FALSE
  <2>1. CASE x \in Backers(y)
    <3>1. Spent(x, currentTerm[y], y)
      BY <1>1, <2>1 DEF CampaignInv, Continues
    <3>2. currentTerm[x] \in Nat /\ currentTerm[y] = currentTerm[x] + 1
      BY <1>1 DEF Campaigns, Continues, TypeInv
    <3>. QED  BY <3>1, <3>2 DEF Spent
  <2>2. CASE Grants(x, y)
    BY <1>1, <2>2 DEF Grants, Campaigns
  <2>. QED  BY <1>1, <2>1, <2>2 DEF Continues
<1>2. ASSUME NEW x \in Node, NEW y \in Node, Continues(x), Continues(y), x # y,
             currentTerm'[x] = currentTerm'[y], v \in Backers(x), Grants(v, y)
      PROVE  FALSE
  <2>1. Spent(v, currentTerm[x], x) /\ currentTerm[x] = currentTerm[y]
    BY <1>2 DEF CampaignInv, Continues
  <2>2. currentTerm[v] = currentTerm[y] /\ votedFor[v] = x
    <3>1. currentTerm[v] >= currentTerm[x] /\ currentTerm[v] <= currentTerm[y]
      BY <1>2, <2>1 DEF Spent, Grants
    <3>2. currentTerm[x] \in Nat /\ currentTerm[y] \in Nat
      BY DEF TypeInv
    <3>3. currentTerm[v] = currentTerm[y]
      BY <1>0, <2>1, <3>1, <3>2
    <3>. QED  BY <2>1, <3>3 DEF Spent
  <2>. QED  BY <1>2, <2>2, NilIsNoNode DEF Grants
<1>3. CASE Campaigns(c) /\ Campaigns(d)
  BY <1>3 DEF Campaigns
<1>4. CASE Campaigns(c) /\ Continues(d)
  <2>1. v = c
    BY <1>4 DEF Campaigns
  <2>. QED  BY <1>1, <1>4, <2>1
<1>5. CASE Continues(c) /\ Campaigns(d)
  <2>1. v = d
    BY <1>5 DEF Campaigns
  <2>. QED  BY <1>1, <1>5, <2>1
<1>6. CASE Continues(c) /\ Continues(d)
  <2>1. /\ v \in Backers(c) \/ Grants(v, c)
        /\ v \in Backers(d) \/ Grants(v, d)
    BY <1>6 DEF Continues
  <2>2. CASE v \in Backers(c) /\ v \in Backers(d)
    BY <1>6, <2>2 DEF RivalsInv, Continues
  <2>3. CASE v \in Backers(c) /\ Grants(v, d)
    BY <1>2, <1>6, <2>3
  <2>4. CASE Grants(v, c) /\ v \in Backers(d)
    BY <1>2, <1>6, <2>4
  <2>5. CASE Grants(v, c) /\ Grants(v, d)
    BY <2>5 DEF Grants
  <2>. QED  BY <2>1, <2>2, <2>3, <2>4, <2>5
<1>. QED  BY <1>3, <1>4, <1>5, <1>6 DEF VoteFacts

\* A quorum that has elected a leader keeps out everybody else.
LEMMA BackedStep ==
    ASSUME TypeInv, TypeInv', CampaignInv, VoteFacts, NEW e \in elected,
           NEW Q \in SUBSET Node, Backed(e, Q)
    PROVE  Backed(e, Q)'
<1>1. e.term \in Nat /\ e.leader \in Node
  BY DEF TypeInv
<1>2. ASSUME NEW v \in Q
      PROVE  Spent(v, e.term, e.leader)'
  <2>1. Spent(v, e.term, e.leader)
    BY DEF Backed
  <2>2. ~(v = e.leader /\ currentTerm[e.leader] = e.term /\ state[e.leader] = "Candidate")
    <3>. SUFFICES ASSUME v = e.leader, currentTerm[v] = e.term, state[v] = "Candidate"
                  PROVE  FALSE
      OBVIOUS
    <3>1. v \in Backers(v)
      BY DEF CampaignInv, Backers
    <3>. QED  BY <3>1 DEF Backed
  <2>. QED  BY <1>1, <2>1, <2>2, SpentStays
<1>3. ASSUME NEW c \in Node, state'[c] = "Candidate", currentTerm'[c] = e.term,
             NEW v \in Backers(c)', v \in Q
      PROVE  FALSE
  <2>1. Spent(v, e.term, e.leader) /\ currentTerm[v] \in Nat /\ currentTerm[c] \in Nat
    BY <1>3 DEF Backed, TypeInv
  <2>2. CASE Campaigns(c)
    <3>1. v = c /\ e.term = currentTerm[c] + 1
      BY <1>3, <2>2 DEF Campaigns
    <3>. QED  BY <2>1, <3>1 DEF Spent
  <2>3. CASE Continues(c) /\ v \in Backers(c)
    BY <1>3, <2>3 DEF Backed, Continues
  <2>4. CASE Continues(c) /\ Grants(v, c)
    <3>1. currentTerm[c] = e.term /\ state[c] = "Candidate"
      BY <1>3, <2>4 DEF Continues
    <3>2. currentTerm[v] = e.term
      BY <1>1, <2>1, <2>4, <3>1 DEF Spent, Grants
    <3>3. e.leader = c
      BY <1>1, <2>1, <2>4, <3>1, <3>2, NilIsNoNode DEF Spent, Grants
    <3>4. c \in Backers(c)
      BY <3>1 DEF CampaignInv, Backers
    <3>. QED  BY <3>1, <3>3, <3>4 DEF Backed
  <2>. QED  BY <1>3, <2>2, <2>3, <2>4 DEF VoteFacts, Continues
<1>. QED  BY <1>2, <1>3 DEF Backed

\* The winner of an election is the first of its term.
LEMMA WinnerIsFirst ==
    ASSUME QuorumsMeet, TypeInv, ElectedInv, NEW i \in Node, Wins(i), NEW f \in elected
    PROVE  f.term # currentTerm[i]
<1>. SUFFICES ASSUME f.term = currentTerm[i] PROVE FALSE
  OBVIOUS
<1>1. PICK S \in SUBSET Backers(i) : Quorum(S)
  BY DEF Wins
<1>2. PICK Q \in SUBSET Node : Backed(f, Q)
  BY DEF ElectedInv
<1>3. S \in SUBSET Node
  BY <1>1, BackersType
<1>4. PICK p \in Node : p \in S /\ p \in Q
  BY <1>1, <1>2, <1>3, QuorumMeets DEF Backed
<1>. QED  BY <1>1, <1>2, <1>4 DEF Backed, Wins

LEMMA ElectedStep ==
    ASSUME QuorumsMeet, TypeInv, TypeInv', CampaignInv, RivalsInv, ElectedInv, VoteFacts
    PROVE  /\ ElectedInv'
           /\ elected \subseteq elected'
<1>1. elected \subseteq elected'
  BY DEF VoteFacts, Wins
<1>2. ASSUME NEW e \in elected
      PROVE  \E Q \in SUBSET Node : Backed(e, Q)'
  BY BackedStep DEF ElectedInv
<1>3. ASSUME NEW i \in Node, state'[i] = "Leader"
      PROVE  [term |-> currentTerm'[i], leader |-> i] \in elected'
  <2>1. CASE state[i] = "Leader" /\ currentTerm'[i] = currentTerm[i]
    BY <1>1, <2>1 DEF ElectedInv
  <2>2. CASE Wins(i)
    BY <2>2 DEF Wins
  <2>. QED  BY <1>3, <2>1, <2>2 DEF VoteFacts
<1>4. CASE elected' = elected
  BY <1>1, <1>2, <1>3, <1>4 DEF ElectedInv
<1>5. ASSUME NEW i \in Node, Wins(i)
      PROVE  ElectedInv'
  <2> DEFINE new == [term |-> currentTerm[i], leader |-> i]
  <2>0. elected' = elected \cup {new} /\ new.term = currentTerm[i] /\ new.leader = i
    BY <1>5 DEF Wins
  <2>1. PICK S \in SUBSET Backers(i) : Quorum(S) /\ i \in S
    BY <1>5 DEF Wins
  <2>2. S \in SUBSET Node
    BY <2>1, BackersType
  <2>3. \A v \in S : Spent(v, currentTerm[i], i)
    BY <1>5, <2>1 DEF CampaignInv, Wins
  <2>4. ASSUME NEW c \in Node, state'[c] = "Candidate", currentTerm'[c] = currentTerm[i],
               NEW v \in Backers(c)', v \in S
        PROVE  FALSE
    <3>1. c # i
      BY <1>5, <2>4 DEF Wins, TypeInv
    <3>2. Continues(c)
      <4>1. ~Campaigns(c)
        BY <1>5 DEF Wins, Campaigns, TypeInv
      <4>. QED  BY <2>4, <4>1 DEF VoteFacts
    <3>3. CASE v \in Backers(c)
      BY <1>5, <2>1, <2>4, <3>1, <3>2, <3>3 DEF RivalsInv, Continues, Wins
    <3>4. CASE Grants(v, c)
      <4>1. votedFor[v] = c /\ currentTerm[v] = currentTerm[i]
        BY <1>5, <2>4, <3>2, <3>4 DEF Grants, Continues, Wins
      <4>. QED  BY <2>3, <2>4, <3>1, <4>1 DEF Spent
    <3>. QED  BY <2>4, <3>2, <3>3, <3>4 DEF Continues
  <2>5. ASSUME NEW e \in elected', e = new
        PROVE  Backed(e, S)'
    <3>0. e.term = currentTerm[i] /\ e.leader = i
      BY <2>0, <2>5
    <3>1. \A v \in S : Spent(v, e.term, e.leader)'
      BY <1>5, <2>3, <3>0 DEF Spent, Wins
    <3>2. \A c \in Node : state'[c] = "Candidate" /\ currentTerm'[c] = currentTerm[i]
             => Backers(c)' \cap S = {}
      BY <2>4
    <3>. QED  BY <2>1, <3>0, <3>1, <3>2 DEF Backed
  <2>6. \A e, f \in elected' : e.term = f.term => e = f
    <3>1. \A f \in elected : f.term # currentTerm[i]
      BY <1>5, WinnerIsFirst
    <3>. QED  BY <2>0, <3>1 DEF ElectedInv
  <2>7. \A e \in elected' : \E Q \in SUBSET Node : Backed(e, Q)'
    <3>. SUFFICES ASSUME NEW e \in elected'
                  PROVE  \E Q \in SUBSET Node : Backed(e, Q)'
      OBVIOUS
    <3>1. CASE e \in elected
      BY <1>2, <3>1
    <3>2. CASE e = new
      BY <2>2, <2>5, <3>2
    <3>. QED  BY <2>0, <3>1, <3>2
  <2>. QED  BY <1>3, <2>6, <2>7 DEF ElectedInv
<1>. QED  BY <1>1, <1>4, <1>5 DEF VoteFacts

-----------------------------------------------------------------------------
(***************************************************************************)
(* What is held stays held, what is chosen stays chosen.                   *)
(***************************************************************************)

LEMMA LogsStep ==
    ASSUME NEW tl, NEW tl2, TypeInv, TypeInv', LedgerInv(tl), LedgerInv(tl2)', LogsInv(tl),
           VoteFacts, LogFacts(tl, tl2)
    PROVE  LogsInv(tl2)'
<1>. SUFFICES ASSUME NEW i \in Node
              PROVE  /\ Rooted(tl2, log'[i])
                     /\ \A n \in DOMAIN log'[i] : log'[i][n].term <= currentTerm'[i]
                     /\ state'[i] = "Leader" => log'[i] = tl2[currentTerm'[i]]
  BY DEF LogsInv
<1>1. /\ log[i] \in Seq(Entries) /\ log'[i] \in Seq(Entries)
      /\ currentTerm[i] \in Nat /\ currentTerm'[i] \in Nat /\ currentTerm[i] <= currentTerm'[i]
  BY DEF TypeInv, VoteFacts
<1>2. state'[i] = "Leader" => log'[i] = tl2[currentTerm'[i]]
  BY DEF LogFacts
<1>3. CASE log'[i] = log[i]
  <2>1. Rooted(tl2, log[i])
    BY <1>1, RootedExtends DEF LogFacts, LogsInv
  <2>2. \A n \in DOMAIN log[i] : log[i][n].term \in Nat /\ log[i][n].term <= currentTerm[i]
    BY <1>1, SeqFacts DEF LogsInv
  <2>. QED  BY <1>1, <1>2, <1>3, <2>1, <2>2
<1>4. CASE currentTerm'[i] = currentTerm[i] /\ log'[i] = tl2[currentTerm[i]]
  BY <1>1, <1>2, <1>4 DEF LedgerInv
<1>5. CASE log'[i] = tl[currentTerm'[i]]
  <2>1. Rooted(tl, log'[i]) /\ \A n \in DOMAIN log'[i] : log'[i][n].term <= currentTerm'[i]
    BY <1>1, <1>5 DEF LedgerInv
  <2>2. Rooted(tl2, log'[i])
    BY <1>1, <2>1, RootedExtends DEF LogFacts
  <2>. QED  BY <1>2, <2>1, <2>2
<1>. QED  BY <1>3, <1>4, <1>5 DEF LogFacts, LogChange

\* An entry stays in a log if the leader who is obeyed has it.
LEMMA LogKeeps ==
    ASSUME NEW tl, NEW tl2, TypeInv, TypeInv', LedgerInv(tl), LedgerInv(tl2)', LogsInv(tl),
           LogFacts(tl, tl2), NEW p \in Node, NEW n \in Nat, NEW T \in Nat,
           Has(log[p], n, T),
           (\E e \in elected : e.term = currentTerm'[p]) => Has(tl[currentTerm'[p]], n, T)
    PROVE  Has(log'[p], n, T)
<1>1. /\ log[p] \in Seq(Entries) /\ log'[p] \in Seq(Entries)
      /\ currentTerm[p] \in Nat
  BY DEF TypeInv
<1>2. CASE log'[p] = log[p]
  BY <1>2
<1>3. CASE state[p] = "Leader" /\ log'[p] = tl2[currentTerm[p]]
  <2>1. Has(tl[currentTerm[p]], n, T)
    BY <1>3 DEF LogsInv
  <2>. QED  BY <1>1, <1>3, <2>1, HasExtends DEF LogFacts
<1>4. CASE (\E e \in elected : e.term = currentTerm'[p]) /\ log'[p] = tl[currentTerm'[p]]
  BY <1>4
<1>. QED  BY <1>2, <1>3, <1>4 DEF LogFacts, LogChange

LEMMA KeepsStep ==
    ASSUME NEW tl, NEW tl2, TypeInv, TypeInv', LedgerInv(tl), LedgerInv(tl2)', LogsInv(tl),
           VoteFacts, LogFacts(tl, tl2), NEW p \in Node, NEW T \in Nat, NEW n,
           Keeps(tl, T, p, n)
    PROVE  Keeps(tl2, T, p, n)'
<1>1. /\ log[p] \in Seq(Entries) /\ log'[p] \in Seq(Entries)
      /\ currentTerm[p] \in Nat /\ currentTerm'[p] \in Nat /\ currentTerm[p] <= currentTerm'[p]
      /\ Len(log'[p]) \in Nat /\ Len(log[p]) \in Nat
  BY SeqFacts DEF TypeInv, VoteFacts
<1>2. /\ tl[T] \in Seq(Entries) /\ Len(tl[T]) \in Nat
      /\ tl2[T] \in Seq(Entries) /\ Len(tl2[T]) \in Nat
      /\ Agree(tl[T], tl2[T], Len(tl[T]))
  BY LedgerFacts, LedgersFacts DEF LogFacts, Extends, LedgerInv
<1>3. n \in 0 .. Len(tl2[T]) /\ n \in Nat
  BY <1>2 DEF Keeps, Agree
<1>4. CASE n > 0 /\ currentTerm'[p] = T
  <2>1. currentTerm[p] = T /\ Agree(log[p], tl[T], n) /\ n \in 0 .. Len(tl[T])
    BY <1>1, <1>3, <1>4 DEF Keeps
  <2>2. Agree(log[p], tl2[T], n)
    BY SMTT(30), <1>2, <2>1 DEF Agree
  <2>3. Agree(log'[p], tl2[T], n)
    <3>1. CASE log'[p] = log[p]
      BY <2>2, <3>1
    <3>2. CASE log'[p] = tl2[currentTerm[p]]
      BY <1>2, <1>3, <2>1, <3>2 DEF Agree
    <3>3. CASE log'[p] = tl[currentTerm'[p]]
      <4>1. log'[p] = tl[T]
        BY <1>4, <3>3
      <4>. QED  BY SMTT(30), <1>2, <2>1, <4>1 DEF Agree
    <3>. QED  BY <3>1, <3>2, <3>3 DEF LogFacts, LogChange
  <2>. QED  BY <1>1, <1>3, <1>4, <2>3 DEF Keeps
<1>5. CASE ~(n > 0 /\ currentTerm'[p] = T)
  <2>1. n > 0 => currentTerm'[p] >= T
    BY <1>1, <1>3 DEF Keeps
  <2>. QED  BY <1>3, <1>5, <2>1 DEF Keeps
<1>. QED  BY <1>4, <1>5

\* Who has told a leader that it stores an entry of the leader's term has it.
LEMMA KeeperHas ==
    ASSUME NEW tl, TypeInv, LedgerInv(tl), NEW p \in Node, NEW T \in Nat,
           NEW n \in Nat, NEW k \in Nat, n <= k, Keeps(tl, T, p, k), Has(tl[T], n, T),
           currentTerm[p] <= T
    PROVE  Has(log[p], n, T) /\ currentTerm[p] = T
<1>1. n \in 1 .. Len(tl[T]) /\ k > 0 /\ currentTerm[p] = T /\ Agree(log[p], tl[T], k)
  BY LedgerFacts DEF Has, Keeps, TypeInv
<1>2. log[p] \in Seq(Entries)
  BY DEF TypeInv
<1>3. n \in 1 .. k /\ n \in 1 .. Len(log[p]) /\ log[p][n] = tl[T][n]
  BY <1>1, <1>2, SeqFacts DEF Agree
<1>. QED  BY <1>1, <1>2, <1>3, SeqFacts DEF Has

LEMMA HeldStep ==
    ASSUME NEW tl, NEW tl2, QuorumsMeet, TypeInv, TypeInv', CampaignInv,
           LedgerInv(tl), LedgerInv(tl2)', LogsInv(tl), VoteFacts, LogFacts(tl, tl2),
           NEW T \in Nat, NEW n \in Nat, NEW Q \in SUBSET Node, Quorum(Q),
           Has(tl[T], n, T), Held(tl, T, n, Q),
           \A p \in Q : currentTerm'[p] > T /\ currentTerm[p] <= T => Has(log[p], n, T)
    PROVE  Held(tl2, T, n, Q)'
<1>1. \A p \in Node : /\ currentTerm[p] \in Nat /\ currentTerm'[p] \in Nat
                      /\ currentTerm[p] <= currentTerm'[p]
  BY DEF TypeInv, VoteFacts
<1>2. \A p \in Q : currentTerm'[p] > T => Has(log[p], n, T)
  BY <1>1 DEF Held
<1>3. \A e \in elected : e.term \in Nat /\ (e.term > T => Has(tl[e.term], n, T))
  BY DEF TypeInv, Held
<1>4. ASSUME NEW e \in elected, e.term > T
      PROVE  Has(tl2[e.term], n, T)
  <2>1. tl2[e.term] \in Seq(Entries)
    BY <1>3, LedgersFacts DEF LedgerInv
  <2>. QED  BY <1>3, <1>4, <2>1, HasExtends DEF LogFacts
<1>5. ASSUME NEW e \in elected', e.term > T
      PROVE  Has(tl2[e.term], n, T)
  <2>1. CASE e \in elected
    BY <1>4, <1>5, <2>1
  <2>2. ASSUME NEW i \in Node, Wins(i), e \notin elected
        PROVE  Has(tl2[e.term], n, T)
    <3>1. e.term = currentTerm[i] /\ state[i] = "Candidate" /\ log'[i] = log[i]
          /\ state'[i] = "Leader" /\ currentTerm'[i] = currentTerm[i]
      BY <2>2 DEF Wins, TypeInv
    <3>2. PICK S \in SUBSET Backers(i) : Quorum(S)
      BY <2>2 DEF Wins
    <3>3. S \in SUBSET Node
      BY <3>2, BackersType
    <3>4. PICK p \in Node : p \in Q /\ p \in S
      BY <3>2, <3>3, QuorumMeets
    <3>5. Has(log[i], n, T)
      BY <1>5, <3>1, <3>2, <3>4 DEF Held
    <3>6. log'[i] = tl2[currentTerm'[i]]
      BY <3>1 DEF LogFacts
    <3>. QED  BY <3>1, <3>5, <3>6
  <2>. QED  BY <1>5, <2>1, <2>2 DEF VoteFacts
<1>6. ASSUME NEW p \in Q, currentTerm'[p] > T
      PROVE  Has(log'[p], n, T)
  <2>1. Has(log[p], n, T)
    BY <1>2, <1>6
  <2>2. (\E e \in elected : e.term = currentTerm'[p]) => Has(tl[currentTerm'[p]], n, T)
    BY <1>3, <1>6
  <2>. QED  BY <2>1, <2>2, LogKeeps
<1>7. ASSUME NEW c \in Node, state'[c] = "Candidate", currentTerm'[c] > T,
             NEW v \in Backers(c)', v \in Q
      PROVE  Has(log'[c], n, T)
  <2>1. CASE Campaigns(c)
    <3>1. v = c /\ log'[c] = log[c]
      BY <1>7, <2>1 DEF Campaigns
    <3>. QED  BY <1>2, <1>7, <3>1
  <2>2. CASE Continues(c)
    <3>1. state[c] = "Candidate" /\ currentTerm[c] = currentTerm'[c] /\ log'[c] = log[c]
      BY <2>2 DEF Continues
    <3>2. CASE v \in Backers(c)
      BY <1>7, <3>1, <3>2 DEF Held
    <3>3. CASE Grants(v, c)
      <4>1. currentTerm'[v] > T /\ UpToDate(round[c], log[v])
        BY <1>7, <3>1, <3>3 DEF Grants
      <4>2. Has(log[v], n, T)
        BY <1>2, <1>7, <4>1
      <4>3. Has(log[c], n, T)
        BY <1>3, <1>7, <3>1, <4>1, <4>2, UpToDateHas
      <4>. QED  BY <3>1, <4>3
    <3>. QED  BY <1>7, <2>2, <3>2, <3>3 DEF Continues
  <2>. QED  BY <1>7, <2>1, <2>2 DEF VoteFacts
<1>. QED  BY <1>5, <1>6, <1>7 DEF Held

\* A node with an entry that is held everywhere later keeps it.
LEMMA HolderKeeps ==
    ASSUME NEW tl, NEW tl2, TypeInv, TypeInv', LedgerInv(tl), LedgerInv(tl2)', LogsInv(tl),
           VoteFacts, LogFacts(tl, tl2),
           NEW T \in Nat, NEW n \in Nat, NEW p \in Node,
           Has(tl[T], n, T), \A e \in elected : e.term > T => Has(tl[e.term], n, T),
           currentTerm[p] >= T, Has(log[p], n, T)
    PROVE  Has(log'[p], n, T)
<1>1. currentTerm[p] \in Nat /\ currentTerm'[p] \in Nat /\ currentTerm[p] <= currentTerm'[p]
  BY DEF TypeInv, VoteFacts
<1>2. (\E e \in elected : e.term = currentTerm'[p]) => Has(tl[currentTerm'[p]], n, T)
  <2>1. currentTerm'[p] = T \/ currentTerm'[p] > T
    BY <1>1
  <2>. QED  BY <2>1
<1>. QED  BY <1>2, LogKeeps

LEMMA ChosenStep ==
    ASSUME NEW tl, NEW tl2, QuorumsMeet, TypeInv, TypeInv', CampaignInv,
           LedgerInv(tl), LedgerInv(tl2)', LogsInv(tl), VoteFacts, LogFacts(tl, tl2),
           NEW T \in Nat, NEW n \in Nat, Chosen(tl, T, n)
    PROVE  Chosen(tl2, T, n)'
<1>1. PICK Q \in SUBSET Node :
        /\ Quorum(Q)
        /\ Held(tl, T, n, Q)
        /\ \A p \in Q : currentTerm[p] >= T /\ Has(log[p], n, T)
  BY DEF Chosen
<1>2. Has(tl[T], n, T)
  BY DEF Chosen
<1>3. Held(tl2, T, n, Q)'
  BY <1>1, <1>2, HeldStep
<1>4. ASSUME NEW p \in Q
      PROVE  currentTerm'[p] >= T /\ Has(log'[p], n, T)
  <2>1. Has(log'[p], n, T)
    BY <1>1, <1>2, HolderKeeps DEF Held
  <2>2. /\ currentTerm[p] \in Nat /\ currentTerm'[p] \in Nat
        /\ currentTerm[p] <= currentTerm'[p] /\ currentTerm[p] >= T
    BY <1>1 DEF TypeInv, VoteFacts
  <2>. QED  BY <2>1, <2>2
<1>5. Has(tl2[T], n, T)
  <2>1. tl2[T] \in Seq(Entries)
    BY LedgersFacts DEF LedgerInv
  <2>. QED  BY <1>2, <2>1, HasExtends DEF LogFacts
<1>. QED  BY <1>1, <1>3, <1>4, <1>5 DEF Chosen

LEMMA AckedIsKept ==
    ASSUME NEW tl, TypeInv, AnswersInv(tl), MatchInv(tl), NEW i \in Node,
           state[i] = "Leader", NEW p \in Node, NEW n \in Nat, AckedBy(i, p, n)
    PROVE  \E k \in Nat : n <= k /\ Keeps(tl, currentTerm[i], p, k)
<1>1. CASE n <= matchIndex[i][p]
  BY <1>1 DEF MatchInv, TypeInv
<1>2. CASE /\ reply[i].kind = "append" /\ reply[i].ok
           /\ reply[i].from = p
           /\ reply[i].asked = currentTerm[i]
           /\ n <= reply[i].match
  <2>1. reply[i].match \in Nat
    BY DEF TypeInv, Replies
  <2>2. Keeps(tl, reply[i].asked, reply[i].from, reply[i].match)
    BY <1>2 DEF AnswersInv
  <2>. QED  BY <1>2, <2>1, <2>2
<1>. QED  BY <1>1, <1>2 DEF AckedBy

LEMMA ChoosableStep ==
    ASSUME NEW tl, NEW tl2, QuorumsMeet, MembershipInv(tl), StepFacts(tl, tl2)
    PROVE  ChoosableInv(tl2)'
<1>0. /\ TypeInv /\ TypeInv' /\ CampaignInv /\ ElectedInv /\ RivalsInv
      /\ LedgerInv(tl) /\ LogsInv(tl) /\ AnswersInv(tl) /\ MatchInv(tl) /\ ChoosableInv(tl)
      /\ LedgerInv(tl2)' /\ VoteFacts /\ LogFacts(tl, tl2) /\ AckFacts
  BY DEF MembershipInv, StepFacts
<1>. SUFFICES ASSUME NEW i \in Node, state'[i] = "Leader", NEW T \in Nat, T = currentTerm'[i],
                     NEW n \in Nat, NEW Q \in SUBSET Node,
                     Has(tl2[T], n, T), Quorum(Q),
                     \A p \in Q : currentTerm'[p] <= T \/ AckedBy(i, p, n)'
              PROVE  Held(tl2, T, n, Q)'
  <2>. SUFFICES ASSUME NEW i \in Node, state'[i] = "Leader", NEW n \in Nat, NEW Q \in SUBSET Node,
                     Has(tl2[currentTerm'[i]], n, currentTerm'[i]), Quorum(Q),
                     \A p \in Q : currentTerm'[p] <= currentTerm'[i] \/ AckedBy(i, p, n)'
                PROVE  Held(tl2, currentTerm[i], n, Q)'
    BY DEF ChoosableInv
  <2>1. PICK T \in Nat : T = currentTerm'[i]
    BY <1>0 DEF TypeInv
  <2>2. Held(tl2, T, n, Q)'
    BY <2>1
  <2>. QED  BY <2>1, <2>2 DEF Held
<1>1. /\ currentTerm[i] \in Nat
      /\ tl[T] \in Seq(Entries) /\ Len(tl[T]) \in Nat /\ DOMAIN tl[T] = 1 .. Len(tl[T])
      /\ \A p \in Q : /\ currentTerm[p] \in Nat /\ currentTerm'[p] \in Nat
                      /\ currentTerm[p] <= currentTerm'[p]
  BY <1>0, LedgerFacts DEF TypeInv, VoteFacts
<1>n. n # 0
  <2>1. tl2[T] \in Seq(Entries)
    BY <1>0, LedgersFacts DEF LedgerInv
  <2>. QED  BY <2>1, SeqFacts DEF Has
<1>2. StillLeads(i) /\ currentTerm[i] = T
  <2>1. ~Wins(i)
    <3>. SUFFICES ASSUME Wins(i) PROVE FALSE
      OBVIOUS
    <3>1. currentTerm[i] = T /\ tl2[T] = log[i]
      BY <1>0 DEF Wins, LogFacts
    <3>2. Has(log[i], n, T) /\ log[i] \in Seq(Entries) /\ Rooted(tl, log[i])
      BY <1>0, <3>1 DEF TypeInv, LogsInv
    <3>3. Agree(tl[T], log[i], n)
      BY <3>2, RootedHas
    <3>4. tl[T] # <<>>
      BY <1>1, <1>n, <3>3 DEF Agree
    <3>5. \E e \in elected : e.term = T
      BY <1>0, <3>4 DEF LedgerInv
    <3>. QED  BY <1>0, <3>1, <3>5, WinnerIsFirst
  <2>. QED  BY <1>0, <2>1 DEF VoteFacts, StillLeads
<1>3. \A p \in Q : currentTerm'[p] <= T \/ AckedBy(i, p, n)
  <2>. SUFFICES ASSUME NEW p \in Q, ~(currentTerm'[p] <= T)
                PROVE  AckedBy(i, p, n)
    OBVIOUS
  <2>1. AckedBy(i, p, n)'
    OBVIOUS
  <2>2. \/ AckedBy(i, p, n)
        \/ currentTerm[p] <= currentTerm[i] /\ currentTerm'[p] = currentTerm[i]
    BY <1>0, <1>2, <1>n, <2>1 DEF AckFacts
  <2>. QED  BY <1>1, <1>2, <2>2
<1>4. CASE Has(tl[T], n, T)
  <2>1. Held(tl, T, n, Q)
    <3>1. \A p \in Q : currentTerm[p] <= T \/ AckedBy(i, p, n)
      BY <1>1, <1>3
    <3>. QED  BY <1>0, <1>2, <1>4, <3>1 DEF ChoosableInv, StillLeads
  <2>2. ASSUME NEW p \in Q, currentTerm'[p] > T, currentTerm[p] <= T
        PROVE  Has(log[p], n, T)
    <3>1. AckedBy(i, p, n)
      BY <1>1, <1>3, <2>2
    <3>2. PICK k \in Nat : n <= k /\ Keeps(tl, T, p, k)
      BY <1>0, <1>2, <3>1, AckedIsKept DEF StillLeads
    <3>. QED  BY <1>0, <1>4, <2>2, <3>2, KeeperHas
  <2>. QED  BY <1>0, <1>4, <2>1, <2>2, HeldStep
<1>5. CASE ~Has(tl[T], n, T)
  <2>1. n \notin DOMAIN tl[T]
    <3>. SUFFICES ASSUME n \in DOMAIN tl[T] PROVE FALSE
      OBVIOUS
    <3>1. Agree(tl[T], tl2[T], Len(tl[T]))
      BY <1>0 DEF LogFacts, Extends
    <3>2. tl2[T][n] = tl[T][n]
      BY <1>1, <3>1 DEF Agree
    <3>. QED  BY <1>5, <3>2 DEF Has
  <2>2. \A p \in Q : currentTerm'[p] <= T
    <3>. SUFFICES ASSUME NEW p \in Q, ~(currentTerm'[p] <= T) PROVE FALSE
      OBVIOUS
    <3>1. PICK k \in Nat : n <= k /\ Keeps(tl, T, p, k)
      BY <1>0, <1>2, <1>3, AckedIsKept DEF StillLeads
    <3>2. n \in 0 .. Len(tl[T])
      BY <1>1, <3>1 DEF Keeps
    <3>. QED  BY <1>1, <1>n, <2>1, <3>2
  <2>3. ElectedInv'
    BY <1>0, ElectedStep
  <2>4. CampaignInv'
    BY <1>0, CampaignStep
  <2>5. ASSUME NEW e \in elected'
        PROVE  ~(e.term > T)
    <3>1. PICK R \in SUBSET Node : Backed(e, R)'
      BY <2>3 DEF ElectedInv
    <3>2. Quorum(R) /\ \A v \in R : currentTerm'[v] >= e.term
      BY <3>1 DEF Backed, Spent, Quorum, IsMajorityOf
    <3>3. PICK p \in Node : p \in R /\ p \in Q
      BY <3>2, QuorumMeets
    <3>4. e.term \in Nat /\ currentTerm'[p] \in Nat
      BY <1>0 DEF TypeInv
    <3>. QED  BY <2>2, <3>2, <3>3, <3>4
  <2>6. \A p \in Q : ~(currentTerm'[p] > T)
    BY <1>1, <2>2
  <2>7. ASSUME NEW c \in Node, state'[c] = "Candidate", currentTerm'[c] > T,
               NEW v \in Backers(c)', v \in Q
        PROVE  FALSE
    <3>1. currentTerm'[v] >= currentTerm'[c]
      BY <2>4, <2>7 DEF CampaignInv, Spent
    <3>2. currentTerm'[c] \in Nat
      BY <1>0 DEF TypeInv
    <3>. QED  BY <1>1, <2>2, <2>7, <3>1, <3>2
  <2>. QED  BY <2>5, <2>6, <2>7 DEF Held
<1>. QED  BY <1>4, <1>5

LEMMA AnswersStep ==
    ASSUME NEW tl, NEW tl2, MembershipInv(tl), StepFacts(tl, tl2)
    PROVE  AnswersInv(tl2)'
<1>0. /\ TypeInv /\ TypeInv' /\ LedgerInv(tl) /\ LogsInv(tl) /\ AnswersInv(tl)
      /\ LedgerInv(tl2)' /\ VoteFacts /\ LogFacts(tl, tl2) /\ AnswerFacts(tl2)
  BY DEF MembershipInv, StepFacts
<1>. SUFFICES ASSUME NEW i \in Node, reply'[i].kind = "append", reply'[i].ok,
                     NEW T \in Nat, NEW p \in Node, NEW n \in Nat,
                     T = reply'[i].asked, p = reply'[i].from, n = reply'[i].match
              PROVE  Keeps(tl2, T, p, n)'
  <2>1. \A i \in Node : reply'[i].kind = "append" =>
          reply'[i].asked \in Nat /\ reply'[i].from \in Node /\ reply'[i].match \in Nat
    BY <1>0 DEF TypeInv, Replies
  <2>. QED  BY <2>1 DEF AnswersInv, Keeps
<1>1. CASE reply'[i] = reply[i]
  <2>1. Keeps(tl, T, p, n)
    BY <1>0, <1>1 DEF AnswersInv
  <2>. QED  BY <1>0, <2>1, KeepsStep
<1>2. CASE \E TT \in Nat, pp \in Node, nn \in Nat :
             /\ TT = reply'[i].asked /\ pp = reply'[i].from /\ nn = reply'[i].match
             /\ Keeps(tl2, TT, pp, nn)'
  BY <1>2
<1>. QED  BY <1>0, <1>1, <1>2 DEF AnswerFacts

LEMMA MatchStep ==
    ASSUME NEW tl, NEW tl2, MembershipInv(tl), StepFacts(tl, tl2)
    PROVE  MatchInv(tl2)'
<1>0. /\ TypeInv /\ TypeInv' /\ LedgerInv(tl) /\ LogsInv(tl) /\ AnswersInv(tl)
      /\ MatchInv(tl) /\ LedgerInv(tl2)' /\ VoteFacts /\ LogFacts(tl, tl2) /\ MatchFacts
  BY DEF MembershipInv, StepFacts
<1>. SUFFICES ASSUME NEW i \in Node, NEW p \in Node, state'[i] = "Leader",
                     NEW T \in Nat, T = currentTerm'[i], NEW n \in Nat, n = matchIndex'[i][p]
              PROVE  Keeps(tl2, T, p, n)'
  <2>1. \A i, p \in Node : currentTerm'[i] \in Nat /\ matchIndex'[i][p] \in Nat
    BY <1>0 DEF TypeInv
  <2>. QED  BY <2>1 DEF MatchInv, Keeps
<1>1. CASE n = 0
  <2>1. Len(tl2[T]) \in Nat
    BY <1>0, LedgersFacts DEF LedgerInv
  <2>. QED  BY <1>1, <2>1 DEF Keeps
<1>2. CASE StillLeads(i) /\ n # 0
  <2>0. state[i] = "Leader" /\ currentTerm[i] = T /\ AckedBy(i, p, n)
    BY <1>0, <1>2 DEF StillLeads, MatchFacts
  <2>1. PICK k \in Nat : n <= k /\ Keeps(tl, T, p, k)
    BY <1>0, <2>0, AckedIsKept
  <2>2. Keeps(tl2, T, p, k)'
    BY <1>0, <2>1, KeepsStep
  <2>3. k > 0 /\ n \in 0 .. k
    BY <1>2, <2>1
  <2>4. n \in 0 .. Len(tl2[T])
    <3>1. Len(tl2[T]) \in Nat
      BY <1>0, LedgersFacts DEF LedgerInv
    <3>. QED  BY <2>2, <2>3, <3>1 DEF Keeps
  <2>5. /\ currentTerm'[p] >= T
        /\ currentTerm'[p] = T => Agree(log'[p], tl2[T], n)
    <3>1. /\ currentTerm'[p] >= T
          /\ currentTerm'[p] = T => Agree(log'[p], tl2[T], k)
      BY <2>2, <2>3 DEF Keeps
    <3>2. log'[p] \in Seq(Entries) /\ tl2[T] \in Seq(Entries)
      BY <1>0, LedgersFacts DEF LedgerInv, TypeInv
    <3>3. Len(log'[p]) \in Nat /\ Len(tl2[T]) \in Nat
      BY <3>2, SeqFacts
    <3>. QED  BY <2>3, <3>1, <3>3 DEF Agree
  <2>. QED  BY <2>4, <2>5 DEF Keeps
<1>3. CASE Wins(i)
  BY <1>1, <1>3 DEF Wins
<1>. QED  BY <1>0, <1>1, <1>2, <1>3 DEF VoteFacts, StillLeads

-----------------------------------------------------------------------------
(***************************************************************************)
(* What is committed and applied.                                          *)
(***************************************************************************)

\* What updateCommitIndex finds stored by a majority is chosen.
LEMMA CommittableIsChosen ==
    ASSUME NEW tl, MembershipInv(tl), NEW i \in Node, state[i] = "Leader",
           NEW T \in Nat, T = currentTerm[i], NEW n \in Nat, Has(log[i], n, T),
           Stored(i, n) \in SUBSET Node, Quorum(Stored(i, n))
    PROVE  Chosen(tl, T, n)
<1>0. /\ TypeInv /\ LedgerInv(tl) /\ LogsInv(tl) /\ MatchInv(tl) /\ ChoosableInv(tl)
  BY DEF MembershipInv
<1>1. PICK Q \in SUBSET Node : Q = Stored(i, n)
  OBVIOUS
<1>2. log[i] = tl[T] /\ Has(tl[T], n, T) /\ n # 0
  <2>1. log[i] = tl[T]
    BY <1>0 DEF LogsInv
  <2>2. log[i] \in Seq(Entries)
    BY <1>0 DEF TypeInv
  <2>. QED  BY <2>1, <2>2, SeqFacts DEF Has
<1>3. \A p \in Q : p # i => n <= matchIndex[i][p] /\ matchIndex[i][p] \in Nat
  BY <1>0, <1>1 DEF TypeInv, Stored
<1>4. Held(tl, T, n, Q)
  <2>1. \A p \in Q : currentTerm[p] <= T \/ AckedBy(i, p, n)
    BY <1>3 DEF AckedBy
  <2>. QED  BY <1>0, <1>1, <1>2, <2>1 DEF ChoosableInv
<1>5. ASSUME NEW p \in Q
      PROVE  currentTerm[p] >= T /\ Has(log[p], n, T)
  <2>1. CASE p = i
    BY <1>2, <2>1
  <2>2. CASE p # i
    <3>1. PICK k \in Nat : k = matchIndex[i][p] /\ n <= k /\ Keeps(tl, T, p, k)
      BY <1>0, <1>3, <2>2 DEF MatchInv
    <3>2. currentTerm[p] >= T /\ currentTerm[p] \in Nat
      BY <1>0, <1>2, <3>1 DEF Keeps, TypeInv
    <3>3. CASE currentTerm[p] > T
      BY <1>4, <3>2, <3>3 DEF Held
    <3>4. CASE currentTerm[p] <= T
      BY <1>0, <1>2, <3>1, <3>2, <3>4, KeeperHas
    <3>. QED  BY <3>2, <3>3, <3>4
  <2>. QED  BY <2>1, <2>2
<1>. QED  BY <1>1, <1>2, <1>4, <1>5 DEF Chosen

LEMMA AgreeExtends ==
    ASSUME NEW tl, NEW tl2, LedgerInv(tl), Extends(tl, tl2),
           NEW T \in Nat, NEW s, NEW n, Agree(s, tl[T], n)
    PROVE  Agree(s, tl2[T], n)
<1>1. Agree(tl[T], tl2[T], Len(tl[T])) /\ Len(tl[T]) \in Nat
  BY LedgerFacts DEF Extends
<1>. QED  BY <1>1 DEF Agree

LEMMA AgreeChain ==
    ASSUME NEW s, NEW t, NEW u, NEW m \in Nat, NEW n \in Nat, n <= m,
           Agree(s, t, n), Agree(t, u, m)
    PROVE  Agree(s, u, n)
  BY DEF Agree

\* A piece of a leader's log below a chosen entry stays in a log.
LEMMA PieceStays ==
    ASSUME NEW tl, NEW tl2, MembershipInv(tl), StepFacts(tl, tl2),
           NEW p \in Node, NEW T \in Nat, NEW n \in Nat, NEW c \in Nat, c <= n,
           T <= currentTerm[p], Chosen(tl, T, n), Agree(log[p], tl[T], c)
    PROVE  Agree(log'[p], tl2[T], c)
<1>0. /\ TypeInv /\ TypeInv' /\ LedgerInv(tl) /\ LogsInv(tl)
      /\ LedgerInv(tl2)' /\ VoteFacts /\ LogFacts(tl, tl2) /\ Extends(tl, tl2)
  BY DEF MembershipInv, StepFacts, LogFacts
<1>1. PICK u \in Nat, v \in Nat : u = currentTerm[p] /\ v = currentTerm'[p]
  BY <1>0 DEF TypeInv
<1>2. T <= u /\ u <= v
  BY <1>0, <1>1 DEF VoteFacts
<1>3. CASE log'[p] = log[p]
  BY <1>0, <1>3, AgreeExtends
<1>4. CASE state[p] = "Leader" /\ v = u /\ log'[p] = tl2[u]
  <2>1. log[p] = tl[u] /\ log[p] \in Seq(Entries)
    BY <1>0, <1>1, <1>4 DEF LogsInv, TypeInv
  <2>2. PICK L \in Nat : L = Len(log[p])
    BY <2>1, SeqFacts
  <2>3. Agree(tl[u], tl2[u], L)
    BY <1>0, <2>1, <2>2 DEF Extends
  <2>4. Agree(log[p], tl2[T], c)
    BY <1>0, AgreeExtends
  <2>5. c <= L /\ c \in 0 .. Len(tl2[u])
    BY <2>2, <2>3, <2>4 DEF Agree
  <2>. QED  BY <1>4, <2>1, <2>3, <2>4, <2>5 DEF Agree
<1>5. CASE (\E e \in elected : e.term = v) /\ log'[p] = tl[v]
  <2>1. Agree(tl[v], tl[T], c)
    <3>0. /\ tl[T] \in Seq(Entries) /\ Len(tl[T]) \in Nat /\ c \in 0 .. Len(tl[T])
      BY <1>0, LedgerFacts DEF Agree
    <3>1. CASE v = T
      BY <3>0, <3>1 DEF Agree
    <3>2. CASE v # T
      <4>1. Has(tl[v], n, T)
        <5>1. v > T
          BY <1>2, <3>2
        <5>. QED  BY <1>5, <5>1 DEF Chosen, Held
      <4>2. Agree(tl[T], tl[v], n)
        BY <1>0, <4>1, RootedHas DEF LedgerInv
      <4>. QED  BY <4>2 DEF Agree
    <3>. QED  BY <3>1, <3>2
  <2>. QED  BY <1>0, <1>5, <2>1, AgreeExtends
<1>6. LogChange(tl, tl2, p)
  BY <1>0 DEF LogFacts
<1>. QED  BY <1>1, <1>3, <1>4, <1>5, <1>6 DEF LogChange

LEMMA CommitStep ==
    ASSUME NEW tl, NEW tl2, QuorumsMeet, MembershipInv(tl), StepFacts(tl, tl2)
    PROVE  CommitInv(tl2)'
<1>0. /\ TypeInv /\ TypeInv' /\ CampaignInv /\ LedgerInv(tl) /\ LogsInv(tl) /\ CommitInv(tl)
      /\ LedgerInv(tl2)' /\ VoteFacts /\ LogFacts(tl, tl2) /\ Extends(tl, tl2) /\ CommitFacts
  BY DEF MembershipInv, StepFacts, LogFacts
<1>. SUFFICES ASSUME NEW i \in Node, NEW c \in Nat, c = commitIndex'[i], c # 0
              PROVE  \E T \in Nat, n \in Nat :
                        /\ T <= currentTerm'[i]
                        /\ Chosen(tl2, T, n)'
                        /\ c <= n
                        /\ Agree(log'[i], tl2[T], c)
  <2>1. \A i \in Node : commitIndex'[i] \in Nat
    BY <1>0 DEF TypeInv
  <2>. QED  BY <2>1 DEF CommitInv, Chosen
<1>1. /\ currentTerm[i] \in Nat /\ currentTerm'[i] \in Nat /\ currentTerm[i] <= currentTerm'[i]
  BY <1>0 DEF TypeInv, VoteFacts
<1>2. CASE c = commitIndex[i]
  <2>1. PICK T \in Nat, n \in Nat :
          T <= currentTerm[i] /\ Chosen(tl, T, n) /\ c <= n /\ Agree(log[i], tl[T], c)
    BY <1>0, <1>2 DEF CommitInv
  <2>2. Chosen(tl2, T, n)'
    BY <1>0, <2>1, ChosenStep
  <2>3. Agree(log'[i], tl2[T], c)
    BY <2>1, PieceStays
  <2>. QED  BY <1>1, <2>1, <2>2, <2>3
<1>3. CASE /\ state[i] = "Leader" /\ UNCHANGED <<currentTerm, log>>
           /\ Has(log[i], c, currentTerm[i])
           /\ Stored(i, c) \in SUBSET Node
           /\ Quorum(Stored(i, c))
  <2>1. PICK T \in Nat : T = currentTerm[i]
    BY <1>1
  <2>2. Chosen(tl, T, c)
    BY <1>3, <2>1, CommittableIsChosen
  <2>3. Chosen(tl2, T, c)'
    BY <1>0, <2>2, ChosenStep
  <2>4. Agree(log[i], tl[T], c)
    <3>1. log[i] = tl[T] /\ log[i] \in Seq(Entries)
      BY <1>0, <1>3, <2>1 DEF LogsInv, TypeInv
    <3>2. c \in 0 .. Len(log[i])
      BY <1>3, <3>1, SeqFacts DEF Has
    <3>. QED  BY <3>1, <3>2 DEF Agree
  <2>5. Agree(log'[i], tl2[T], c)
    BY <1>0, <1>3, <2>4, AgreeExtends
  <2>. QED  BY <1>1, <2>1, <2>3, <2>5
<1>4. ASSUME NEW l \in Node, currentTerm'[i] = currentTerm[l], c <= commitIndex[l],
             Agree(log'[i], log[l], c)
      PROVE  \E T \in Nat, n \in Nat :
                        /\ T <= currentTerm'[i]
                        /\ Chosen(tl2, T, n)'
                        /\ c <= n
                        /\ Agree(log'[i], tl2[T], c)
  <2>1. PICK m \in Nat : m = commitIndex[l]
    BY <1>0 DEF TypeInv
  <2>2. PICK T \in Nat, n \in Nat :
          T <= currentTerm[l] /\ Chosen(tl, T, n) /\ m <= n /\ Agree(log[l], tl[T], m)
    BY <1>0, <1>4, <2>1 DEF CommitInv
  <2>3. Chosen(tl2, T, n)'
    BY <1>0, <2>2, ChosenStep
  <2>4. Agree(log'[i], tl[T], c)
    BY <1>4, <2>1, <2>2, AgreeChain
  <2>5. Agree(log'[i], tl2[T], c)
    BY <1>0, <2>4, AgreeExtends
  <2>6. c <= n
    BY <1>4, <2>1, <2>2
  <2>. QED  BY <1>4, <2>2, <2>3, <2>5, <2>6
<1>. QED  BY <1>0, <1>2, <1>3, <1>4 DEF CommitFacts

LEMMA AppliedStep ==
    ASSUME NEW tl, NEW tl2, QuorumsMeet, MembershipInv(tl), StepFacts(tl, tl2)
    PROVE  AppliedInv(tl2)'
<1>0. /\ TypeInv /\ TypeInv' /\ CampaignInv /\ LedgerInv(tl) /\ LogsInv(tl) /\ AppliedInv(tl)
      /\ LedgerInv(tl2)' /\ VoteFacts /\ LogFacts(tl, tl2) /\ Extends(tl, tl2) /\ AppliedFacts
  BY DEF MembershipInv, StepFacts, LogFacts
<1>. SUFFICES ASSUME NEW a \in applied'
              PROVE  \E T \in Nat, n \in Nat :
                        /\ T <= a.term
                        /\ Chosen(tl2, T, n)'
                        /\ a.index \in 1 .. n
                        /\ a.entry = tl2[T][a.index]
  BY DEF AppliedInv, Chosen
<1>1. CASE a \in applied
  <2>1. PICK T \in Nat, n \in Nat :
          T <= a.term /\ Chosen(tl, T, n) /\ a.index \in 1 .. n /\ a.entry = tl[T][a.index]
    BY <1>0, <1>1 DEF AppliedInv
  <2>2. Chosen(tl2, T, n)'
    BY <1>0, <2>1, ChosenStep
  <2>3. tl2[T][a.index] = tl[T][a.index]
    <3>1. n \in 1 .. Len(tl[T]) /\ Len(tl[T]) \in Nat
      BY <1>0, <2>1, LedgerFacts DEF Chosen, Has
    <3>. QED  BY <1>0, <2>1, <3>1 DEF Extends, Agree
  <2>. QED  BY <2>1, <2>2, <2>3
<1>2. ASSUME NEW i \in Node, NEW c \in Nat, c = commitIndex'[i], a.index \in 1 .. c,
             a.entry = log'[i][a.index], a.term = currentTerm'[i]
      PROVE  \E T \in Nat, n \in Nat :
                        /\ T <= a.term
                        /\ Chosen(tl2, T, n)'
                        /\ a.index \in 1 .. n
                        /\ a.entry = tl2[T][a.index]
  <2>1. PICK T \in Nat, n \in Nat :
          /\ T <= currentTerm'[i]
          /\ Chosen(tl2, T, n)'
          /\ c <= n
          /\ Agree(log'[i], tl2[T], c)
    <3>1. c # 0
      BY <1>2
    <3>2. CommitInv(tl2)'
      BY CommitStep
    <3>. QED  BY <1>2, <3>1, <3>2 DEF CommitInv, Chosen
  <2>. QED  BY <1>2, <2>1 DEF Agree
<1>3. \A i \in Node : commitIndex'[i] \in Nat
  BY <1>0 DEF TypeInv
<1>. QED  BY <1>0, <1>1, <1>2, <1>3 DEF AppliedFacts

\* The invariant follows from the facts of a step.
LEMMA InvStep ==
    ASSUME NEW tl, NEW tl2, QuorumsMeet, MembershipInv(tl), StepFacts(tl, tl2)
    PROVE  MembershipInv(tl2)'
<1>0. /\ TypeInv /\ TypeInv' /\ CampaignInv /\ RivalsInv /\ ElectedInv /\ LedgerInv(tl)
      /\ LedgerInv(tl2)' /\ LogsInv(tl) /\ VoteFacts /\ LogFacts(tl, tl2)
  BY DEF MembershipInv, StepFacts
<1>1. CampaignInv' /\ RivalsInv' /\ ElectedInv'
  BY <1>0, CampaignStep, RivalsStep, ElectedStep
<1>2. LogsInv(tl2)' /\ AnswersInv(tl2)' /\ MatchInv(tl2)'
  BY <1>0, LogsStep, AnswersStep, MatchStep
<1>3. ChoosableInv(tl2)' /\ CommitInv(tl2)' /\ AppliedInv(tl2)'
  BY ChoosableStep, CommitStep, AppliedStep
<1>. QED  BY <1>0, <1>1, <1>2, <1>3 DEF MembershipInv

-----------------------------------------------------------------------------
(***************************************************************************)
(* The facts of each action: what they have in common.                     *)
(***************************************************************************)

LEMMA ExtendsItself ==
    ASSUME NEW tl, LedgerInv(tl)
    PROVE  Extends(tl, tl)
<1>. SUFFICES ASSUME NEW t \in Nat PROVE Agree(tl[t], tl[t], Len(tl[t]))
  BY DEF Extends
<1>1. Len(tl[t]) \in Nat
  BY LedgerFacts
<1>. QED  BY <1>1 DEF Agree

LEMMA LedgerStays ==
    ASSUME NEW tl, LedgerInv(tl), elected' = elected
    PROVE  LedgerInv(tl)'
  BY DEF LedgerInv, Rooted, Agree, Ledgers

\* Nobody comes to lead and no log changes.
LEMMA LogsSame ==
    ASSUME NEW tl, MembershipInv(tl), log' = log,
           \A i \in Node : state'[i] = "Leader" => StillLeads(i)
    PROVE  LogFacts(tl, tl)
<1>1. LedgerInv(tl) /\ LogsInv(tl)
  BY DEF MembershipInv
<1>2. \A i \in Node : state'[i] = "Leader" => log'[i] = tl[currentTerm'[i]]
  BY <1>1 DEF LogsInv, StillLeads
<1>. QED  BY <1>1, <1>2, ExtendsItself DEF LogFacts, LogChange

LEMMA SameCandidate ==
    ASSUME CampaignInv, NEW c \in Node, state[c] = "Candidate",
           currentTerm'[c] = currentTerm[c], log'[c] = log[c],
           round'[c] = round[c], reply'[c] = reply[c]
    PROVE  Continues(c)
  BY DEF CampaignInv, Continues, Backers

NoMatches == [j \in Node |-> 0]

\* Nothing new is acknowledged at i.
LEMMA AcksSame ==
    ASSUME TypeInv, NEW i \in Node, NEW p \in Node, NEW n \in Nat,
           currentTerm'[i] = currentTerm[i],
           matchIndex'[i] \in {matchIndex[i], NoMatches},
           reply'[i] = reply[i] \/ ~(reply'[i].kind = "append" /\ reply'[i].ok),
           AckedBy(i, p, n)'
    PROVE  AckedBy(i, p, n) \/ n = 0
  BY DEF AckedBy, NoMatches, TypeInv

LEMMA MatchesSame ==
    ASSUME TypeInv, NEW i \in Node, NEW p \in Node,
           matchIndex'[i] \in {matchIndex[i], NoMatches}
    PROVE  matchIndex'[i][p] = 0 \/ AckedBy(i, p, matchIndex'[i][p])
  BY DEF AckedBy, NoMatches, TypeInv

\* Terms, votes, roles, logs and what is committed stay as they are.
LEMMA IdleFacts ==
    ASSUME NEW tl, MembershipInv(tl), TypeInv',
           UNCHANGED <<protocol, log, commitIndex, matchIndex, applied>>
    PROVE  StepFacts(tl, tl)
<1>0. /\ TypeInv /\ CampaignInv /\ LedgerInv(tl)
      /\ UNCHANGED <<state, currentTerm, votedFor, round, reply, elected>>
      /\ UNCHANGED <<log, commitIndex, matchIndex, applied>>
  BY DEF MembershipInv, protocol
<1>1. VoteFacts
  <2>1. \A v \in Node : currentTerm[v] >= currentTerm[v]
    BY <1>0 DEF TypeInv
  <2>. QED  BY <1>0, <2>1, SameCandidate DEF VoteFacts
<1>2. LogFacts(tl, tl) /\ LedgerInv(tl)'
  BY <1>0, LogsSame, LedgerStays DEF StillLeads
<1>3. AnswerFacts(tl) /\ CommitFacts /\ AppliedFacts
  BY <1>0 DEF AnswerFacts, CommitFacts, AppliedFacts
<1>4. AckFacts /\ MatchFacts
  <2>1. \A i, p \in Node, n \in Nat : AckedBy(i, p, n)' => AckedBy(i, p, n)
    BY <1>0 DEF AckedBy
  <2>. QED  BY <1>0, <2>1, MatchesSame DEF AckFacts, MatchFacts
<1>. QED  BY <1>1, <1>2, <1>3, <1>4 DEF StepFacts

\* Two nodes do not lead in one term.
LEMMA OneLeads ==
    ASSUME TypeInv, ElectedInv, NEW i \in Node, NEW j \in Node, state[i] = "Leader",
           state[j] = "Leader", currentTerm[i] = currentTerm[j]
    PROVE  i = j
<1>1. /\ [term |-> currentTerm[i], leader |-> i] \in elected
      /\ [term |-> currentTerm[j], leader |-> j] \in elected
  BY DEF ElectedInv
<1>. QED  BY <1>1 DEF ElectedInv

LEMMA AppendIs ==
    ASSUME NEW s \in Seq(Entries), NEW e \in Entries
    PROVE  /\ Append(s, e) \in Seq(Entries)
           /\ Len(Append(s, e)) = Len(s) + 1
           /\ \A k \in 1 .. Len(s) : Append(s, e)[k] = s[k]
           /\ Append(s, e)[Len(s) + 1] = e
  OBVIOUS

\* A leader appends an entry of its term.
LEMMA AppendFacts ==
    ASSUME NEW tl, MembershipInv(tl), NEW i \in Node, NEW e \in Entries,
           state[i] = "Leader", e.term = currentTerm[i], AppendEntry(i, e),
           UNCHANGED <<protocol, commitIndex, matchIndex, config, standing, applied,
                       restarts, finished>>,
           admin' \in [Node -> Changes]
    PROVE  \E tl2 : StepFacts(tl, tl2)
<1>0. /\ TypeInv /\ CampaignInv /\ ElectedInv /\ LedgerInv(tl) /\ LogsInv(tl)
      /\ UNCHANGED <<state, currentTerm, votedFor, round, reply, elected>>
      /\ UNCHANGED <<commitIndex, matchIndex, config, standing, applied, restarts, finished>>
  BY DEF MembershipInv, protocol
<1>1. PICK T \in Nat : T = currentTerm[i]
  BY <1>0 DEF TypeInv
<1>2. PICK s \in Seq(Entries) : s = log[i] /\ s = tl[T]
  BY <1>0, <1>1 DEF TypeInv, LogsInv
<1>3. PICK L \in Nat : L = Len(s)
  BY SeqFacts
<1>4. PICK b : b = Append(s, e)
  OBVIOUS
<1>5. /\ b \in Seq(Entries) /\ Len(b) = L + 1 /\ DOMAIN b = 1 .. L + 1
      /\ \A k \in 1 .. L : b[k] = s[k]
      /\ b[L + 1] = e
  BY <1>3, <1>4, AppendIs, SeqFacts
<1> DEFINE tl2 == [tl EXCEPT ![T] = b]
<1>6. /\ tl2 \in Ledgers /\ tl2[T] = b
      /\ \A t \in Nat : t # T => tl2[t] = tl[t]
  BY <1>0, <1>5 DEF LedgerInv, Ledgers
<1>7. Extends(tl, tl2)
  <2>. HIDE DEF tl2
  <2>. SUFFICES ASSUME NEW t \in Nat PROVE Agree(tl[t], tl2[t], Len(tl[t]))
    BY DEF Extends
  <2>1. CASE t = T
    BY <1>2, <1>3, <1>5, <1>6, <2>1 DEF Agree
  <2>2. CASE t # T
    BY <1>0, <1>6, <2>2, LedgerFacts DEF Agree
  <2>. QED  BY <2>1, <2>2
<1>8. log' = [log EXCEPT ![i] = b]
  BY <1>2, <1>4 DEF AppendEntry
<1>9. /\ log' \in [Node -> Seq(Entries)] /\ log'[i] = b
      /\ \A j \in Node : j # i => log'[j] = log[j]
  BY <1>0, <1>5, <1>8 DEF TypeInv
<1> HIDE DEF tl2
<1>10. TypeInv'
  <2>1. ASSUME NEW j \in Node
        PROVE  commitIndex[j] <= Len(log'[j])
    <3>1. CASE j = i
      <4>1. commitIndex[i] <= L /\ commitIndex[i] \in Nat
        BY <1>0, <1>2, <1>3 DEF TypeInv
      <4>. QED  BY <1>5, <1>9, <3>1, <4>1
    <3>2. CASE j # i
      BY <1>0, <1>9, <3>2 DEF TypeInv
    <3>. QED  BY <3>1, <3>2
  <2>. QED  BY <1>0, <1>9, <2>1 DEF TypeInv
<1>11. LedgerInv(tl2)'
  <2>. SUFFICES ASSUME NEW t \in Nat
                PROVE  /\ Rooted(tl2, tl2[t])
                       /\ \A n \in DOMAIN tl2[t] : tl2[t][n].term <= t
                       /\ tl2[t] # <<>> => \E f \in elected : f.term = t
    BY <1>0, <1>6 DEF LedgerInv, Rooted, Agree, Ledgers
  <2>1. tl[t] \in Seq(Entries) /\ Rooted(tl, tl[t])
    BY <1>0, LedgerFacts DEF LedgerInv
  <2>2. Rooted(tl2, tl[t])
    BY <1>0, <1>7, <2>1, RootedExtends
  <2>3. CASE t # T
    BY <1>0, <1>6, <2>2, <2>3 DEF LedgerInv
  <2>4. CASE t = T
    <3>1. ASSUME NEW n \in 1 .. L
          PROVE  Agree(tl2[b[n].term], b, n) /\ b[n].term <= T
      <4>1. n \in DOMAIN s /\ b[n] = s[n]
        BY <1>3, <1>5, SeqFacts
      <4>2. Agree(tl2[s[n].term], s, n)
        BY <1>2, <2>2, <2>4, <4>1 DEF Rooted
      <4>3. s[n].term <= T
        BY <1>0, <1>2, <4>1 DEF LedgerInv
      <4>. QED  BY <1>3, <1>5, <4>1, <4>2, <4>3 DEF Agree
    <3>2. Agree(tl2[b[L + 1].term], b, L + 1) /\ b[L + 1].term <= T
      BY <1>1, <1>5, <1>6 DEF Agree
    <3>3. \A n \in DOMAIN b : Agree(tl2[b[n].term], b, n) /\ b[n].term <= T
      <4>1. \A n \in 1 .. L + 1 : n \in 1 .. L \/ n = L + 1
        OBVIOUS
      <4>. QED  BY <1>5, <3>1, <3>2, <4>1
    <3>4. \E f \in elected : f.term = T
      <4>1. [term |-> currentTerm[i], leader |-> i] \in elected
        BY <1>0 DEF ElectedInv
      <4>. QED  BY <1>1, <4>1
    <3>. QED  BY <1>6, <2>4, <3>3, <3>4 DEF Rooted
  <2>. QED  BY <2>3, <2>4
<1>12. LogFacts(tl, tl2)
  <2>1. ASSUME NEW j \in Node, state'[j] = "Leader"
        PROVE  log'[j] = tl2[currentTerm'[j]]
    <3>1. CASE j = i
      BY <1>0, <1>1, <1>6, <1>9, <3>1
    <3>2. CASE j # i
      <4>1. currentTerm[j] # T /\ currentTerm[j] \in Nat
        BY <1>0, <1>1, <2>1, <3>2, OneLeads DEF TypeInv
      <4>2. log[j] = tl[currentTerm[j]]
        BY <1>0, <2>1 DEF LogsInv
      <4>. QED  BY <1>0, <1>6, <1>9, <3>2, <4>1, <4>2
    <3>. QED  BY <3>1, <3>2
  <2>2. \A j \in Node : LogChange(tl, tl2, j)
    BY <1>0, <1>1, <1>6, <1>9 DEF LogChange
  <2>. QED  BY <1>7, <2>1, <2>2 DEF LogFacts
<1>13. VoteFacts
  <2>1. \A v \in Node : currentTerm[v] >= currentTerm[v]
    BY <1>0 DEF TypeInv
  <2>2. \A c \in Node : state'[c] = "Candidate" => Continues(c)
    <3>1. \A c \in Node : state[c] = "Candidate" => log'[c] = log[c]
      BY <1>9
    <3>. QED  BY <1>0, <3>1, SameCandidate
  <2>. QED  BY <1>0, <2>1, <2>2 DEF VoteFacts
<1>14. AnswerFacts(tl2) /\ CommitFacts /\ AppliedFacts
  BY <1>0 DEF AnswerFacts, CommitFacts, AppliedFacts
<1>15. AckFacts /\ MatchFacts
  <2>1. \A j, p \in Node, n \in Nat : AckedBy(j, p, n)' => AckedBy(j, p, n)
    BY <1>0 DEF AckedBy
  <2>. QED  BY <1>0, <2>1, MatchesSame DEF AckFacts, MatchFacts
<1>16. StepFacts(tl, tl2)
  BY <1>10, <1>11, <1>12, <1>13, <1>14, <1>15 DEF StepFacts
<1>. QED  BY <1>16

-----------------------------------------------------------------------------
(***************************************************************************)
(* The facts of each action: elections.                                    *)
(***************************************************************************)

LEMMA NoReplyIs == NoReply \in Replies /\ NoReply.kind = "none" /\ ~NoReply.ok
  BY DEF NoReply, Replies

LEMMA NoRoundIs == NoRound \in Rounds /\ NoRound.todo = {}
  BY DEF NoRound, Rounds

LEMMA LastTermType ==
    ASSUME NEW s \in Seq(Entries)
    PROVE  LastTerm(s) \in Nat
<1>1. CASE s = <<>>
  BY <1>1 DEF LastTerm
<1>2. CASE s # <<>>
  <2>1. Len(s) \in DOMAIN s
    BY <1>2, SeqFacts
  <2>. QED  BY <1>2, <2>1, SeqFacts DEF LastTerm, Last
<1>. QED  BY <1>1, <1>2

LEMMA PeersType ==
    ASSUME TypeInv, NEW i \in Node
    PROVE  PeersOf(i) \in SUBSET Node /\ i \notin PeersOf(i)
  BY DEF TypeInv, PeersOf, Members, Configs

LEMMA StartElectionFacts ==
    ASSUME NEW tl, MembershipInv(tl), NEW i \in Node, StartElection(i)
    PROVE  StepFacts(tl, tl)
<1>0. /\ TypeInv /\ CampaignInv /\ LedgerInv(tl)
      /\ UNCHANGED <<reply, elected, log, commitIndex, matchIndex, config, standing, applied,
                     admin, restarts, finished>>
  BY DEF MembershipInv, StartElection, data
<1>1. /\ state' = [state EXCEPT ![i] = "Candidate"]
      /\ currentTerm' = [currentTerm EXCEPT ![i] = currentTerm[i] + 1]
      /\ votedFor' = [votedFor EXCEPT ![i] = i]
      /\ round' = [round EXCEPT ![i] = [term |-> currentTerm[i] + 1,
                    lastTerm |-> LastTerm(log[i]), lastIndex |-> Len(log[i]),
                    todo |-> PeersOf(i), granted |-> {i}]]
      /\ reply[i] = NoReply
  BY DEF StartElection
<1>2. /\ state' \in [Node -> Roles] /\ state'[i] = "Candidate"
      /\ \A j \in Node : j # i => state'[j] = state[j]
  BY <1>0, <1>1 DEF TypeInv, Roles
<1>3. /\ currentTerm' \in [Node -> Nat] /\ currentTerm'[i] = currentTerm[i] + 1
      /\ \A j \in Node : j # i => currentTerm'[j] = currentTerm[j]
      /\ currentTerm[i] \in Nat
  BY <1>0, <1>1 DEF TypeInv
<1>4. /\ votedFor' \in [Node -> Node \cup {Nil}] /\ votedFor'[i] = i
      /\ \A j \in Node : j # i => votedFor'[j] = votedFor[j]
  BY <1>0, <1>1 DEF TypeInv
<1>5. PICK r \in Rounds : /\ round' = [round EXCEPT ![i] = r]
                          /\ r.term = currentTerm[i] + 1
                          /\ r.lastTerm = LastTerm(log[i]) /\ r.lastIndex = Len(log[i])
                          /\ i \notin r.todo /\ r.granted = {i}
  <2>1. log[i] \in Seq(Entries)
    BY <1>0 DEF TypeInv
  <2>2. LastTerm(log[i]) \in Nat /\ Len(log[i]) \in Nat
    BY <2>1, LastTermType, SeqFacts
  <2> DEFINE q == [term |-> currentTerm[i] + 1, lastTerm |-> LastTerm(log[i]),
                   lastIndex |-> Len(log[i]), todo |-> PeersOf(i), granted |-> {i}]
  <2>3. PeersOf(i) \in SUBSET Node /\ i \notin PeersOf(i)
    BY <1>0, PeersType
  <2>4. /\ q \in Rounds
        /\ q.term = currentTerm[i] + 1
        /\ q.lastTerm = LastTerm(log[i]) /\ q.lastIndex = Len(log[i])
        /\ i \notin q.todo /\ q.granted = {i}
    BY <1>3, <2>2, <2>3 DEF Rounds
  <2>5. round' = [round EXCEPT ![i] = q]
    BY <1>1
  <2>. HIDE DEF q
  <2>. QED  BY <2>4, <2>5
<1>6. /\ round' \in [Node -> Rounds] /\ round'[i] = r
      /\ \A j \in Node : j # i => round'[j] = round[j]
  BY <1>0, <1>5 DEF TypeInv
<1>7. TypeInv'
  BY <1>0, <1>2, <1>3, <1>4, <1>5, <1>6 DEF TypeInv
<1>8. VoteFacts
  <2>1. \A v \in Node : currentTerm'[v] >= currentTerm[v]
    <3>1. \A v \in Node : currentTerm[v] \in Nat
      BY <1>0 DEF TypeInv
    <3>. QED  BY <1>3, <3>1
  <2>2. \A v \in Node : votedFor'[v] # votedFor[v] => currentTerm'[v] # currentTerm[v]
    BY <1>3, <1>4
  <2>3. Campaigns(i)
    <3>1. Backers(i)' = {i}
      BY <1>0, <1>1, <1>5, <1>6, NoReplyIs DEF Backers
    <3>. QED  BY <1>0, <1>1, <1>3, <1>4, <1>5, <1>6, <3>1, NoReplyIs DEF Campaigns
  <2>4. \A c \in Node : c # i /\ state'[c] = "Candidate" => Continues(c)
    BY <1>0, <1>2, <1>3, <1>6, SameCandidate
  <2>5. \A j \in Node : state'[j] = "Leader" =>
          state[j] = "Leader" /\ currentTerm'[j] = currentTerm[j]
    BY <1>2, <1>3
  <2>. QED  BY <1>0, <2>1, <2>2, <2>3, <2>4, <2>5 DEF VoteFacts
<1>9. LogFacts(tl, tl) /\ LedgerInv(tl)'
  <2>1. \A j \in Node : state'[j] = "Leader" => StillLeads(j)
    BY <1>2, <1>3 DEF StillLeads
  <2>. QED  BY <1>0, <2>1, LogsSame, LedgerStays
<1>10. AnswerFacts(tl) /\ CommitFacts /\ AppliedFacts
  BY <1>0 DEF AnswerFacts, CommitFacts, AppliedFacts
<1>11. AckFacts /\ MatchFacts
  <2>1. \A j, p \in Node, n \in Nat : StillLeads(j) /\ AckedBy(j, p, n)' => AckedBy(j, p, n)
    BY <1>0 DEF AckedBy, StillLeads
  <2>. QED  BY <1>0, <2>1, MatchesSame DEF AckFacts, MatchFacts
<1>. QED  BY <1>7, <1>8, <1>9, <1>10, <1>11 DEF StepFacts

LEMMA HandleRequestVoteFacts ==
    ASSUME NEW tl, MembershipInv(tl), NEW i \in Node, NEW j \in Node, HandleRequestVote(i, j)
    PROVE  StepFacts(tl, tl)
<1>0. /\ TypeInv /\ CampaignInv /\ LedgerInv(tl)
      /\ UNCHANGED <<elected, log, commitIndex, matchIndex, config, standing, applied,
                     admin, restarts, finished>>
  BY DEF MembershipInv, HandleRequestVote, data
<1>1. PICK u \in Nat, v \in Nat : u = round[i].term /\ v = currentTerm[j]
  BY <1>0 DEF TypeInv, Rounds
<1>2. PICK g \in BOOLEAN : g = GrantsVote(j, i)
  BY DEF GrantsVote, Hears, UpToDate
<1>3. g => /\ u >= v
           /\ u = v => votedFor[j] \in {Nil, i}
           /\ UpToDate(round[i], log[j])
           /\ Hears(j, i)
  <2>. SUFFICES ASSUME g
                PROVE  /\ u >= v
                       /\ u = v => votedFor[j] \in {Nil, i}
                       /\ UpToDate(round[i], log[j])
                       /\ Hears(j, i)
    OBVIOUS
  <2>1. GrantsVote(j, i)
    BY <1>2
  <2>2. /\ round[i].term >= currentTerm[j]
        /\ round[i].term > currentTerm[j] \/ votedFor[j] \in {Nil, i}
        /\ UpToDate(round[i], log[j])
        /\ Hears(j, i)
    BY <2>1 DEF GrantsVote
  <2>. QED  BY <1>1, <2>2
<1>4. /\ reply[i] = NoReply
      /\ j \in round[i].todo
      /\ round' = [round EXCEPT ![i].todo = @ \ {j}]
  BY DEF HandleRequestVote
<1>5. j # i
  BY <1>0, <1>4 DEF TypeInv
<1>6. /\ round' \in [Node -> Rounds]
      /\ \A c \in Node : c # i => round'[c] = round[c]
      /\ round'[i].term = u /\ round'[i].lastTerm = round[i].lastTerm
      /\ round'[i].lastIndex = round[i].lastIndex /\ round'[i].granted = round[i].granted
      /\ \A c \in Node : c \notin round'[c].todo
  <2>1. PICK q \in Rounds : /\ q = [round[i] EXCEPT !.todo = @ \ {j}]
                            /\ q.term = u /\ q.lastTerm = round[i].lastTerm
                            /\ q.lastIndex = round[i].lastIndex
                            /\ q.granted = round[i].granted /\ i \notin q.todo
    <3>1. round[i] \in Rounds /\ i \notin round[i].todo
      BY <1>0 DEF TypeInv
    <3> DEFINE q == [round[i] EXCEPT !.todo = @ \ {j}]
    <3>2. /\ q \in Rounds /\ q.term = u /\ q.lastTerm = round[i].lastTerm
          /\ q.lastIndex = round[i].lastIndex /\ q.granted = round[i].granted
          /\ q.todo = round[i].todo \ {j}
      BY <1>1, <3>1 DEF Rounds
    <3>. QED  BY <3>1, <3>2, Zenon
  <2>2. round' = [round EXCEPT ![i] = q]
    BY <1>4, <2>1
  <2>. QED  BY <1>0, <2>1, <2>2 DEF TypeInv
<1>7. PICK r \in Replies : /\ reply' \in {reply, [reply EXCEPT ![i] = r]}
                           /\ r.kind = "vote" /\ r.from = j /\ r.asked = u /\ r.ok = g
  <2> DEFINE q == [NoReply EXCEPT !.kind = "vote", !.from = j, !.asked = u,
                      !.ok = g, !.term = IF g THEN u ELSE v]
  <2>1. /\ q \in Replies
        /\ q.kind = "vote" /\ q.from = j /\ q.asked = u /\ q.ok = g
    BY DEF NoReply, Replies
  <2>2. reply' \in {reply, [reply EXCEPT ![i] = q]}
    BY <1>1, <1>2 DEF HandleRequestVote, Answer
  <2>. HIDE DEF q
  <2>. QED  BY <2>1, <2>2
<1>8. /\ reply' \in [Node -> Replies]
      /\ \A c \in Node : c # i => reply'[c] = reply[c]
      /\ reply'[i] = NoReply \/ reply'[i] = r
      /\ \A c \in Node : reply'[c].kind # "none" => reply'[c].from \in Node
  BY <1>0, <1>4, <1>7, NoReplyIs DEF TypeInv
<1>9. /\ state' \in [Node -> Roles] /\ currentTerm' \in [Node -> Nat]
      /\ votedFor' \in [Node -> Node \cup {Nil}]
      /\ \A c \in Node : c # j => /\ state'[c] = state[c] /\ currentTerm'[c] = currentTerm[c]
                                  /\ votedFor'[c] = votedFor[c]
      /\ g => votedFor'[j] = i /\ currentTerm'[j] = u
      /\ \/ state'[j] = "Follower" /\ currentTerm'[j] = u /\ u > v
         \/ /\ state'[j] = state[j] /\ currentTerm'[j] = v
            /\ votedFor'[j] # votedFor[j] => g
  <2>1. CASE Hears(j, i) /\ u > v
    <3>1. /\ state' = [state EXCEPT ![j] = "Follower"]
          /\ currentTerm' = [currentTerm EXCEPT ![j] = u]
          /\ votedFor' = [votedFor EXCEPT ![j] = IF g THEN i ELSE Nil]
      BY <1>1, <1>2, <2>1 DEF HandleRequestVote
    <3>. QED  BY <1>0, <2>1, <3>1 DEF TypeInv, Roles
  <2>2. CASE ~(Hears(j, i) /\ u > v)
    <3>1. /\ votedFor' = [votedFor EXCEPT ![j] = IF g THEN i ELSE @]
          /\ UNCHANGED <<state, currentTerm>>
      BY <1>1, <1>2, <2>2 DEF HandleRequestVote
    <3>2. g => u = v
      BY <1>3, <2>2
    <3>. QED  BY <1>0, <1>1, <3>1, <3>2 DEF TypeInv
  <2>. QED  BY <2>1, <2>2
<1>10. TypeInv'
  BY <1>0, <1>6, <1>8, <1>9 DEF TypeInv
<1>11. VoteFacts
  <2>1. \A x \in Node : currentTerm'[x] >= currentTerm[x]
    <3>1. \A x \in Node : currentTerm[x] \in Nat
      BY <1>0 DEF TypeInv
    <3>. QED  BY <1>1, <1>9, <3>1
  <2>2. ASSUME NEW x \in Node, votedFor'[x] # votedFor[x], currentTerm'[x] = currentTerm[x]
        PROVE  votedFor[x] = Nil
    <3>1. x = j
      BY <1>9, <2>2
    <3>2. g
      BY <1>1, <1>9, <2>2, <3>1
    <3>3. votedFor[j] \in {Nil, i} /\ votedFor'[j] = i
      BY <1>1, <1>3, <1>9, <2>2, <3>1, <3>2
    <3>. QED  BY <2>2, <3>1, <3>3
  <2>3. ASSUME NEW c \in Node, state'[c] = "Candidate"
        PROVE  Continues(c)
    <3>1. /\ state[c] = "Candidate" /\ currentTerm'[c] = currentTerm[c]
      BY <1>1, <1>9, <2>3
    <3>2. CASE c # i
      BY <1>0, <1>6, <1>8, <3>1, <3>2, SameCandidate
    <3>3. CASE c = i
      <4>1. u = currentTerm[i]
        BY <1>0, <1>1, <3>1, <3>3 DEF CampaignInv
      <4>2. ASSUME NEW x \in Backers(i)'
            PROVE  x \in Backers(i) \/ Grants(x, i)
        <5>1. CASE x \in round[i].granted
          BY <5>1 DEF Backers
        <5>2. CASE x \notin round[i].granted
          <6>1. reply'[i].kind = "vote" /\ reply'[i].ok /\ x = reply'[i].from
            BY <1>6, <5>2 DEF Backers
          <6>2. x = j /\ g
            BY <1>7, <1>8, <6>1, NoReplyIs
          <6>3. currentTerm[j] <= currentTerm[i]
            BY <1>1, <1>3, <4>1, <6>2
          <6>. QED  BY <1>1, <1>3, <1>9, <4>1, <6>2, <6>3 DEF Grants
        <5>. QED  BY <5>1, <5>2
      <4>3. /\ reply'[i].kind # "append"
            /\ reply'[i].kind = "vote" => reply'[i].asked = currentTerm[i]
        BY <1>7, <1>8, <4>1, NoReplyIs
      <4>. QED  BY <1>0, <1>1, <1>6, <3>1, <3>3, <4>2, <4>3 DEF Continues
    <3>. QED  BY <3>2, <3>3
  <2>4. \A x \in Node : state'[x] = "Leader" =>
          state[x] = "Leader" /\ currentTerm'[x] = currentTerm[x]
    BY <1>1, <1>9
  <2>. QED  BY <1>0, <2>1, <2>2, <2>3, <2>4 DEF VoteFacts
<1>12. LogFacts(tl, tl) /\ LedgerInv(tl)'
  <2>1. \A x \in Node : state'[x] = "Leader" => StillLeads(x)
    BY <1>1, <1>9 DEF StillLeads
  <2>. QED  BY <1>0, <2>1, LogsSame, LedgerStays
<1>13. AnswerFacts(tl)
  BY <1>7, <1>8, NoReplyIs DEF AnswerFacts
<1>14. CommitFacts /\ AppliedFacts
  BY <1>0 DEF CommitFacts, AppliedFacts
<1>15. AckFacts /\ MatchFacts
  <2>1. \A x \in Node : \/ reply'[x] = reply[x]
                        \/ ~(reply'[x].kind = "append" /\ reply'[x].ok)
    BY <1>7, <1>8, NoReplyIs
  <2>2. \A x, p \in Node, n \in Nat : StillLeads(x) /\ AckedBy(x, p, n)' => AckedBy(x, p, n) \/ n = 0
    BY <1>0, <2>1, AcksSame DEF StillLeads
  <2>. QED  BY <1>0, <2>2, MatchesSame DEF AckFacts, MatchFacts
<1>. QED  BY <1>10, <1>11, <1>12, <1>13, <1>14, <1>15 DEF StepFacts

\* i steps down because an answer has a later term.
LEMMA BecomeFollowerIs ==
    ASSUME TypeInv, NEW i \in Node, NEW u \in Nat, u > currentTerm[i], BecomeFollower(i, u)
    PROVE  /\ state' \in [Node -> Roles] /\ currentTerm' \in [Node -> Nat]
           /\ votedFor' \in [Node -> Node \cup {Nil}]
           /\ state'[i] = "Follower" /\ currentTerm'[i] = u
           /\ \A c \in Node : c # i => /\ state'[c] = state[c]
                                       /\ currentTerm'[c] = currentTerm[c]
                                       /\ votedFor'[c] = votedFor[c]
           /\ \A x \in Node : currentTerm'[x] >= currentTerm[x]
<1>1. /\ state' = [state EXCEPT ![i] = "Follower"]
      /\ currentTerm' = [currentTerm EXCEPT ![i] = u]
      /\ votedFor' = [votedFor EXCEPT ![i] = Nil]
  BY DEF BecomeFollower
<1>2. \A x \in Node : currentTerm[x] \in Nat
  BY DEF TypeInv
<1>. QED  BY <1>1, <1>2 DEF TypeInv, Roles

\* The election is won: the ledger has the winner's log.
LEMMA WinFacts ==
    ASSUME NEW tl, QuorumsMeet, MembershipInv(tl), TypeInv', NEW i \in Node, Wins(i),
           UNCHANGED <<log, commitIndex, applied>>,
           \A j \in Node : j # i => /\ round'[j] = round[j] /\ reply'[j] = reply[j]
                                    /\ matchIndex'[j] = matchIndex[j],
           reply'[i] = NoReply
    PROVE  \E tl2 : StepFacts(tl, tl2)
<1>0. /\ TypeInv /\ CampaignInv /\ ElectedInv /\ LedgerInv(tl) /\ LogsInv(tl)
      /\ UNCHANGED <<currentTerm, votedFor, log, commitIndex, applied>>
  BY DEF MembershipInv, Wins
<1>1. PICK T \in Nat : T = currentTerm[i]
  BY <1>0 DEF TypeInv
<1>2. PICK s \in Seq(Entries) : s = log[i]
  BY <1>0 DEF TypeInv
<1>3. /\ state'[i] = "Leader" /\ state[i] = "Candidate"
      /\ \A j \in Node : j # i => state'[j] = state[j]
      /\ elected' = elected \cup {[term |-> T, leader |-> i]}
  BY <1>0, <1>1 DEF Wins, TypeInv
<1>4. tl[T] = <<>>
  <2>1. \A f \in elected : f.term # T
    BY <1>0, <1>1, WinnerIsFirst
  <2>. QED  BY <1>0, <2>1 DEF LedgerInv
<1> DEFINE tl2 == [tl EXCEPT ![T] = s]
<1>5. /\ tl2 \in Ledgers /\ tl2[T] = s
      /\ \A t \in Nat : t # T => tl2[t] = tl[t]
  BY <1>0, <1>2 DEF LedgerInv, Ledgers
<1> HIDE DEF tl2
<1>6. Extends(tl, tl2)
  <2>. SUFFICES ASSUME NEW t \in Nat PROVE Agree(tl[t], tl2[t], Len(tl[t]))
    BY DEF Extends
  <2>1. CASE t = T
    <3>1. Len(tl[t]) = 0 /\ Len(s) \in Nat
      BY <1>4, <2>1, SeqFacts
    <3>. QED  BY <1>5, <2>1, <3>1 DEF Agree
  <2>2. CASE t # T
    BY <1>0, <1>5, <2>2, LedgerFacts DEF Agree
  <2>. QED  BY <2>1, <2>2
<1>7. LedgerInv(tl2)'
  <2>. SUFFICES ASSUME NEW t \in Nat
                PROVE  /\ Rooted(tl2, tl2[t])
                       /\ \A n \in DOMAIN tl2[t] : tl2[t][n].term <= t
                       /\ tl2[t] # <<>> => \E f \in elected' : f.term = t
    BY <1>5 DEF LedgerInv, Rooted, Agree, Ledgers
  <2>1. CASE t # T
    <3>1. tl[t] \in Seq(Entries) /\ Rooted(tl, tl[t])
      BY <1>0, LedgerFacts DEF LedgerInv
    <3>2. Rooted(tl2, tl[t])
      BY <1>0, <1>6, <3>1, RootedExtends
    <3>. QED  BY <1>0, <1>3, <1>5, <2>1, <3>2 DEF LedgerInv
  <2>2. CASE t = T
    <3>1. Rooted(tl, s) /\ \A n \in DOMAIN s : s[n].term <= T
      BY <1>0, <1>1, <1>2 DEF LogsInv
    <3>2. Rooted(tl2, s)
      BY <1>0, <1>6, <3>1, RootedExtends
    <3>3. \E f \in elected' : f.term = T
      <4>1. [term |-> T, leader |-> i] \in elected'
        BY <1>3
      <4>. QED  BY <4>1
    <3>. QED  BY <1>5, <2>2, <3>1, <3>2, <3>3
  <2>. QED  BY <2>1, <2>2
<1>8. LogFacts(tl, tl2)
  <2>1. ASSUME NEW j \in Node, state'[j] = "Leader"
        PROVE  log'[j] = tl2[currentTerm'[j]]
    <3>1. CASE j = i
      BY <1>0, <1>1, <1>2, <1>5, <3>1
    <3>2. CASE j # i
      <4>1. state[j] = "Leader" /\ log[j] = tl[currentTerm[j]] /\ currentTerm[j] \in Nat
        BY <1>0, <1>3, <2>1, <3>2 DEF LogsInv, TypeInv
      <4>2. currentTerm[j] # T
        <5>1. [term |-> currentTerm[j], leader |-> j] \in elected
          BY <1>0, <4>1 DEF ElectedInv
        <5>. QED  BY <1>0, <1>1, <5>1, WinnerIsFirst
      <4>. QED  BY <1>0, <1>5, <4>1, <4>2
    <3>. QED  BY <3>1, <3>2
  <2>. QED  BY <1>0, <1>6, <2>1 DEF LogFacts, LogChange
<1>9. VoteFacts
  <2>1. \A v \in Node : currentTerm[v] >= currentTerm[v]
    BY <1>0 DEF TypeInv
  <2>2. \A c \in Node : state'[c] = "Candidate" => Continues(c)
    BY <1>0, <1>3, SameCandidate
  <2>3. \A x \in Node : state'[x] = "Leader" => state[x] = "Leader" \/ Wins(x)
    BY <1>3
  <2>. QED  BY <1>0, <2>1, <2>2, <2>3 DEF VoteFacts
<1>10. AnswerFacts(tl2) /\ CommitFacts /\ AppliedFacts
  BY <1>0, NoReplyIs DEF AnswerFacts, CommitFacts, AppliedFacts
<1>11. AckFacts /\ MatchFacts
  <2>1. \A x \in Node : StillLeads(x) => x # i
    BY <1>3 DEF StillLeads
  <2>2. \A x, p \in Node, n \in Nat : StillLeads(x) /\ AckedBy(x, p, n)' => AckedBy(x, p, n)
    BY <1>0, <2>1 DEF AckedBy
  <2>. QED  BY <1>0, <2>1, <2>2, MatchesSame DEF AckFacts, MatchFacts
<1>12. StepFacts(tl, tl2)
  BY <1>7, <1>8, <1>9, <1>10, <1>11 DEF StepFacts
<1>. QED  BY <1>12

LEMMA ReceiveVoteFacts ==
    ASSUME NEW tl, QuorumsMeet, MembershipInv(tl), NEW i \in Node, ReceiveVote(i)
    PROVE  \E tl2 : StepFacts(tl, tl2)
<1>0. /\ TypeInv /\ CampaignInv /\ LedgerInv(tl)
      /\ UNCHANGED <<log, commitIndex, config, standing, applied, admin, restarts, finished>>
  BY DEF MembershipInv, ReceiveVote
<1>1. PICK m \in Replies : m = reply[i] /\ m.from \in Node /\ m.kind = "vote"
  BY <1>0 DEF TypeInv, ReceiveVote
<1>2. PICK voters \in SUBSET Node :
        voters = round[i].granted \cup (IF m.ok THEN {m.from} ELSE {})
  BY <1>0, <1>1 DEF TypeInv, Rounds
<1>3. PICK stale \in BOOLEAN, wins \in BOOLEAN :
        /\ stale <=> state[i] # "Candidate" \/ currentTerm[i] # m.asked
        /\ wins <=> m.ok /\ WinsIn(config[i], voters)
  <2>1. (state[i] # "Candidate" \/ currentTerm[i] # m.asked) \in BOOLEAN
    OBVIOUS
  <2>2. (m.ok /\ WinsIn(config[i], voters)) \in BOOLEAN
    OBVIOUS
  <2>. QED  BY <2>1, <2>2
<1>4. /\ reply' = [reply EXCEPT ![i] = NoReply]
      /\ round' = [round EXCEPT ![i] =
                   IF stale \/ m.term > currentTerm[i] \/ wins THEN NoRound
                   ELSE [@ EXCEPT !.granted = voters]]
  BY <1>1, <1>2, <1>3 DEF ReceiveVote
<1>5. voters = Backers(i)
  BY <1>1, <1>2 DEF Backers
<1>6. /\ reply' \in [Node -> Replies] /\ reply'[i] = NoReply
      /\ \A j \in Node : j # i => reply'[j] = reply[j]
      /\ \A j \in Node : reply'[j].kind # "none" => reply'[j].from \in Node
  BY <1>0, <1>4, NoReplyIs DEF TypeInv
<1>7. /\ round' \in [Node -> Rounds]
      /\ \A j \in Node : j # i => round'[j] = round[j]
      /\ \A j \in Node : j \notin round'[j].todo
      /\ ~(stale \/ m.term > currentTerm[i] \/ wins) =>
            round'[i] = [round[i] EXCEPT !.granted = voters]
  <2>1. round[i] \in Rounds /\ i \notin round[i].todo
    BY <1>0 DEF TypeInv
  <2>2. PICK q \in Rounds : q = [round[i] EXCEPT !.granted = voters] /\ i \notin q.todo
    <3>1. [round[i] EXCEPT !.granted = voters] \in Rounds
      BY <2>1 DEF Rounds
    <3>2. [round[i] EXCEPT !.granted = voters].todo = round[i].todo
      BY <2>1 DEF Rounds
    <3>. QED  BY <2>1, <3>1, <3>2
  <2>3. CASE stale \/ m.term > currentTerm[i] \/ wins
    <3>1. round' = [round EXCEPT ![i] = NoRound]
      BY <1>4, <2>3
    <3>. QED  BY <1>0, <2>3, <3>1, NoRoundIs DEF TypeInv
  <2>4. CASE ~(stale \/ m.term > currentTerm[i] \/ wins)
    <3>1. round' = [round EXCEPT ![i] = q]
      BY <1>4, <2>2, <2>4
    <3>. QED  BY <1>0, <2>2, <3>1 DEF TypeInv
  <2>. QED  BY <2>3, <2>4
<1>8. AnswerFacts(tl)
  BY <1>6, NoReplyIs DEF AnswerFacts
<1>9. CommitFacts /\ AppliedFacts
  BY <1>0 DEF CommitFacts, AppliedFacts
<1>10. \A x \in Node : reply'[x] = reply[x] \/ ~(reply'[x].kind = "append" /\ reply'[x].ok)
  BY <1>6, NoReplyIs
<1>11. ASSUME UNCHANGED <<elected, matchIndex>>,
              TypeInv', VoteFacts, \A x \in Node : state'[x] = "Leader" => StillLeads(x)
       PROVE  StepFacts(tl, tl)
  <2>1. LogFacts(tl, tl) /\ LedgerInv(tl)'
    BY <1>0, <1>11, LogsSame, LedgerStays
  <2>2. \A x, p \in Node, n \in Nat : StillLeads(x) /\ AckedBy(x, p, n)' => AckedBy(x, p, n) \/ n = 0
    BY <1>0, <1>10, <1>11, AcksSame DEF StillLeads
  <2>3. AckFacts /\ MatchFacts
    BY <1>0, <1>11, <2>2, MatchesSame DEF AckFacts, MatchFacts
  <2>. QED  BY <1>8, <1>9, <1>11, <2>1, <2>3 DEF StepFacts
<1>12. CASE m.term > currentTerm[i] /\ BecomeFollower(i, m.term) /\ UNCHANGED <<elected, matchIndex>>
  <2>1. m.term \in Nat
    BY DEF Replies
  <2>2. /\ state' \in [Node -> Roles] /\ currentTerm' \in [Node -> Nat]
        /\ votedFor' \in [Node -> Node \cup {Nil}]
        /\ state'[i] = "Follower" /\ currentTerm'[i] = m.term
        /\ \A c \in Node : c # i => /\ state'[c] = state[c]
                                    /\ currentTerm'[c] = currentTerm[c]
                                    /\ votedFor'[c] = votedFor[c]
        /\ \A x \in Node : currentTerm'[x] >= currentTerm[x]
    BY <1>0, <1>12, <2>1, BecomeFollowerIs
  <2>3. TypeInv'
    BY <1>0, <1>6, <1>7, <1>12, <2>2 DEF TypeInv
  <2>4. \A c \in Node : state'[c] = "Candidate" => Continues(c)
    BY <1>0, <1>6, <1>7, <2>2, SameCandidate
  <2>5. \A x \in Node : state'[x] = "Leader" => StillLeads(x)
    BY <2>2 DEF StillLeads
  <2>6. currentTerm'[i] # currentTerm[i]
    BY <1>0, <1>12, <2>1, <2>2 DEF TypeInv
  <2>7. VoteFacts
    BY <1>12, <2>2, <2>4, <2>5, <2>6 DEF VoteFacts, StillLeads
  <2>. QED  BY <1>11, <1>12, <2>3, <2>5, <2>7
<1>13. CASE /\ ~stale /\ wins
            /\ state' = [state EXCEPT ![i] = "Leader"]
            /\ matchIndex' = [matchIndex EXCEPT ![i] = NoMatches]
            /\ elected' = elected \cup {[term |-> currentTerm[i], leader |-> i]}
            /\ UNCHANGED <<currentTerm, votedFor>>
  <2>1. /\ matchIndex' \in [Node -> [Node -> Nat]] /\ matchIndex'[i] = NoMatches
        /\ \A j \in Node : j # i => matchIndex'[j] = matchIndex[j]
    BY <1>0, <1>13 DEF TypeInv, NoMatches
  <2>2. TypeInv'
    <3>1. state' \in [Node -> Roles] /\ elected' \subseteq [term : Nat, leader : Node]
      BY <1>0, <1>13 DEF TypeInv, Roles
    <3>. QED  BY <1>0, <1>6, <1>7, <1>13, <2>1, <3>1 DEF TypeInv
  <2>3. Wins(i)
    <3>1. state[i] = "Candidate" /\ i \in voters
      BY <1>0, <1>2, <1>3, <1>13 DEF CampaignInv
    <3>2. Quorum(voters)
      BY <1>0, <1>3, <1>13, WinnersAreQuorum DEF TypeInv
    <3>3. \A p \in Node : matchIndex'[i][p] = 0
      BY <2>1 DEF NoMatches
    <3>. QED  BY <1>0, <1>5, <1>13, <3>1, <3>2, <3>3 DEF Wins
  <2>. QED  BY <1>0, <1>6, <1>7, <2>1, <2>2, <2>3, WinFacts
<1>14. CASE /\ stale \/ (m.term <= currentTerm[i] /\ ~wins)
            /\ UNCHANGED <<state, currentTerm, votedFor, elected, matchIndex>>
  <2>1. TypeInv'
    BY <1>0, <1>6, <1>7, <1>14 DEF TypeInv
  <2>2. ASSUME NEW c \in Node, state'[c] = "Candidate"
        PROVE  Continues(c)
    <3>1. CASE c # i
      BY <1>0, <1>6, <1>7, <1>14, <2>2, <3>1, SameCandidate
    <3>2. CASE c = i
      <4>1. ~stale /\ ~wins /\ ~(m.term > currentTerm[i])
        <5>1. state[i] = "Candidate" /\ m.asked = currentTerm[i]
          BY <1>0, <1>1, <1>14, <2>2, <3>2 DEF CampaignInv
        <5>2. m.term \in Nat /\ currentTerm[i] \in Nat
          BY <1>0 DEF TypeInv, Replies
        <5>. QED  BY <1>3, <1>14, <5>1, <5>2
      <4>2. /\ round'[i].term = round[i].term /\ round'[i].lastTerm = round[i].lastTerm
            /\ round'[i].lastIndex = round[i].lastIndex /\ round'[i].granted = voters
        <5>1. round[i] \in Rounds
          BY <1>0 DEF TypeInv
        <5>. QED  BY <1>7, <4>1, <5>1 DEF Rounds
      <4>3. Backers(i)' = Backers(i)
        BY <1>5, <1>6, <4>2, NoReplyIs DEF Backers
      <4>. QED  BY <1>0, <1>2, <1>6, <1>14, <2>2, <3>2, <4>2, <4>3, NoReplyIs DEF Continues
    <3>. QED  BY <3>1, <3>2
  <2>3. VoteFacts
    <3>1. \A v \in Node : currentTerm[v] >= currentTerm[v]
      BY <1>0 DEF TypeInv
    <3>. QED  BY <1>14, <2>2, <3>1 DEF VoteFacts
  <2>4. \A x \in Node : state'[x] = "Leader" => StillLeads(x)
    BY <1>14 DEF StillLeads
  <2>. QED  BY <1>11, <1>14, <2>1, <2>3, <2>4
<1>. QED  BY <1>1, <1>2, <1>3, <1>12, <1>13, <1>14 DEF ReceiveVote, NoMatches

-----------------------------------------------------------------------------
(***************************************************************************)
(* The facts of each action: replication.                                  *)
(***************************************************************************)

LEMMA ReceiveAppendFacts ==
    ASSUME NEW tl, MembershipInv(tl), NEW i \in Node, ReceiveAppend(i)
    PROVE  StepFacts(tl, tl)
<1>0. /\ TypeInv /\ CampaignInv /\ LedgerInv(tl)
      /\ UNCHANGED <<round, elected, log, commitIndex, config, standing, applied,
                     admin, restarts, finished>>
  BY DEF MembershipInv, ReceiveAppend
<1>1. PICK m \in Replies : m = reply[i] /\ m.from \in Node /\ m.kind = "append"
  BY <1>0 DEF TypeInv, ReceiveAppend
<1>2. state[i] # "Candidate"
  BY <1>0, <1>1 DEF CampaignInv
<1>3. reply' = [reply EXCEPT ![i] = NoReply]
  BY DEF ReceiveAppend
<1>4. /\ reply' \in [Node -> Replies] /\ reply'[i] = NoReply
      /\ \A j \in Node : j # i => reply'[j] = reply[j]
      /\ \A j \in Node : reply'[j].kind # "none" => reply'[j].from \in Node
      /\ \A x \in Node : reply'[x] = reply[x] \/ ~(reply'[x].kind = "append" /\ reply'[x].ok)
  BY <1>0, <1>3, NoReplyIs DEF TypeInv
<1>5. AnswerFacts(tl) /\ CommitFacts /\ AppliedFacts
  BY <1>0, <1>4, NoReplyIs DEF AnswerFacts, CommitFacts, AppliedFacts
<1>6. ASSUME \A c \in Node : c # i => state'[c] = state[c] /\ currentTerm'[c] = currentTerm[c],
             state'[i] # "Candidate",
             \A c \in Node : currentTerm'[c] >= currentTerm[c],
             \A x \in Node : votedFor'[x] # votedFor[x] => currentTerm'[x] # currentTerm[x],
             \A x \in Node : state'[x] = "Leader" => StillLeads(x)
      PROVE  VoteFacts /\ LogFacts(tl, tl) /\ LedgerInv(tl)'
  <2>1. \A c \in Node : state'[c] = "Candidate" => Continues(c)
    BY <1>0, <1>4, <1>6, SameCandidate
  <2>2. VoteFacts
    BY <1>0, <1>6, <2>1 DEF VoteFacts, StillLeads
  <2>. QED  BY <1>0, <1>6, <2>2, LogsSame, LedgerStays
<1>7. ASSUME UNCHANGED matchIndex
      PROVE  AckFacts /\ MatchFacts
  <2>1. \A x, p \in Node, n \in Nat : StillLeads(x) /\ AckedBy(x, p, n)' => AckedBy(x, p, n) \/ n = 0
    BY <1>0, <1>4, <1>7, AcksSame DEF StillLeads
  <2>. QED  BY <1>0, <1>7, <2>1, MatchesSame DEF AckFacts, MatchFacts
<1>8. CASE m.term > currentTerm[i] /\ BecomeFollower(i, m.term) /\ UNCHANGED matchIndex
  <2>1. m.term \in Nat
    BY DEF Replies
  <2>2. /\ state' \in [Node -> Roles] /\ currentTerm' \in [Node -> Nat]
        /\ votedFor' \in [Node -> Node \cup {Nil}]
        /\ state'[i] = "Follower" /\ currentTerm'[i] = m.term
        /\ \A c \in Node : c # i => /\ state'[c] = state[c]
                                    /\ currentTerm'[c] = currentTerm[c]
                                    /\ votedFor'[c] = votedFor[c]
        /\ \A x \in Node : currentTerm'[x] >= currentTerm[x]
    BY <1>0, <1>8, <2>1, BecomeFollowerIs
  <2>3. TypeInv'
    BY <1>0, <1>4, <1>8, <2>2 DEF TypeInv
  <2>4. currentTerm'[i] # currentTerm[i]
    BY <1>0, <1>8, <2>1, <2>2 DEF TypeInv
  <2>5. \A x \in Node : state'[x] = "Leader" => StillLeads(x)
    BY <2>2 DEF StillLeads
  <2>6. VoteFacts /\ LogFacts(tl, tl) /\ LedgerInv(tl)'
    BY <1>6, <2>2, <2>4, <2>5
  <2>. QED  BY <1>5, <1>7, <1>8, <2>3, <2>6 DEF StepFacts
<1>9. ASSUME UNCHANGED <<state, currentTerm, votedFor>>
      PROVE  VoteFacts /\ LogFacts(tl, tl) /\ LedgerInv(tl)'
  <2>1. \A x \in Node : currentTerm[x] >= currentTerm[x]
    BY <1>0 DEF TypeInv
  <2>. QED  BY <1>2, <1>6, <1>9, <2>1 DEF StillLeads
<1>10. CASE UNCHANGED <<state, currentTerm, votedFor, matchIndex>>
  <2>1. TypeInv'
    BY <1>0, <1>4, <1>10 DEF TypeInv
  <2>. QED  BY <1>5, <1>7, <1>9, <1>10, <2>1 DEF StepFacts
<1>11. CASE /\ currentTerm[i] = m.asked /\ m.ok
            /\ matchIndex' = [matchIndex EXCEPT ![i][m.from] = Max({@, m.match})]
            /\ UNCHANGED <<state, currentTerm, votedFor>>
  <2>1. PICK a \in Nat, b \in Nat, f \in Node : a = matchIndex[i][m.from] /\ b = m.match /\ f = m.from
    BY <1>0, <1>1 DEF TypeInv, Replies
  <2>2. PICK k \in Nat : k = Max({a, b}) /\ (k = a \/ k = b)
    <3>1. \A x \in {a, b} : x <= a + b
      OBVIOUS
    <3>2. Max({a, b}) \in {a, b}
      BY <3>1, MaxIs
    <3>. QED  BY <3>2
  <2>3. matchIndex' = [matchIndex EXCEPT ![i] = [matchIndex[i] EXCEPT ![f] = k]]
    BY <1>11, <2>1, <2>2
  <2>4. /\ matchIndex' \in [Node -> [Node -> Nat]] /\ matchIndex'[i][f] = k
        /\ \A p \in Node : p # f => matchIndex'[i][p] = matchIndex[i][p]
        /\ \A j \in Node : j # i => matchIndex'[j] = matchIndex[j]
    BY <1>0, <2>3 DEF TypeInv
  <2>5. TypeInv'
    BY <1>0, <1>4, <1>11, <2>4 DEF TypeInv
  <2>6. \A n \in Nat : n <= k => AckedBy(i, f, n)
    BY <1>1, <1>11, <2>1, <2>2 DEF AckedBy
  <2>7. AckFacts
    <3>1. ASSUME NEW x \in Node, NEW p \in Node, NEW n \in Nat, AckedBy(x, p, n)'
          PROVE  AckedBy(x, p, n)
      <4>1. CASE x = i
        <5>1. n <= matchIndex'[i][p]
          BY <1>4, <3>1, <4>1, NoReplyIs DEF AckedBy
        <5>. QED  BY <2>4, <2>6, <4>1, <5>1 DEF AckedBy
      <4>2. CASE x # i
        BY <1>4, <1>11, <2>4, <3>1, <4>2 DEF AckedBy
      <4>. QED  BY <4>1, <4>2
    <3>. QED  BY <3>1 DEF AckFacts
  <2>8. MatchFacts
    <3>1. ASSUME NEW x \in Node, NEW p \in Node
          PROVE  AckedBy(x, p, matchIndex'[x][p])
      <4>1. CASE x = i /\ p = f
        BY <2>4, <2>6, <4>1
      <4>2. CASE ~(x = i /\ p = f)
        <5>1. matchIndex'[x][p] = matchIndex[x][p]
          BY <2>4, <4>2
        <5>2. matchIndex[x][p] \in Nat
          BY <1>0 DEF TypeInv
        <5>. QED  BY <5>1, <5>2 DEF AckedBy
      <4>. QED  BY <4>1, <4>2
    <3>. QED  BY <3>1 DEF MatchFacts
  <2>. QED  BY <1>5, <1>9, <1>11, <2>5, <2>7, <2>8 DEF StepFacts
<1>. QED  BY <1>1, <1>8, <1>10, <1>11 DEF ReceiveAppend

\* What applying entries does to the node.
LEMMA ApplyUpToIs ==
    ASSUME TypeInv, NEW i \in Node, NEW st \in Roles, NEW lg \in Seq(Entries),
           NEW n \in Nat, commitIndex[i] <= n, n <= Len(lg), currentTerm'[i] \in Nat,
           ApplyUpTo(i, st, lg, n)
    PROVE  /\ commitIndex' \in [Node -> Nat] /\ commitIndex'[i] = n
           /\ config' \in [Node -> Configs]
           /\ matchIndex' \in [Node -> [Node -> Nat]]
           /\ matchIndex'[i] \in {matchIndex[i], NoMatches}
           /\ state' \in [Node -> Roles] /\ state'[i] \in {st, "Follower"}
           /\ standing' \in [Node -> Standings]
           /\ \A j \in Node : j # i => /\ state'[j] = state[j]
                                       /\ commitIndex'[j] = commitIndex[j]
                                       /\ matchIndex'[j] = matchIndex[j]
           /\ applied' \subseteq [index : Nat, entry : Entries, term : Nat]
           /\ \A a \in applied' : \/ a \in applied
                                  \/ /\ a.index \in 1 .. n
                                     /\ a.entry = lg[a.index]
                                     /\ a.term = currentTerm'[i]
<1>1. PICK end \in AppliedStates(i, st) : end = Applying(i, st, lg, n)[n]
  BY ApplyingIs
<1>2. /\ commitIndex' = [commitIndex EXCEPT ![i] = n]
      /\ config' = [config EXCEPT ![i] = end.config]
      /\ matchIndex' = [matchIndex EXCEPT ![i] = end.match]
      /\ state' = [state EXCEPT ![i] = end.state]
      /\ standing' = [standing EXCEPT ![i] = end.standing]
      /\ applied' = applied \cup {[index |-> k, entry |-> lg[k], term |-> currentTerm'[i]] :
                                    k \in commitIndex[i] + 1 .. n}
  BY <1>1 DEF ApplyUpTo
<1>3. /\ end.config \in Configs /\ end.match \in {matchIndex[i], NoMatches}
      /\ end.state \in {st, "Follower"} /\ end.standing \in Standings
  BY DEF AppliedStates, NoMatches
<1>4. NoMatches \in [Node -> Nat] /\ matchIndex[i] \in [Node -> Nat] /\ commitIndex[i] \in Nat
  BY DEF NoMatches, TypeInv
<1>5. PICK t \in Nat : t = currentTerm'[i]
  OBVIOUS
<1>6. \A k \in commitIndex[i] + 1 .. n : k \in 1 .. n /\ k \in Nat /\ lg[k] \in Entries
  <2>1. Len(lg) \in Nat /\ \A k \in 1 .. Len(lg) : lg[k] \in Entries
    BY SeqFacts
  <2>. QED  BY <1>4, <2>1
<1>7. /\ applied' \subseteq [index : Nat, entry : Entries, term : Nat]
      /\ \A a \in applied' : \/ a \in applied
                             \/ /\ a.index \in 1 .. n
                                /\ a.entry = lg[a.index]
                                /\ a.term = t
  <2>1. ASSUME NEW a \in applied', a \notin applied
        PROVE  /\ a \in [index : Nat, entry : Entries, term : Nat]
               /\ a.index \in 1 .. n /\ a.entry = lg[a.index] /\ a.term = t
    <3>1. PICK k \in commitIndex[i] + 1 .. n : a = [index |-> k, entry |-> lg[k], term |-> t]
      BY <1>2, <1>5, <2>1
    <3>. QED  BY <1>6, <3>1
  <2>2. applied \subseteq [index : Nat, entry : Entries, term : Nat]
    BY DEF TypeInv
  <2>. QED  BY <2>1, <2>2
<1>8. /\ commitIndex' \in [Node -> Nat] /\ commitIndex'[i] = n
      /\ config' \in [Node -> Configs]
      /\ standing' \in [Node -> Standings]
  BY <1>2, <1>3 DEF TypeInv
<1>9. /\ matchIndex' \in [Node -> [Node -> Nat]]
      /\ matchIndex'[i] \in {matchIndex[i], NoMatches}
      /\ state' \in [Node -> Roles] /\ state'[i] \in {st, "Follower"}
  BY <1>2, <1>3, <1>4 DEF TypeInv, Roles
<1>10. \A j \in Node : j # i => /\ state'[j] = state[j]
                                /\ commitIndex'[j] = commitIndex[j]
                                /\ matchIndex'[j] = matchIndex[j]
  BY <1>2 DEF TypeInv
<1>. QED  BY <1>5, <1>7, <1>8, <1>9, <1>10

LEMMA UpdateCommitIndexFacts ==
    ASSUME NEW tl, MembershipInv(tl), NEW i \in Node, UpdateCommitIndex(i)
    PROVE  StepFacts(tl, tl)
<1>0. /\ TypeInv /\ CampaignInv /\ LedgerInv(tl) /\ state[i] = "Leader"
      /\ UNCHANGED <<currentTerm, votedFor, round, reply, elected, log, admin, restarts, finished>>
  BY DEF MembershipInv, UpdateCommitIndex
<1>1. PICK ready : /\ ready = {n \in commitIndex[i] + 1 .. Len(log[i]) :
                                 log[i][n].term = currentTerm[i] /\ MajorityMatched(i, n)}
                   /\ ready # {}
                   /\ ApplyUpTo(i, "Leader", log[i], Max(ready))
  BY DEF UpdateCommitIndex
<1>2. log[i] \in Seq(Entries) /\ commitIndex[i] \in Nat /\ currentTerm'[i] \in Nat
  BY <1>0 DEF TypeInv
<1>3. PICK L \in Nat : L = Len(log[i]) /\ DOMAIN log[i] = 1 .. L
  BY <1>2, SeqFacts
<1>4. PICK c \in ready : c = Max(ready)
  <2>1. ready \in SUBSET Nat /\ \A n \in ready : n <= L
    BY <1>1, <1>2, <1>3
  <2>. QED  BY <1>1, <2>1, MaxIs
<1>5. /\ c \in Nat /\ c \in DOMAIN log[i] /\ commitIndex[i] <= c /\ c <= L
      /\ log[i][c].term = currentTerm[i] /\ MajorityMatched(i, c)
  BY <1>1, <1>2, <1>3, <1>4
<1>6. /\ commitIndex' \in [Node -> Nat] /\ commitIndex'[i] = c
      /\ config' \in [Node -> Configs]
      /\ matchIndex' \in [Node -> [Node -> Nat]]
      /\ matchIndex'[i] \in {matchIndex[i], NoMatches}
      /\ state' \in [Node -> Roles] /\ state'[i] \in {"Leader", "Follower"}
      /\ standing' \in [Node -> Standings]
      /\ \A j \in Node : j # i => /\ state'[j] = state[j]
                                  /\ commitIndex'[j] = commitIndex[j]
                                  /\ matchIndex'[j] = matchIndex[j]
      /\ applied' \subseteq [index : Nat, entry : Entries, term : Nat]
      /\ \A a \in applied' : \/ a \in applied
                             \/ /\ a.index \in 1 .. c
                                /\ a.entry = log[i][a.index]
                                /\ a.term = currentTerm'[i]
  <2>1. ApplyUpTo(i, "Leader", log[i], c) /\ c <= Len(log[i]) /\ "Leader" \in Roles
    BY <1>1, <1>3, <1>4, <1>5 DEF Roles
  <2>. QED  BY <1>0, <1>2, <1>5, <2>1, ApplyUpToIs
<1>7. TypeInv'
  <2>1. \A j \in Node : commitIndex'[j] <= Len(log[j])
    BY <1>0, <1>3, <1>5, <1>6 DEF TypeInv
  <2>. QED  BY <1>0, <1>6, <2>1 DEF TypeInv
<1>8. VoteFacts
  <2>1. \A x \in Node : currentTerm[x] >= currentTerm[x]
    BY <1>0 DEF TypeInv
  <2>2. \A x \in Node : state'[x] = "Leader" => state[x] = "Leader"
    BY <1>0, <1>6
  <2>3. \A c1 \in Node : state'[c1] = "Candidate" => Continues(c1)
    BY <1>0, <1>6, SameCandidate
  <2>. QED  BY <1>0, <2>1, <2>2, <2>3 DEF VoteFacts
<1>9. LogFacts(tl, tl) /\ LedgerInv(tl)'
  <2>1. \A x \in Node : state'[x] = "Leader" => StillLeads(x)
    BY <1>0, <1>6 DEF StillLeads
  <2>. QED  BY <1>0, <2>1, LogsSame, LedgerStays
<1>10. AnswerFacts(tl)
  BY <1>0 DEF AnswerFacts
<1>11. AckFacts /\ MatchFacts
  <2>1. \A x \in Node : matchIndex'[x] \in {matchIndex[x], NoMatches}
    BY <1>6
  <2>2. \A x, p \in Node, n \in Nat : AckedBy(x, p, n)' => AckedBy(x, p, n) \/ n = 0
    BY <1>0, <2>1, AcksSame
  <2>. QED  BY <1>0, <2>1, <2>2, MatchesSame DEF AckFacts, MatchFacts
<1>12. CommitFacts
  <2>1. Stored(i, c) \in SUBSET Node /\ Quorum(Stored(i, c))
    BY <1>0, <1>5, MatchedIsQuorum
  <2>2. Has(log[i], c, currentTerm[i])
    BY <1>5 DEF Has
  <2>. QED  BY <1>0, <1>6, <2>1, <2>2 DEF CommitFacts
<1>13. AppliedFacts
  BY <1>0, <1>6 DEF AppliedFacts
<1>. QED  BY <1>7, <1>8, <1>9, <1>10, <1>11, <1>12, <1>13 DEF StepFacts

\* A leader's log reaches over what a node it may still tell has committed.
LEMMA CommittedFits ==
    ASSUME NEW tl, MembershipInv(tl), NEW i \in Node, NEW j \in Node, state[i] = "Leader",
           currentTerm[j] <= currentTerm[i]
    PROVE  commitIndex[j] <= Len(log[i])
<1>0. TypeInv /\ ElectedInv /\ LedgerInv(tl) /\ LogsInv(tl) /\ CommitInv(tl)
  BY DEF MembershipInv
<1>1. PICK u \in Nat, v \in Nat, c \in Nat :
        u = currentTerm[i] /\ v = currentTerm[j] /\ c = commitIndex[j]
  BY <1>0 DEF TypeInv
<1>2. log[i] = tl[u] /\ Len(tl[u]) \in Nat /\ DOMAIN tl[u] = 1 .. Len(tl[u])
  BY <1>0, <1>1, LedgerFacts DEF LogsInv
<1>3. CASE c = 0
  BY <1>1, <1>2, <1>3
<1>4. CASE c # 0
  <2>1. PICK T \in Nat, n \in Nat :
          T <= v /\ Chosen(tl, T, n) /\ c <= n /\ Agree(log[j], tl[T], c)
    BY <1>0, <1>1, <1>4 DEF CommitInv
  <2>2. CASE T = u
    BY <1>1, <1>2, <2>1, <2>2 DEF Agree
  <2>3. CASE T # u
    <3>1. u > T
      BY <1>1, <2>1, <2>3
    <3>2. \E e \in elected : e.term = u
      <4>1. [term |-> currentTerm[i], leader |-> i] \in elected
        BY <1>0 DEF ElectedInv
      <4>. QED  BY <1>1, <4>1
    <3>3. Has(tl[u], n, T)
      BY <2>1, <3>1, <3>2 DEF Chosen, Held
    <3>. QED  BY <1>1, <1>2, <2>1, <3>3 DEF Has
  <2>. QED  BY <2>2, <2>3
<1>. QED  BY <1>3, <1>4

LEMMA HandleAppendEntriesFacts ==
    ASSUME NEW tl, MembershipInv(tl), NEW i \in Node, NEW j \in Node,
           NEW p \in 0 .. MaxLog, p <= Len(log[i]), HandleAppendEntries(i, j, p)
    PROVE  StepFacts(tl, tl)
<1>0. /\ TypeInv /\ CampaignInv /\ ElectedInv /\ LedgerInv(tl) /\ LogsInv(tl)
      /\ UNCHANGED <<round, elected, admin, restarts, finished>>
      /\ state[i] = "Leader" /\ j \in PeersOf(i) /\ reply[i] = NoReply
  BY DEF MembershipInv, HandleAppendEntries
<1>1. j # i
  BY <1>0, PeersType
<1>2. PICK u \in Nat, v \in Nat : u = currentTerm[i] /\ v = currentTerm[j]
  BY <1>0 DEF TypeInv
<1>3. PICK lg \in Seq(Entries), own \in Seq(Entries) : lg = log[i] /\ own = log[j] /\ lg = tl[u]
  BY <1>0, <1>2 DEF TypeInv, LogsInv
<1>4. PICK a \in Nat, ci \in Nat, cj \in Nat :
        a = Len(lg) /\ ci = commitIndex[i] /\ cj = commitIndex[j]
  BY <1>0, <1>3, SeqFacts DEF TypeInv
<1>5. PICK refused \in BOOLEAN, success \in BOOLEAN :
        /\ refused <=> i \notin Members(config[j]) \/ u < v
        /\ success <=> ~refused /\ Matches(own, lg, p)
  <2>1. (i \notin Members(config[j]) \/ u < v) \in BOOLEAN
    OBVIOUS
  <2>2. \A r \in BOOLEAN : (~r /\ Matches(own, lg, p)) \in BOOLEAN
    OBVIOUS
  <2>. QED  BY <2>1, <2>2
<1>6. PICK new \in Seq(Entries) :
        /\ new = IF success THEN Merge(own, lg, p) ELSE own
        /\ success => \/ new = own /\ Agree(own, lg, a)
                      \/ new = lg /\ ~Agree(own, lg, a)
        /\ log' = [log EXCEPT ![j] = new]
  <2>1. CASE success
    <3>1. p \in Nat /\ MaxLog \in Nat
      BY MembershipAssumption
    <3>2. Rooted(tl, own) /\ Rooted(tl, lg)
      BY <1>0, <1>3 DEF LogsInv
    <3>3. \/ Merge(own, lg, p) = own /\ Agree(own, lg, a)
          \/ Merge(own, lg, p) = lg /\ ~Agree(own, lg, a)
      BY <1>0, <1>3, <1>4, <1>5, <2>1, <3>1, <3>2, MergeIs
    <3>4. log' = [log EXCEPT ![j] = Merge(own, lg, p)]
      BY <1>2, <1>3, <1>5, <2>1 DEF HandleAppendEntries
    <3>. QED  BY <2>1, <3>3, <3>4
  <2>2. CASE ~success
    <3>1. log' = [log EXCEPT ![j] = @]
      BY <1>2, <1>3, <1>5, <2>2 DEF HandleAppendEntries
    <3>. QED  BY <1>3, <2>2, <3>1
  <2>. QED  BY <2>1, <2>2
<1>7. /\ log' \in [Node -> Seq(Entries)] /\ log'[j] = new
      /\ \A c \in Node : c # j => log'[c] = log[c]
  BY <1>0, <1>6 DEF TypeInv
<1>8. /\ currentTerm' \in [Node -> Nat] /\ votedFor' \in [Node -> Node \cup {Nil}]
      /\ \A c \in Node : c # j => currentTerm'[c] = currentTerm[c] /\ votedFor'[c] = votedFor[c]
      /\ refused => currentTerm'[j] = v /\ votedFor'[j] = votedFor[j]
      /\ ~refused => /\ currentTerm'[j] = u /\ v <= u
                     /\ u = v /\ votedFor'[j] # votedFor[j] => state[j] # "Follower"
  <2>1. CASE ~refused /\ (u > v \/ state[j] # "Follower")
    <3>1. /\ currentTerm' = [currentTerm EXCEPT ![j] = u]
          /\ votedFor' = [votedFor EXCEPT ![j] = Nil]
      BY <1>2, <1>5, <2>1 DEF HandleAppendEntries
    <3>. QED  BY <1>0, <1>2, <1>5, <2>1, <3>1 DEF TypeInv
  <2>2. CASE ~(~refused /\ (u > v \/ state[j] # "Follower"))
    <3>1. UNCHANGED <<currentTerm, votedFor>>
      BY <1>2, <1>5, <2>2 DEF HandleAppendEntries
    <3>. QED  BY <1>0, <1>2, <1>5, <2>2, <3>1 DEF TypeInv
  <2>. QED  BY <2>1, <2>2
<1>9. currentTerm'[j] \in Nat /\ v <= currentTerm'[j]
  BY <1>2, <1>8
<1>10. PICK r \in Replies : /\ reply' \in {reply, [reply EXCEPT ![i] = r]}
                            /\ r.kind = "append" /\ r.from = j /\ r.asked = u
                            /\ r.ok = success /\ r.match = a
  <2> DEFINE q == [kind |-> "append", from |-> j, asked |-> u, ok |-> success,
                   match |-> a, term |-> IF success THEN u ELSE v]
  <2>1. /\ q \in Replies
        /\ q.kind = "append" /\ q.from = j /\ q.asked = u /\ q.ok = success /\ q.match = a
    BY DEF Replies
  <2>2. success = (~refused /\ Matches(own, lg, p)) /\ refused = (i \notin Members(config[j]) \/ u < v)
    BY <1>5
  <2>3. reply' \in {reply, [reply EXCEPT ![i] = q]}
    BY <1>2, <1>3, <1>4, <2>2 DEF HandleAppendEntries, Answer
  <2>. HIDE DEF q
  <2>. QED  BY <2>1, <2>3
<1>11. /\ reply' \in [Node -> Replies]
       /\ \A c \in Node : c # i => reply'[c] = reply[c]
       /\ reply'[i] = NoReply \/ reply'[i] = r
       /\ \A c \in Node : reply'[c].kind # "none" => reply'[c].from \in Node
  BY <1>0, <1>10, NoReplyIs DEF TypeInv
<1>12. ~refused /\ success => cj <= Len(new)
  <2>. SUFFICES ASSUME ~refused, success PROVE cj <= Len(new)
    OBVIOUS
  <2>1. cj <= Len(lg)
    BY <1>0, <1>2, <1>3, <1>4, <1>8, CommittedFits
  <2>2. cj <= Len(own)
    BY <1>0, <1>3, <1>4 DEF TypeInv
  <2>. QED  BY <1>6, <2>1, <2>2
<1>13. success => ~refused
  BY <1>5
<1>14. /\ commitIndex' \in [Node -> Nat] /\ config' \in [Node -> Configs]
       /\ matchIndex' \in [Node -> [Node -> Nat]]
       /\ matchIndex'[j] \in {matchIndex[j], NoMatches}
       /\ state' \in [Node -> Roles] /\ standing' \in [Node -> Standings]
       /\ \A c \in Node : c # j => /\ state'[c] = state[c]
                                   /\ commitIndex'[c] = commitIndex[c]
                                   /\ matchIndex'[c] = matchIndex[c]
       /\ state'[j] = IF refused THEN state[j] ELSE "Follower"
       /\ applied' \subseteq [index : Nat, entry : Entries, term : Nat]
       /\ \A x \in applied' : \/ x \in applied
                              \/ /\ x.index \in 1 .. commitIndex'[j]
                                 /\ x.entry = new[x.index]
                                 /\ x.term = currentTerm'[j]
       /\ \/ commitIndex'[j] = cj
          \/ /\ success
             /\ commitIndex'[j] <= ci /\ commitIndex'[j] <= Len(new)
  <2>1. CASE success /\ ci > cj
    <3>1. Len(new) \in Nat
      BY SeqFacts
    <3>2. PICK b \in Nat : b = Len(new)
      BY <3>1
    <3>3. PICK c \in Nat : c = Min({ci, b}) /\ c = IF ci <= b THEN ci ELSE b
      BY MinIs
    <3>4. ApplyUpTo(j, "Follower", new, c)
      <4>1. new = Merge(own, lg, p)
        BY <1>6, <2>1
      <4>. QED  BY <1>2, <1>3, <1>4, <1>5, <2>1, <3>2, <3>3, <4>1 DEF HandleAppendEntries
    <3>5. cj <= c /\ c <= b /\ c <= ci /\ "Follower" \in Roles
      BY <1>12, <1>13, <2>1, <3>2, <3>3 DEF Roles
    <3>6. commitIndex[j] <= c /\ c <= Len(new)
      BY <1>4, <3>2, <3>5
    <3>7. /\ commitIndex' \in [Node -> Nat] /\ commitIndex'[j] = c
          /\ config' \in [Node -> Configs]
          /\ matchIndex' \in [Node -> [Node -> Nat]]
          /\ matchIndex'[j] \in {matchIndex[j], NoMatches}
          /\ state' \in [Node -> Roles] /\ state'[j] \in {"Follower", "Follower"}
          /\ standing' \in [Node -> Standings]
          /\ \A d \in Node : d # j => /\ state'[d] = state[d]
                                      /\ commitIndex'[d] = commitIndex[d]
                                      /\ matchIndex'[d] = matchIndex[d]
          /\ applied' \subseteq [index : Nat, entry : Entries, term : Nat]
          /\ \A x \in applied' : \/ x \in applied
                                 \/ /\ x.index \in 1 .. c
                                    /\ x.entry = new[x.index]
                                    /\ x.term = currentTerm'[j]
      BY <1>0, <1>9, <3>4, <3>5, <3>6, ApplyUpToIs
    <3>. QED  BY <1>13, <2>1, <3>5, <3>6, <3>7
  <2>2. CASE ~(success /\ ci > cj)
    <3>1. /\ state' = [state EXCEPT ![j] = IF refused THEN @ ELSE "Follower"]
          /\ UNCHANGED <<commitIndex, matchIndex, config, standing, applied>>
      BY <1>2, <1>3, <1>4, <1>5, <2>2 DEF HandleAppendEntries
    <3>. QED  BY <1>0, <1>4, <3>1 DEF TypeInv, Roles
  <2>. QED  BY <2>1, <2>2
<1>15. TypeInv'
  <2>1. ASSUME NEW c \in Node
        PROVE  commitIndex'[c] <= Len(log'[c])
    <3>1. CASE c # j
      BY <1>0, <1>7, <1>14, <3>1 DEF TypeInv
    <3>2. CASE c = j /\ commitIndex'[j] = cj
      <4>1. cj <= Len(own)
        BY <1>0, <1>3, <1>4 DEF TypeInv
      <4>. QED  BY <1>6, <1>7, <1>12, <1>13, <3>2, <4>1
    <3>3. CASE c = j /\ commitIndex'[j] # cj
      BY <1>7, <1>14, <3>3
    <3>. QED  BY <3>1, <3>2, <3>3
  <2>. QED  BY <1>0, <1>7, <1>8, <1>11, <1>14, <2>1 DEF TypeInv
<1>16. ~refused => state'[j] = "Follower" /\ currentTerm'[j] = u
  BY <1>8, <1>14
<1>17. VoteFacts
  <2>1. \A x \in Node : currentTerm'[x] >= currentTerm[x]
    <3>1. \A x \in Node : currentTerm[x] \in Nat
      BY <1>0 DEF TypeInv
    <3>. QED  BY <1>2, <1>8, <1>9, <3>1
  <2>2. ASSUME NEW x \in Node, votedFor'[x] # votedFor[x], currentTerm'[x] = currentTerm[x]
        PROVE  state[x] = "Candidate" /\ state'[x] = "Follower"
    <3>1. x = j /\ ~refused
      BY <1>8, <2>2
    <3>2. u = v /\ state[j] # "Follower"
      BY <1>2, <1>8, <2>2, <3>1
    <3>3. state[j] # "Leader"
      BY <1>0, <1>1, <1>2, <3>2, OneLeads
    <3>4. state[j] = "Candidate"
      BY <1>0, <3>2, <3>3 DEF TypeInv, Roles
    <3>. QED  BY <1>16, <3>1, <3>4
  <2>3. ASSUME NEW c \in Node, state'[c] = "Candidate"
        PROVE  Continues(c)
    <3>1. c # i
      BY <1>0, <1>1, <1>14, <2>3
    <3>2. CASE c # j
      BY <1>0, <1>7, <1>8, <1>11, <1>14, <2>3, <3>1, <3>2, SameCandidate
    <3>3. CASE c = j
      <4>1. refused /\ ~success
        BY <1>13, <1>16, <2>3, <3>3
      <4>2. new = own
        BY <1>6, <4>1
      <4>. QED  BY <1>0, <1>2, <1>3, <1>7, <1>8, <1>11, <1>14, <2>3, <3>1, <3>3, <4>1, <4>2, SameCandidate
    <3>. QED  BY <3>2, <3>3
  <2>4. \A x \in Node : state'[x] = "Leader" =>
          state[x] = "Leader" /\ currentTerm'[x] = currentTerm[x]
    BY <1>2, <1>8, <1>14
  <2>. QED  BY <1>0, <2>1, <2>2, <2>3, <2>4 DEF VoteFacts
<1>18. LogFacts(tl, tl) /\ LedgerInv(tl)'
  <2>1. ASSUME NEW c \in Node
        PROVE  LogChange(tl, tl, c)
    <3>1. CASE c # j \/ new = own
      BY <1>3, <1>7, <3>1 DEF LogChange
    <3>2. CASE c = j /\ new # own
      <4>1. success /\ new = lg /\ ~Agree(own, lg, a)
        BY <1>6, <3>2
      <4>2. currentTerm'[j] = u
        BY <1>13, <1>16, <4>1
      <4>3. \E e \in elected : e.term = u
        <5>1. [term |-> currentTerm[i], leader |-> i] \in elected
          BY <1>0 DEF ElectedInv
        <5>. QED  BY <1>2, <5>1
      <4>. QED  BY <1>3, <1>4, <1>7, <3>2, <4>1, <4>2, <4>3 DEF LogChange
    <3>. QED  BY <3>1, <3>2
  <2>2. ASSUME NEW c \in Node, state'[c] = "Leader"
        PROVE  log'[c] = tl[currentTerm'[c]]
    <3>1. CASE c # j
      BY <1>0, <1>7, <1>8, <1>14, <2>2, <3>1 DEF LogsInv
    <3>2. CASE c = j
      <4>1. refused /\ ~success
        BY <1>13, <1>16, <2>2, <3>2
      <4>2. new = own /\ currentTerm'[j] = v /\ state[j] = "Leader"
        BY <1>6, <1>8, <1>14, <2>2, <3>2, <4>1
      <4>. QED  BY <1>0, <1>2, <1>3, <1>7, <3>2, <4>2 DEF LogsInv
    <3>. QED  BY <3>1, <3>2
  <2>3. LogFacts(tl, tl)
    BY <1>0, <2>1, <2>2, ExtendsItself DEF LogFacts
  <2>. QED  BY <1>0, <2>3, LedgerStays
<1>19. success => currentTerm'[j] = u /\ Agree(new, lg, a)
  <2>1. Agree(lg, lg, a)
    BY <1>4 DEF Agree
  <2>. QED  BY <1>6, <1>13, <1>16, <2>1
<1>20. AnswerFacts(tl)
  <2>1. ASSUME NEW c \in Node, reply'[c].kind = "append", reply'[c].ok, reply'[c] # reply[c]
        PROVE  \E T \in Nat, q \in Node, n \in Nat :
                 /\ T = reply'[c].asked /\ q = reply'[c].from /\ n = reply'[c].match
                 /\ Keeps(tl, T, q, n)'
    <3>1. c = i /\ reply'[i] = r
      BY <1>11, <2>1, NoReplyIs
    <3>2. success
      BY <1>10, <2>1, <3>1
    <3>3. a \in 0 .. Len(tl[u])
      BY <1>3, <1>4
    <3>4. Agree(log'[j], tl[u], a) /\ currentTerm'[j] = u
      BY <1>3, <1>7, <1>19, <3>2
    <3>5. Keeps(tl, u, j, a)'
      BY <3>3, <3>4 DEF Keeps
    <3>. QED  BY <1>10, <3>1, <3>5
  <2>. QED  BY <2>1 DEF AnswerFacts
<1>21. AckFacts /\ MatchFacts
  <2>1. \A x \in Node : matchIndex'[x] \in {matchIndex[x], NoMatches}
    BY <1>14
  <2>2. ASSUME NEW x \in Node, NEW q \in Node, NEW n \in Nat, StillLeads(x), AckedBy(x, q, n)'
        PROVE  \/ AckedBy(x, q, n)
               \/ n = 0
               \/ currentTerm[q] <= currentTerm[x] /\ currentTerm'[q] = currentTerm[x]
    <3>1. CASE reply'[x] = reply[x] \/ ~(reply'[x].kind = "append" /\ reply'[x].ok)
      BY <1>0, <2>1, <2>2, <3>1, AcksSame DEF StillLeads
    <3>2. CASE x = i /\ reply'[i] = r /\ success
      <4>1. CASE q = j
        BY <1>2, <1>8, <1>13, <3>2, <4>1
      <4>2. CASE q # j
        <5>1. n <= matchIndex'[i][q]
          BY <1>10, <2>2, <3>2, <4>2 DEF AckedBy
        <5>2. matchIndex'[i] = matchIndex[i]
          BY <1>1, <1>14
        <5>. QED  BY <3>2, <5>1, <5>2 DEF AckedBy
      <4>. QED  BY <4>1, <4>2
    <3>. QED  BY <1>10, <1>11, <3>1, <3>2, NoReplyIs
  <2>. QED  BY <1>0, <2>1, <2>2, MatchesSame DEF AckFacts, MatchFacts
<1>22. CommitFacts
  <2>1. CASE commitIndex'[j] = cj
    BY <1>4, <1>14, <2>1 DEF CommitFacts
  <2>2. CASE success /\ commitIndex'[j] <= ci /\ commitIndex'[j] <= Len(new)
    <3>1. PICK c \in Nat, b \in Nat : c = commitIndex'[j] /\ b = Len(new)
      BY <1>14, SeqFacts
    <3>2. ci <= a
      BY <1>0, <1>3, <1>4 DEF TypeInv
    <3>3. c <= a
      BY <2>2, <3>1, <3>2
    <3>4. Agree(log'[j], log[i], c)
      BY <1>3, <1>7, <1>19, <2>2, <3>1, <3>3 DEF Agree
    <3>5. currentTerm'[j] = currentTerm[i] /\ commitIndex'[j] <= commitIndex[i]
      BY <1>2, <1>4, <1>19, <2>2
    <3>6. \A x \in Node : x # j => commitIndex'[x] = commitIndex[x]
      BY <1>14
    <3>. QED  BY <1>0, <3>1, <3>4, <3>5, <3>6 DEF CommitFacts
  <2>. QED  BY <1>14, <2>1, <2>2
<1>23. AppliedFacts
  BY <1>7, <1>14 DEF AppliedFacts
<1>. QED  BY <1>15, <1>17, <1>18, <1>20, <1>21, <1>22, <1>23 DEF StepFacts

-----------------------------------------------------------------------------
(***************************************************************************)
(* The facts of each action: clients, the administrator, a restart.        *)
(***************************************************************************)

LEMMA ClientPutFacts ==
    ASSUME NEW tl, MembershipInv(tl), NEW i \in Node, ClientPut(i)
    PROVE  \E tl2 : StepFacts(tl, tl2)
<1>1. TypeInv /\ state[i] = "Leader" /\ currentTerm[i] \in Nat
  BY DEF MembershipInv, ClientPut, TypeInv
<1> DEFINE e == [NoEntry EXCEPT !.term = currentTerm[i], !.op = "PUT"]
<1>2. e \in Entries /\ e.term = currentTerm[i]
  BY <1>1 DEF NoEntry, Entries
<1>3. AppendEntry(i, e) /\ admin' \in [Node -> Changes]
  BY <1>1 DEF ClientPut, TypeInv
<1> HIDE DEF e
<1>. QED  BY <1>1, <1>2, <1>3, AppendFacts DEF ClientPut

LEMMA AdminType ==
    ASSUME TypeInv, NEW i \in Node, NEW a \in Changes, SetAdmin(i, a)
    PROVE  admin' \in [Node -> Changes]
  BY DEF TypeInv, SetAdmin

LEMMA NoChangeIs == NoChange \in Changes
  BY DEF NoChange, Changes

LEMMA ChangeIs ==
    ASSUME TypeInv, NEW i \in Node, admin[i].stage # "idle"
    PROVE  /\ admin[i].old \in Confs /\ admin[i].new \in Confs
           /\ admin[i].new # {} /\ admin[i].old \subseteq Node /\ admin[i].new \subseteq Node
           /\ [admin[i] EXCEPT !.stage = "joint"] \in Changes
           /\ [admin[i] EXCEPT !.stage = "new"] \in Changes
<1>1. PICK a \in Changes : a = admin[i] /\ a.stage # "idle"
  BY DEF TypeInv
<1>2. /\ a.old \in Confs /\ a.new \in Confs /\ a.new # {}
      /\ a.old \subseteq Node /\ a.new \subseteq Node
  BY <1>1 DEF Changes
<1>3. ASSUME NEW stage \in {"joint", "new"}
      PROVE  [a EXCEPT !.stage = stage] \in Changes
  <2> DEFINE b == [a EXCEPT !.stage = stage]
  <2>1. /\ b \in [stage : {"idle", "begun", "joint", "new"}, old : SUBSET Node, new : SUBSET Node]
        /\ b.old = a.old /\ b.new = a.new
    BY DEF Changes
  <2>. HIDE DEF b
  <2>. QED  BY <1>2, <2>1 DEF Changes, b
<1>. QED  BY <1>1, <1>2, <1>3

LEMMA AppendConfigJointFacts ==
    ASSUME NEW tl, MembershipInv(tl), NEW i \in Node, AppendConfigJoint(i)
    PROVE  \E tl2 : StepFacts(tl, tl2)
<1>1. /\ TypeInv /\ state[i] = "Leader" /\ currentTerm[i] \in Nat /\ admin[i].stage = "begun"
  BY DEF MembershipInv, AppendConfigJoint, TypeInv
<1> DEFINE e == [term |-> currentTerm[i], op |-> "JOINT",
                 old |-> admin[i].old, new |-> admin[i].new]
<1>2. e \in Entries /\ e.term = currentTerm[i]
  BY <1>1, ChangeIs DEF Entries
<1>3. AppendEntry(i, e) /\ admin' \in [Node -> Changes]
  BY <1>1, ChangeIs, AdminType DEF AppendConfigJoint
<1> HIDE DEF e
<1>. QED  BY <1>1, <1>2, <1>3, AppendFacts DEF AppendConfigJoint

LEMMA AppendConfigNewFacts ==
    ASSUME NEW tl, MembershipInv(tl), NEW i \in Node, AppendConfigNew(i)
    PROVE  \E tl2 : StepFacts(tl, tl2)
<1>1. /\ TypeInv /\ state[i] = "Leader" /\ currentTerm[i] \in Nat /\ admin[i].stage = "joint"
  BY DEF MembershipInv, AppendConfigNew, TypeInv
<1> DEFINE e == [NoEntry EXCEPT !.term = currentTerm[i], !.op = "NEW", !.new = admin[i].new]
<1>2. e \in Entries /\ e.term = currentTerm[i]
  BY <1>1, ChangeIs DEF NoEntry, Entries
<1>3. AppendEntry(i, e) /\ admin' \in [Node -> Changes]
  BY <1>1, ChangeIs, AdminType DEF AppendConfigNew
<1> HIDE DEF e
<1>. QED  BY <1>1, <1>2, <1>3, AppendFacts DEF AppendConfigNew

\* The administrator's thread moves on; at most what it has reported changes.
LEMMA AdminFacts ==
    ASSUME NEW tl, MembershipInv(tl), NEW i \in Node, NEW a \in Changes, SetAdmin(i, a),
           UNCHANGED <<protocol, data, restarts>>,
           finished' \subseteq [conf : SUBSET Node, at : Nat]
    PROVE  StepFacts(tl, tl)
<1>1. TypeInv
  BY DEF MembershipInv
<1>2. TypeInv'
  BY <1>1, AdminType DEF TypeInv, protocol, data
<1>. QED  BY <1>2, IdleFacts DEF data

LEMMA BeginChangeFacts ==
    ASSUME NEW tl, MembershipInv(tl), NEW i \in Node, NEW X \in Confs, X # {},
           BeginChange(i, X)
    PROVE  StepFacts(tl, tl)
<1>1. TypeInv /\ X \subseteq Node
  BY DEF MembershipInv, Confs
<1>2. config[i].current \in Confs /\ config[i].current \subseteq Node
  BY <1>1 DEF TypeInv, Configs
<1> DEFINE a == [stage |-> "begun", old |-> config[i].current, new |-> X]
<1>3. a \in Changes
  BY <1>1, <1>2 DEF Changes
<1>4. SetAdmin(i, a)
  BY DEF BeginChange
<1> HIDE DEF a
<1>. QED  BY <1>1, <1>3, <1>4, AdminFacts DEF BeginChange, TypeInv

LEMMA AddNodeFacts ==
    ASSUME NEW tl, MembershipInv(tl), NEW i \in Node, NEW n \in Node, AddNode(i, n)
    PROVE  StepFacts(tl, tl)
<1>1. config[i].current \in Confs
  BY DEF MembershipInv, TypeInv, Configs
<1>2. config[i].current \cup {n} \in Confs
  BY <1>1, ConfsGrow DEF AddNode
<1>. QED  BY <1>2, BeginChangeFacts DEF AddNode

LEMMA RemoveNodeFacts ==
    ASSUME NEW tl, MembershipInv(tl), NEW i \in Node, NEW n \in Node, RemoveNode(i, n)
    PROVE  StepFacts(tl, tl)
<1>1. config[i].current \in Confs
  BY DEF MembershipInv, TypeInv, Configs
<1>2. config[i].current \ {n} \in Confs /\ config[i].current \ {n} # {}
  BY <1>1, ConfsGrow DEF RemoveNode
<1>. QED  BY <1>2, BeginChangeFacts DEF RemoveNode

LEMMA FinishChangeFacts ==
    ASSUME NEW tl, MembershipInv(tl), NEW i \in Node, FinishChange(i)
    PROVE  StepFacts(tl, tl)
<1>1. TypeInv /\ admin[i].stage # "idle"
  BY DEF MembershipInv, FinishChange
<1>2. admin[i].new \subseteq Node /\ commitIndex[i] \in Nat
  BY <1>1, ChangeIs DEF TypeInv
<1>3. finished' \subseteq [conf : SUBSET Node, at : Nat]
  BY <1>1, <1>2 DEF FinishChange, TypeInv
<1>. QED  BY <1>3, NoChangeIs, AdminFacts DEF FinishChange

LEMMA AbandonChangeFacts ==
    ASSUME NEW tl, MembershipInv(tl), NEW i \in Node, AbandonChange(i)
    PROVE  StepFacts(tl, tl)
<1>1. finished' \subseteq [conf : SUBSET Node, at : Nat]
  BY DEF MembershipInv, TypeInv, AbandonChange
<1>. QED  BY <1>1, NoChangeIs, AdminFacts DEF AbandonChange

LEMMA RestartFacts ==
    ASSUME NEW tl, MembershipInv(tl), NEW i \in Node, Restart(i)
    PROVE  StepFacts(tl, tl)
<1>0. /\ TypeInv /\ CampaignInv /\ LedgerInv(tl)
      /\ UNCHANGED <<currentTerm, votedFor, log, elected, applied, finished>>
  BY DEF MembershipInv, Restart
<1>1. PICK s \in Standings : standing' = [standing EXCEPT ![i] = s]
  BY DEF Restart, Standings
<1>2. /\ restarts' = [restarts EXCEPT ![i] = "done"]
      /\ state' = [state EXCEPT ![i] = "Follower"]
      /\ round' = [round EXCEPT ![i] = NoRound]
      /\ reply' = [reply EXCEPT ![i] = NoReply]
      /\ commitIndex' = [commitIndex EXCEPT ![i] = 0]
      /\ matchIndex' = [matchIndex EXCEPT ![i] = NoMatches]
      /\ config' = [config EXCEPT ![i] = Stable(LaterConf[i])]
      /\ SetAdmin(i, NoChange)
  BY DEF Restart, NoMatches
<1>3. Stable(LaterConf[i]) \in Configs
  <2>1. LaterConf[i] \in Confs /\ LaterConf[i] \subseteq Node
    BY ConfsRead, MembershipAssumption
  <2>. QED  BY <2>1 DEF Stable, Configs
<1>4. /\ state' \in [Node -> Roles] /\ state'[i] = "Follower"
      /\ \A c \in Node : c # i => state'[c] = state[c]
      /\ round' \in [Node -> Rounds]
      /\ \A c \in Node : c # i => round'[c] = round[c]
      /\ \A c \in Node : c \notin round'[c].todo
  BY <1>0, <1>2, NoRoundIs DEF TypeInv, Roles
<1>5. /\ reply' \in [Node -> Replies] /\ reply'[i] = NoReply
      /\ \A c \in Node : c # i => reply'[c] = reply[c]
      /\ \A c \in Node : reply'[c].kind # "none" => reply'[c].from \in Node
  BY <1>0, <1>2, NoReplyIs DEF TypeInv
<1>6. /\ commitIndex' \in [Node -> Nat]
      /\ \A c \in Node : commitIndex'[c] \in {0, commitIndex[c]}
      /\ matchIndex' \in [Node -> [Node -> Nat]]
      /\ \A c \in Node : matchIndex'[c] \in {matchIndex[c], NoMatches}
  BY <1>0, <1>2 DEF TypeInv, NoMatches
<1>7. /\ config' \in [Node -> Configs] /\ standing' \in [Node -> Standings]
      /\ restarts' \in [Node -> {"never", "once", "done"}]
      /\ admin' \in [Node -> Changes]
  BY <1>0, <1>1, <1>2, <1>3, NoChangeIs, AdminType DEF TypeInv
<1>8. TypeInv'
  <2>1. ASSUME NEW c \in Node
        PROVE  commitIndex'[c] <= Len(log[c])
    <3>1. log[c] \in Seq(Entries) /\ commitIndex[c] <= Len(log[c])
      BY <1>0 DEF TypeInv
    <3>2. PICK L \in Nat : L = Len(log[c])
      BY <3>1, SeqFacts
    <3>3. commitIndex'[c] = 0 \/ commitIndex'[c] = commitIndex[c]
      BY <1>6
    <3>. QED  BY <3>1, <3>2, <3>3
  <2>. QED  BY <1>0, <1>4, <1>5, <1>6, <1>7, <2>1 DEF TypeInv
<1>9. VoteFacts
  <2>1. \A x \in Node : currentTerm[x] >= currentTerm[x]
    BY <1>0 DEF TypeInv
  <2>2. \A c \in Node : state'[c] = "Candidate" => Continues(c)
    BY <1>0, <1>4, <1>5, SameCandidate
  <2>3. \A x \in Node : state'[x] = "Leader" => state[x] = "Leader"
    BY <1>4
  <2>. QED  BY <1>0, <2>1, <2>2, <2>3 DEF VoteFacts
<1>10. LogFacts(tl, tl) /\ LedgerInv(tl)'
  <2>1. \A x \in Node : state'[x] = "Leader" => StillLeads(x)
    BY <1>0, <1>4 DEF StillLeads
  <2>. QED  BY <1>0, <2>1, LogsSame, LedgerStays
<1>11. AnswerFacts(tl) /\ CommitFacts /\ AppliedFacts
  BY <1>0, <1>5, <1>6, NoReplyIs DEF AnswerFacts, CommitFacts, AppliedFacts
<1>12. AckFacts /\ MatchFacts
  <2>1. \A x \in Node : reply'[x] = reply[x] \/ ~(reply'[x].kind = "append" /\ reply'[x].ok)
    BY <1>5, NoReplyIs
  <2>2. \A x, p \in Node, n \in Nat : AckedBy(x, p, n)' => AckedBy(x, p, n) \/ n = 0
    BY <1>0, <1>6, <2>1, AcksSame
  <2>. QED  BY <1>0, <1>6, <2>2, MatchesSame DEF AckFacts, MatchFacts
<1>. QED  BY <1>8, <1>9, <1>10, <1>11, <1>12 DEF StepFacts

-----------------------------------------------------------------------------
(***************************************************************************)
(* The invariant holds.                                                    *)
(***************************************************************************)

LEMMA InitIsSound ==
    ASSUME MembershipInit
    PROVE  MembershipSound
<1> DEFINE tl == [t \in Nat |-> <<>>]
<1>1. TypeInv
  <2>1. PICK c \in Clusters :
          /\ config = [i \in Node |-> Stable(c.conf[i])]
          /\ standing = [i \in Node |-> IF i \in c.learners THEN "learner" ELSE "voter"]
          /\ restarts = [i \in Node |-> IF i \in c.restarting THEN "once" ELSE "never"]
    BY DEF MembershipInit
  <2>2. config \in [Node -> Configs]
    <3>. SUFFICES ASSUME NEW i \in Node PROVE Stable(c.conf[i]) \in Configs
      BY <2>1
    <3>1. c.conf[i] \in Confs /\ c.conf[i] \subseteq Node
      BY ConfsRead, MembershipAssumption
    <3>. QED  BY <3>1 DEF Stable, Configs
  <2>3. standing \in [Node -> Standings] /\ restarts \in [Node -> {"never", "once", "done"}]
    BY <2>1 DEF Standings
  <2>4. /\ log \in [Node -> Seq(Entries)] /\ commitIndex \in [Node -> Nat]
        /\ \A i \in Node : commitIndex[i] <= Len(log[i])
    BY DEF MembershipInit
  <2>5. /\ round \in [Node -> Rounds] /\ \A i \in Node : i \notin round[i].todo
        /\ reply \in [Node -> Replies]
        /\ \A i \in Node : reply[i].kind # "none" => reply[i].from \in Node
        /\ admin \in [Node -> Changes]
    BY NoRoundIs, NoReplyIs, NoChangeIs DEF MembershipInit
  <2>6. /\ state \in [Node -> Roles] /\ currentTerm \in [Node -> Nat]
        /\ votedFor \in [Node -> Node \cup {Nil}] /\ matchIndex \in [Node -> [Node -> Nat]]
        /\ elected = {} /\ applied = {} /\ finished = {}
    BY DEF MembershipInit, Roles
  <2>. QED  BY <2>2, <2>3, <2>4, <2>5, <2>6 DEF TypeInv
<1>2. /\ \A i \in Node : /\ state[i] = "Follower" /\ log[i] = <<>> /\ commitIndex[i] = 0
                         /\ reply[i] = NoReply
      /\ elected = {} /\ applied = {}
  BY DEF MembershipInit
<1>3. CampaignInv /\ RivalsInv /\ ElectedInv
  BY <1>2 DEF CampaignInv, RivalsInv, ElectedInv
<1>4. LedgerInv(tl) /\ LogsInv(tl)
  <2>1. tl \in Ledgers /\ \A t \in Nat : tl[t] = <<>>
    BY DEF Ledgers
  <2>2. Rooted(tl, <<>>) /\ DOMAIN <<>> = {}
    BY DEF Rooted
  <2>. HIDE DEF tl
  <2>. QED  BY <1>2, <2>1, <2>2 DEF LedgerInv, LogsInv
<1>5. AnswersInv(tl) /\ MatchInv(tl) /\ ChoosableInv(tl) /\ CommitInv(tl) /\ AppliedInv(tl)
  BY <1>2, NoReplyIs DEF AnswersInv, MatchInv, ChoosableInv, CommitInv, AppliedInv
<1>6. MembershipInv(tl)
  BY <1>1, <1>3, <1>4, <1>5 DEF MembershipInv
<1>. QED  BY <1>6 DEF MembershipSound

LEMMA NextFacts ==
    ASSUME NEW tl, QuorumsMeet, MembershipInv(tl), [Next]_vars
    PROVE  \E tl2 : StepFacts(tl, tl2)
<1>1. CASE UNCHANGED vars
  <2>1. TypeInv
    BY DEF MembershipInv
  <2>2. UNCHANGED <<protocol, data, admin, restarts, finished>>
    BY <1>1 DEF vars
  <2>3. TypeInv'
    BY <2>1, <2>2 DEF TypeInv, protocol, data
  <2>4. UNCHANGED <<protocol, log, commitIndex, matchIndex, applied>>
    BY <2>2 DEF data
  <2>5. StepFacts(tl, tl)
    BY <2>3, <2>4, IdleFacts
  <2>. QED  BY <2>5
<1>2. ASSUME NEW i \in Node, StartElection(i) PROVE \E tl2 : StepFacts(tl, tl2)
  BY <1>2, StartElectionFacts
<1>3. ASSUME NEW i \in Node, NEW j \in Node, HandleRequestVote(i, j)
      PROVE  \E tl2 : StepFacts(tl, tl2)
  BY <1>3, HandleRequestVoteFacts
<1>4. ASSUME NEW i \in Node, ReceiveVote(i) PROVE \E tl2 : StepFacts(tl, tl2)
  BY <1>4, ReceiveVoteFacts
<1>5. ASSUME NEW i \in Node, NEW j \in Node, NEW p \in 0 .. MaxLog,
             p <= Len(log[i]), HandleAppendEntries(i, j, p)
      PROVE  \E tl2 : StepFacts(tl, tl2)
  BY <1>5, HandleAppendEntriesFacts
<1>6. ASSUME NEW i \in Node, ReceiveAppend(i) PROVE \E tl2 : StepFacts(tl, tl2)
  BY <1>6, ReceiveAppendFacts
<1>7. ASSUME NEW i \in Node, UpdateCommitIndex(i) PROVE \E tl2 : StepFacts(tl, tl2)
  BY <1>7, UpdateCommitIndexFacts
<1>8. ASSUME NEW i \in Node, ClientPut(i) PROVE \E tl2 : StepFacts(tl, tl2)
  BY <1>8, ClientPutFacts
<1>9. ASSUME NEW i \in Node, NEW n \in Node, AddNode(i, n) \/ RemoveNode(i, n)
      PROVE  \E tl2 : StepFacts(tl, tl2)
  BY <1>9, AddNodeFacts, RemoveNodeFacts
<1>10. ASSUME NEW i \in Node, AppendConfigJoint(i) PROVE \E tl2 : StepFacts(tl, tl2)
  BY <1>10, AppendConfigJointFacts
<1>11. ASSUME NEW i \in Node, AppendConfigNew(i) PROVE \E tl2 : StepFacts(tl, tl2)
  BY <1>11, AppendConfigNewFacts
<1>12. ASSUME NEW i \in Node, FinishChange(i) \/ AbandonChange(i)
       PROVE  \E tl2 : StepFacts(tl, tl2)
  BY <1>12, FinishChangeFacts, AbandonChangeFacts
<1>13. ASSUME NEW i \in Node, Restart(i) PROVE \E tl2 : StepFacts(tl, tl2)
  BY <1>13, RestartFacts
<1>. QED
  BY <1>1, <1>2, <1>3, <1>4, <1>5, <1>6, <1>7, <1>8, <1>9, <1>10, <1>11, <1>12, <1>13 DEF Next

LEMMA NextIsSound ==
    ASSUME QuorumsMeet, MembershipSound, [Next]_vars
    PROVE  MembershipSound'
<1>1. PICK tl : MembershipInv(tl)
  BY DEF MembershipSound
<1>2. PICK tl2 : StepFacts(tl, tl2)
  BY <1>1, NextFacts
<1>3. MembershipInv(tl2)'
  BY <1>1, <1>2, InvStep
<1>. QED  BY <1>3 DEF MembershipSound

\* Where one node comes or goes, whichever node it is and however large the
\* cluster, two majorities that hasMajorityInConfigByIds finds have a node in
\* common: what the theorems below assume holds.
THEOREM OneNodeKeepsQuorums ==
    ASSUME OneComesOrGoes
    PROVE  QuorumsMeet
<1>1. PICK C \in SUBSET Node, n \in Node : \A X \in Confs : X = C \/ X = C \cup {n}
  BY DEF OneComesOrGoes
<1> DEFINE D == C \cup {n}
<1>2. /\ IsFiniteSet(C) /\ IsFiniteSet(D)
      /\ Cardinality(D) = Cardinality(C) \/ Cardinality(D) = Cardinality(C) + 1
  BY MembershipAssumption, FS_Subset, FS_AddElement
<1>3. PICK c \in Nat, d \in Nat : c = Cardinality(C) /\ d = Cardinality(D) /\ (d = c \/ d = c + 1)
  BY <1>2, FS_CardinalityType
<1>4. C \subseteq D
  OBVIOUS
<1> HIDE DEF D
<1>5. ASSUME NEW X, NEW Y, NEW S \in SUBSET Node, NEW T \in SUBSET Node,
             X = C \/ X = D, Y = C \/ Y = D, IsMajorityOf(S, X), IsMajorityOf(T, Y)
      PROVE  S \cap T # {}
  <2>1. /\ IsFiniteSet(X) /\ IsFiniteSet(Y)
        /\ IsFiniteSet(S \cap X) /\ IsFiniteSet(T \cap Y)
    BY <1>2, <1>5, FS_Intersection
  <2>2. PICK s \in Nat, t \in Nat, x \in Nat, y \in Nat :
          /\ s = Cardinality(S \cap X) /\ t = Cardinality(T \cap Y)
          /\ x = Cardinality(X) /\ y = Cardinality(Y)
    BY <2>1, FS_CardinalityType
  <2>3. s > x \div 2 /\ t > y \div 2
    BY <1>5, <2>2 DEF IsMajorityOf
  <2>4. (x = c \/ x = d) /\ (y = c \/ y = d)
    BY <1>3, <1>5, <2>2
  <2>5. CASE X = C /\ Y = C
    <3>1. s + t > c
      BY <1>3, <2>2, <2>3, <2>5
    <3>2. S \cap X \subseteq C /\ T \cap Y \subseteq C
      BY <2>5
    <3>3. (S \cap X) \cap (T \cap Y) # {}
      BY <1>2, <1>3, <2>2, <3>1, <3>2, FS_MajoritiesIntersect
    <3>. QED  BY <3>3
  <2>6. CASE X = D \/ Y = D
    <3>1. s + t > d
      <4>1. x = d \/ y = d
        BY <1>3, <2>2, <2>6
      <4>. QED  BY <1>3, <2>3, <2>4, <4>1
    <3>2. S \cap X \subseteq D /\ T \cap Y \subseteq D
      BY <1>4, <1>5
    <3>3. (S \cap X) \cap (T \cap Y) # {}
      BY <1>2, <1>3, <2>2, <3>1, <3>2, FS_MajoritiesIntersect
    <3>. QED  BY <3>3
  <2>. QED  BY <1>5, <2>5, <2>6
<1>. QED  BY <1>1, <1>5 DEF QuorumsMeet, D

\* The inductive invariant: there always is a ledger, the log of each term's
\* leader, with which votes, logs, answers, commit positions and applied entries
\* of raft_node.cpp agree while the configuration changes.
THEOREM MembershipIsSound ==
    ASSUME QuorumsMeet
    PROVE  MembershipSpec => []MembershipSound
<1>1. MembershipInit => MembershipSound
  BY InitIsSound
<1>2. MembershipSound /\ [Next]_vars => MembershipSound'
  BY NextIsSound
<1>. QED  BY <1>1, <1>2, PTL DEF MembershipSpec

\* No record or set of the model ever takes an undefined value.
THEOREM MembershipTypesAreKept ==
    ASSUME QuorumsMeet
    PROVE  MembershipSpec => []MembershipTypeOK
<1>1. MembershipSound => MembershipTypeOK
  <2>. SUFFICES ASSUME TypeInv PROVE MembershipTypeOK
    BY DEF MembershipSound, MembershipInv
  <2> DEFINE E == [term : Nat, op : {"PUT", "JOINT", "NEW"},
                   old : SUBSET Node, new : SUBSET Node]
  <2>1. Entries \subseteq E
    BY DEF Entries
  <2>2. ASSUME NEW i \in Node
        PROVE  log[i] \in Seq(E)
    <3>1. log[i] \in Seq(Entries)
      BY DEF TypeInv
    <3>2. Len(log[i]) \in Nat /\ \A k \in 1 .. Len(log[i]) : log[i][k] \in E
      BY <2>1, <3>1, SeqFacts
    <3>. HIDE DEF E
    <3>. QED  BY <3>1, <3>2
  <2>3. /\ config \in [Node -> [phase : {"STABLE", "JOINT"}, current : SUBSET Node,
                                old : SUBSET Node, new : SUBSET Node]]
        /\ \A i \in Node : config[i].phase = "STABLE" <=> config[i].new = {}
    BY DEF TypeInv, Configs
  <2>4. admin \in [Node -> [stage : {"idle", "begun", "joint", "new"},
                            old : SUBSET Node, new : SUBSET Node]]
    BY DEF TypeInv, Changes
  <2>5. \A a \in applied : a.index \in Nat /\ a.entry \in E /\ a.term \in Nat
    BY <2>1 DEF TypeInv
  <2>6. /\ round \in [Node -> [term : Nat, lastTerm : Nat, lastIndex : Nat,
                               todo : SUBSET Node, granted : SUBSET Node]]
        /\ reply \in [Node -> [kind : {"none", "vote", "append"}, from : Node \cup {Nil},
                               asked : Nat, term : Nat, ok : BOOLEAN, match : Nat]]
    BY DEF TypeInv, Rounds, Replies
  <2>7. /\ state \in [Node -> {"Follower", "Candidate", "Leader"}]
        /\ standing \in [Node -> {"voter", "learner", "leaving", "removed"}]
    BY DEF TypeInv, Roles, Standings
  <2>. QED  BY <2>2, <2>3, <2>4, <2>5, <2>6, <2>7 DEF MembershipTypeOK, TypeInv
<1>. QED  BY <1>1, MembershipIsSound, PTL

\* One leader per term, although startElection counts the votes in the
\* configuration of the moment and nodes differ about it.
THEOREM OneLeaderPerTermWhileChanging ==
    ASSUME QuorumsMeet
    PROVE  MembershipSpec => []OneLeaderPerTerm
<1>1. MembershipSound => OneLeaderPerTerm
  BY DEF MembershipSound, MembershipInv, ElectedInv, OneLeaderPerTerm
<1>. QED  BY <1>1, MembershipIsSound, PTL

\* Of two chosen entries the earlier is in the log of the later one's leader.
LEMMA ChosenChain ==
    ASSUME NEW tl, MembershipInv(tl), NEW T \in Nat, NEW n \in Nat, Chosen(tl, T, n),
           NEW U \in Nat, T <= U, tl[U] # <<>>,
           NEW k \in 1 .. n
    PROVE  k \in DOMAIN tl[U] /\ tl[U][k] = tl[T][k]
<1>0. LedgerInv(tl)
  BY DEF MembershipInv
<1>1. Has(tl[T], n, T) /\ Len(tl[T]) \in Nat /\ DOMAIN tl[T] = 1 .. Len(tl[T])
  BY <1>0, LedgerFacts DEF Chosen
<1>2. CASE T = U
  BY <1>1, <1>2 DEF Has
<1>3. CASE T # U
  <2>1. \E e \in elected : e.term = U
    BY <1>0 DEF LedgerInv
  <2>2. Has(tl[U], n, T)
    BY <1>3, <2>1 DEF Chosen, Held
  <2>3. Agree(tl[T], tl[U], n)
    BY <1>0, <2>2, RootedHas DEF LedgerInv
  <2>. QED  BY <1>0, <2>3, LedgerFacts DEF Agree
<1>. QED  BY <1>2, <1>3

\* No two nodes apply different entries at one index: what applyCommittedLogs
\* does on one node it does on every other, although the entries before and
\* after a change are counted in different configurations.
THEOREM AppliedAgreeWhileChanging ==
    ASSUME QuorumsMeet
    PROVE  MembershipSpec => []AppliedAgree
<1>1. MembershipSound => AppliedAgree
  <2>. SUFFICES ASSUME NEW tl, MembershipInv(tl), NEW a \in applied, NEW b \in applied,
                       a.index = b.index
                PROVE  a.entry = b.entry
    BY DEF MembershipSound, AppliedAgree
  <2>1. PICK T \in Nat, n \in Nat :
          Chosen(tl, T, n) /\ a.index \in 1 .. n /\ a.entry = tl[T][a.index]
    BY DEF MembershipInv, AppliedInv
  <2>2. PICK U \in Nat, m \in Nat :
          Chosen(tl, U, m) /\ b.index \in 1 .. m /\ b.entry = tl[U][b.index]
    BY DEF MembershipInv, AppliedInv
  <2>3. tl[T] # <<>> /\ tl[U] # <<>>
    BY <2>1, <2>2 DEF Chosen, Has
  <2>4. CASE T <= U
    BY <2>1, <2>2, <2>3, <2>4, ChosenChain
  <2>5. CASE U <= T
    BY <2>1, <2>2, <2>3, <2>5, ChosenChain
  <2>. QED  BY <2>4, <2>5
<1>. QED  BY <1>1, MembershipIsSound, PTL

\* A leader has every entry that some node applied in a term before its own or in
\* its own: no election, in whichever configuration it is counted, brings up a
\* leader that would make a node take back what it has applied.
THEOREM LeaderHasAppliedWhileChanging ==
    ASSUME QuorumsMeet
    PROVE  MembershipSpec => []LeaderHasApplied
<1>1. MembershipSound => LeaderHasApplied
  <2>. SUFFICES ASSUME NEW tl, MembershipInv(tl), NEW a \in applied, NEW e \in elected,
                       state[e.leader] = "Leader", currentTerm[e.leader] = e.term,
                       a.term <= e.term
                PROVE  /\ a.index \in DOMAIN log[e.leader]
                       /\ log[e.leader][a.index] = a.entry
    BY DEF MembershipSound, LeaderHasApplied
  <2>0. TypeInv /\ LedgerInv(tl) /\ LogsInv(tl)
    BY DEF MembershipInv
  <2>1. e.leader \in Node /\ e.term \in Nat /\ a.term \in Nat
    BY <2>0 DEF TypeInv
  <2>2. log[e.leader] = tl[e.term]
    BY <2>0, <2>1 DEF LogsInv
  <2>3. PICK T \in Nat, n \in Nat :
          /\ T <= a.term
          /\ Chosen(tl, T, n) /\ a.index \in 1 .. n /\ a.entry = tl[T][a.index]
    BY DEF MembershipInv, AppliedInv
  <2>4. T <= e.term
    BY <2>1, <2>3
  <2>5. tl[e.term] # <<>>
    <3>1. CASE T = e.term
      BY <2>3, <3>1 DEF Chosen, Has
    <3>2. CASE T # e.term
      <4>1. Has(tl[e.term], n, T)
        BY <2>1, <2>3, <2>4, <3>2 DEF Chosen, Held
      <4>. QED  BY <4>1 DEF Has
    <3>. QED  BY <3>1, <3>2
  <2>. QED  BY <2>1, <2>2, <2>3, <2>4, <2>5, ChosenChain
<1>. QED  BY <1>1, MembershipIsSound, PTL

-----------------------------------------------------------------------------
(***************************************************************************)
(* Changes follow each other, for as long as no process is restarted: what *)
(* the order of the entries in a log, the configuration of its node and    *)
(* the command on its server thread have to do with each other.            *)
(***************************************************************************)

\* Of the first n entries of s, the last CONFIG_NEW is the one at m.
LastNew(s, m, n) ==
    /\ m \in 1 .. n
    /\ s[m].op = "NEW"
    /\ \A k \in m + 1 .. n : s[k].op # "NEW"

\* The first n entries of s end in a change that is not finished.
Begun(s, n) ==
    \E m \in 1 .. n : s[m].op = "JOINT" /\ \A k \in m + 1 .. n : s[k].op # "NEW"

\* A node that has applied the first n entries of s has configuration c.
Makes(s, n, c) ==
    /\ c.phase = "JOINT" <=> Begun(s, n)
    /\ \A m \in 1 .. n : LastNew(s, m, n) => c.current = s[m].new

\* Each CONFIG_NEW of s was announced by a CONFIG_JOINT that is committed.
Announced(s, c) ==
    \A n \in DOMAIN s : s[n].op = "NEW" =>
        \E m \in 1 .. n - 1 : /\ m <= c
                              /\ s[m].op = "JOINT"
                              /\ \A k \in m + 1 .. n - 1 : s[k].op # "NEW"

\* A change starts from what the CONFIG_NEW before it has left.
Chained(s) ==
    \A n \in DOMAIN s : s[n].op = "JOINT" =>
        \A m \in 1 .. n - 1 : LastNew(s, m, n - 1) => s[n].old = s[m].new

\* What a command in progress relies on: nobody else changes the configuration.
Undisturbed(s, c, a) ==
    /\ a.stage \in {"begun", "joint"} =>
         \A n \in DOMAIN s : s[n].op = "NEW" => n <= c
    /\ a.stage = "begun" =>
         \A m \in DOMAIN s : LastNew(s, m, Len(s)) => a.old = s[m].new
    /\ a.stage = "new" =>
         \E m \in DOMAIN s : LastNew(s, m, Len(s)) /\ a.new = s[m].new

InOrder(s, c, conf, a) ==
    /\ Makes(s, c, conf)
    /\ Announced(s, c)
    /\ Chained(s)
    /\ Undisturbed(s, c, a)

Follows(i) == InOrder(log[i], commitIndex[i], config[i], admin[i])

\* What was reported done is in the committed part of some log.
FinishedInv ==
    \A f \in finished : \E l \in Node : \E m \in 1 .. f.at :
        /\ f.at <= commitIndex[l]
        /\ LastNew(log[l], m, f.at)
        /\ log[l][m].new = f.conf

NotRestarted == \A i \in Node : restarts[i] # "done"

ChainInv == NotRestarted => (\A i \in Node : Follows(i)) /\ FinishedInv

\* What is said of the first n entries holds of any log with the same ones.
LEMMA SameToThere ==
    ASSUME NEW s, NEW t, NEW n \in Nat, Agree(s, t, n)
    PROVE  /\ Begun(s, n) <=> Begun(t, n)
           /\ \A m \in 1 .. n : LastNew(s, m, n) => LastNew(t, m, n) /\ t[m] = s[m]
           /\ \A c \in Configs : Makes(s, n, c) => Makes(t, n, c)
<1>1. \A k \in 1 .. n : s[k] = t[k]
  BY DEF Agree
<1>2. \A m \in 1 .. n : \A k \in m + 1 .. n : k \in 1 .. n
  OBVIOUS
<1>3. Begun(s, n) <=> Begun(t, n)
  BY <1>1, <1>2 DEF Begun
<1>4. \A m \in 1 .. n : LastNew(s, m, n) <=> LastNew(t, m, n)
  BY <1>1, <1>2 DEF LastNew
<1>5. \A m \in 1 .. n : LastNew(s, m, n) => t[m] = s[m]
  BY <1>1 DEF LastNew
<1>6. \A c \in Configs : Makes(s, n, c) => Makes(t, n, c)
  BY <1>1, <1>3, <1>4 DEF Makes
<1>. QED  BY <1>3, <1>4, <1>5, <1>6

\* The configuration after one more entry.
LEMMA MakesNext ==
    ASSUME NEW s \in Seq(Entries), NEW n \in Nat, n + 1 <= Len(s), NEW c, NEW d, Makes(s, n, c),
           d = IF s[n + 1].op \in {"JOINT", "NEW"} THEN ConfigAfter(c, s[n + 1]) ELSE c,
           c \in Configs
    PROVE  Makes(s, n + 1, d)
<1>1. PICK e \in Entries : e = s[n + 1]
  BY SeqFacts
<1>2. \A m \in 1 .. n + 1 : m \in 1 .. n \/ m = n + 1
  OBVIOUS
<1>3. CASE e.op = "NEW"
  <2>1. d.phase = "STABLE" /\ d.current = e.new
    BY <1>1, <1>3 DEF ConfigAfter, Stable
  <2>2. ~Begun(s, n + 1)
    <3>. SUFFICES ASSUME NEW m \in 1 .. n + 1, s[m].op = "JOINT",
                         \A k \in m + 1 .. n + 1 : s[k].op # "NEW"
                  PROVE  FALSE
      BY DEF Begun
    <3>1. m # n + 1
      BY <1>1, <1>3
    <3>2. n + 1 \in m + 1 .. n + 1
      BY <3>1
    <3>. QED  BY <1>1, <1>3, <3>2
  <2>3. \A m \in 1 .. n + 1 : LastNew(s, m, n + 1) => m = n + 1
    <3>. SUFFICES ASSUME NEW m \in 1 .. n + 1, LastNew(s, m, n + 1), m # n + 1 PROVE FALSE
      OBVIOUS
    <3>1. n + 1 \in m + 1 .. n + 1
      OBVIOUS
    <3>. QED  BY <1>1, <1>3, <3>1 DEF LastNew
  <2>. QED  BY <1>1, <2>1, <2>2, <2>3 DEF Makes
<1>4. CASE e.op # "NEW"
  <2>1. \A m \in 1 .. n : (\A k \in m + 1 .. n + 1 : s[k].op # "NEW")
                            <=> (\A k \in m + 1 .. n : s[k].op # "NEW")
    <3>. SUFFICES ASSUME NEW m \in 1 .. n
                  PROVE  (\A k \in m + 1 .. n + 1 : s[k].op # "NEW")
                            <=> (\A k \in m + 1 .. n : s[k].op # "NEW")
      OBVIOUS
    <3>1. \A k \in m + 1 .. n + 1 : k \in m + 1 .. n \/ k = n + 1
      OBVIOUS
    <3>2. \A k \in m + 1 .. n : k \in m + 1 .. n + 1
      OBVIOUS
    <3>. QED  BY <1>1, <1>4, <3>1, <3>2
  <2>2. \A m \in 1 .. n + 1 : LastNew(s, m, n + 1) => m \in 1 .. n /\ LastNew(s, m, n)
    BY <1>1, <1>2, <1>4, <2>1 DEF LastNew
  <2>3. CASE e.op = "JOINT"
    <3>1. d.phase = "JOINT" /\ d.current = c.current
      BY <1>1, <2>3 DEF ConfigAfter, Joint, Configs
    <3>2. Begun(s, n + 1)
      <4>1. n + 1 \in 1 .. n + 1 /\ (n + 1) + 1 .. n + 1 = {}
        OBVIOUS
      <4>. QED  BY <1>1, <2>3, <4>1 DEF Begun
    <3>. QED  BY <2>2, <3>1, <3>2 DEF Makes
  <2>4. CASE e.op # "JOINT"
    <3>1. d = c
      BY <1>1, <1>4, <2>4
    <3>2. Begun(s, n + 1) <=> Begun(s, n)
      BY <1>1, <1>2, <2>1, <2>4 DEF Begun
    <3>. QED  BY <2>2, <3>1, <3>2 DEF Makes
  <2>. QED  BY <2>3, <2>4
<1>. QED  BY <1>3, <1>4

\* Applying entries makes the configuration they lead to.
LEMMA ApplyingMakes ==
    ASSUME TypeInv, NEW i \in Node, NEW st \in Roles, NEW lg \in Seq(Entries),
           NEW n \in Nat, commitIndex[i] <= n, n <= Len(lg),
           Makes(lg, commitIndex[i], config[i]), ApplyUpTo(i, st, lg, n)
    PROVE  Makes(lg, n, config'[i])
<1> DEFINE c == commitIndex[i]
           now == [config |-> config[i], match |-> matchIndex[i],
                   state |-> st, standing |-> standing[i]]
           after == Applying(i, st, lg, n)
<1>1. c \in Nat
  BY DEF TypeInv
<1>2. config'[i] = after[n].config
  BY DEF ApplyUpTo, TypeInv
<1>3. /\ after[c] = now
      /\ \A k \in c + 1 .. n :
           after[k] = IF lg[k].op \in {"JOINT", "NEW"}
                      THEN ApplyConfig(i, after[k - 1], lg[k]) ELSE after[k - 1]
  BY ApplyingRuns
<1> HIDE DEF c, after
<1>4. \A k \in c .. n : after[k].config \in Configs /\ Makes(lg, k, after[k].config)
  <2> DEFINE Bad == {k \in c .. n :
                       ~(after[k].config \in Configs /\ Makes(lg, k, after[k].config))}
  <2>. SUFFICES ASSUME Bad # {} PROVE FALSE
    OBVIOUS
  <2>1. PICK k \in Bad : \A x \in Bad : k <= x
    <3>1. Bad \in SUBSET Nat
      BY <1>1
    <3>. HIDE DEF Bad
    <3>. QED  BY <3>1, LeastExists
  <2>2. k # c
    <3>1. config[i] \in Configs /\ after[c].config = config[i]
      BY <1>3 DEF TypeInv
    <3>. QED  BY <2>1, <3>1 DEF c
  <2>3. k \in c + 1 .. n /\ k - 1 \in c .. n /\ k - 1 \notin Bad /\ k - 1 \in Nat
    BY <1>1, <2>1, <2>2
  <2>4. PICK l \in Nat : l = k - 1 /\ l + 1 = k
    BY <2>3
  <2>5. after[l].config \in Configs /\ Makes(lg, l, after[l].config)
    BY <2>3, <2>4
  <2>6. lg[k] \in Entries /\ l + 1 <= Len(lg)
    BY <1>1, <2>3, <2>4, SeqFacts
  <2>7. after[k].config = IF lg[k].op \in {"JOINT", "NEW"}
                          THEN ConfigAfter(after[l].config, lg[k]) ELSE after[l].config
    <3>1. after[k] = IF lg[k].op \in {"JOINT", "NEW"}
                     THEN ApplyConfig(i, after[l], lg[k]) ELSE after[l]
      BY <1>3, <2>3, <2>4
    <3>2. ApplyConfig(i, after[l], lg[k]).config = ConfigAfter(after[l].config, lg[k])
      BY DEF ApplyConfig
    <3>. QED  BY <3>1, <3>2
  <2>8. after[k].config \in Configs
    BY <2>5, <2>6, <2>7, ConfigAfterType
  <2>9. Makes(lg, k, after[k].config)
    BY <2>4, <2>5, <2>6, <2>7, MakesNext
  <2>. QED  BY <2>1, <2>8, <2>9
<1>. QED  BY <1>1, <1>2, <1>4 DEF c

\* An entry that is written at the end of a log.
LEMMA AppendInOrder ==
    ASSUME NEW s \in Seq(Entries), NEW e \in Entries, NEW c \in Nat, c <= Len(s),
           NEW conf \in Configs, NEW a, NEW a2, InOrder(s, c, conf, a),
           \/ e.op = "PUT" /\ a2.stage = "idle"
           \/ /\ e.op = "JOINT" /\ e.old = a.old
              /\ a.stage = "begun" /\ a2.stage = "joint"
           \/ /\ e.op = "NEW" /\ e.new = a2.new /\ conf.phase = "JOINT"
              /\ a.stage = "joint" /\ a2.stage = "new"
    PROVE  InOrder(Append(s, e), c, conf, a2)
<1>1. PICK L \in Nat : L = Len(s) /\ DOMAIN s = 1 .. L
  BY SeqFacts
<1>2. PICK b \in Seq(Entries) :
        /\ b = Append(s, e) /\ Len(b) = L + 1 /\ DOMAIN b = 1 .. L + 1
        /\ \A k \in 1 .. L : b[k] = s[k]
        /\ b[L + 1] = e
  BY <1>1, AppendIs, SeqFacts
<1>3. \A n \in 0 .. L : Agree(s, b, n) /\ Agree(b, s, n)
  BY <1>1, <1>2 DEF Agree
<1>4. \A k \in 1 .. L + 1 : k \in 1 .. L \/ k = L + 1
  OBVIOUS
<1>5. Makes(s, c, conf) /\ Announced(s, c) /\ Chained(s) /\ Undisturbed(s, c, a)
  BY DEF InOrder
<1>6. Makes(b, c, conf)
  BY <1>1, <1>3, <1>5, SameToThere
<1>7. Announced(b, c)
  <2>. SUFFICES ASSUME NEW n \in 1 .. L + 1, b[n].op = "NEW"
                PROVE  \E m \in 1 .. n - 1 : /\ m <= c
                                             /\ b[m].op = "JOINT"
                                             /\ \A k \in m + 1 .. n - 1 : b[k].op # "NEW"
    BY <1>2 DEF Announced
  <2>1. CASE n \in 1 .. L
    <3>1. PICK m \in 1 .. n - 1 : /\ m <= c
                                  /\ s[m].op = "JOINT"
                                  /\ \A k \in m + 1 .. n - 1 : s[k].op # "NEW"
      BY <1>1, <1>2, <1>5, <2>1 DEF Announced
    <3>2. m \in 1 .. L /\ \A k \in m + 1 .. n - 1 : k \in 1 .. L
      BY <2>1
    <3>. QED  BY <1>2, <3>1, <3>2
  <2>2. CASE n = L + 1
    <3>1. a.stage = "joint" /\ conf.phase = "JOINT"
      BY <1>2, <2>2
    <3>2. PICK m \in 1 .. c : s[m].op = "JOINT" /\ \A k \in m + 1 .. c : s[k].op # "NEW"
      BY <1>5, <3>1 DEF Makes, Begun
    <3>3. ASSUME NEW k \in m + 1 .. L PROVE b[k].op # "NEW"
      <4>1. k \in 1 .. L /\ (k <= c => k \in m + 1 .. c)
        OBVIOUS
      <4>2. s[k].op = "NEW" => k <= c
        BY <1>1, <1>5, <3>1, <4>1 DEF Undisturbed
      <4>. QED  BY <1>2, <3>2, <4>1, <4>2
    <3>4. m \in 1 .. n - 1 /\ m \in 1 .. L /\ m <= c /\ n - 1 = L
      BY <1>1, <2>2
    <3>. QED  BY <1>2, <3>2, <3>3, <3>4
  <2>. QED  BY <1>4, <2>1, <2>2
<1>8. Chained(b)
  <2>. SUFFICES ASSUME NEW n \in 1 .. L + 1, b[n].op = "JOINT",
                       NEW m \in 1 .. n - 1, LastNew(b, m, n - 1)
                PROVE  b[n].old = b[m].new
    BY <1>2 DEF Chained
  <2>1. LastNew(s, m, n - 1) /\ s[m] = b[m] /\ m \in 1 .. L
    <3>1. n - 1 \in 0 .. L
      OBVIOUS
    <3>. QED  BY <1>3, <3>1, SameToThere
  <2>2. CASE n \in 1 .. L
    BY <1>1, <1>2, <1>5, <2>1, <2>2 DEF Chained
  <2>3. CASE n = L + 1
    <3>1. a.stage = "begun" /\ e.old = a.old
      BY <1>2, <2>3
    <3>2. n - 1 = Len(s)
      BY <1>1, <2>3
    <3>3. LastNew(s, m, Len(s)) /\ m \in DOMAIN s
      BY <1>1, <2>1, <3>2
    <3>. QED  BY <1>2, <1>5, <2>1, <2>3, <3>1, <3>3 DEF Undisturbed
  <2>. QED  BY <1>4, <2>2, <2>3
<1>9. Undisturbed(b, c, a2)
  <2>1. CASE e.op = "PUT"
    BY <2>1 DEF Undisturbed
  <2>2. CASE e.op = "JOINT"
    <3>1. a.stage = "begun" /\ a2.stage = "joint"
      BY <2>2
    <3>2. \A n \in DOMAIN b : b[n].op = "NEW" => n <= c
      BY <1>1, <1>2, <1>4, <1>5, <2>2, <3>1 DEF Undisturbed
    <3>. QED  BY <3>1, <3>2 DEF Undisturbed
  <2>3. CASE e.op = "NEW"
    <3>1. a2.stage = "new" /\ e.new = a2.new
      BY <2>3
    <3>2. LastNew(b, L + 1, L + 1) /\ L + 1 \in DOMAIN b
      BY <1>2, <2>3 DEF LastNew
    <3>. QED  BY <1>2, <3>1, <3>2 DEF Undisturbed
  <2>. QED  BY <2>1, <2>2, <2>3
<1>. QED  BY <1>2, <1>6, <1>7, <1>8, <1>9 DEF InOrder

\* In a stable configuration every CONFIG_NEW of the log is committed.
LEMMA StableIsDone ==
    ASSUME NEW s, NEW c \in Nat, NEW conf, NEW n \in DOMAIN s, DOMAIN s \subseteq Nat \ {0},
           Makes(s, c, conf), Announced(s, c), conf.phase = "STABLE", s[n].op = "NEW"
    PROVE  n <= c
<1>. SUFFICES ASSUME n > c PROVE FALSE
  OBVIOUS
<1>1. PICK m \in 1 .. n - 1 : /\ m <= c
                              /\ s[m].op = "JOINT"
                              /\ \A k \in m + 1 .. n - 1 : s[k].op # "NEW"
  BY DEF Announced
<1>2. m \in 1 .. c /\ \A k \in m + 1 .. c : k \in m + 1 .. n - 1
  BY <1>1
<1>3. Begun(s, c)
  BY <1>1, <1>2 DEF Begun
<1>. QED  BY <1>3 DEF Makes

\* A change begins: what addNode and removeNode read is what the log has left.
LEMMA BeginInOrder ==
    ASSUME NEW s \in Seq(Entries), NEW c \in Nat, c <= Len(s), NEW conf, NEW a, NEW a2,
           InOrder(s, c, conf, a), conf.phase = "STABLE",
           a2.stage = "begun", a2.old = conf.current
    PROVE  InOrder(s, c, conf, a2)
<1>1. PICK L \in Nat : L = Len(s) /\ DOMAIN s = 1 .. L
  BY SeqFacts
<1>2. Makes(s, c, conf) /\ Announced(s, c) /\ Chained(s)
  BY DEF InOrder
<1>3. \A n \in DOMAIN s : s[n].op = "NEW" => n <= c
  BY <1>1, <1>2, StableIsDone
<1>4. ASSUME NEW m \in DOMAIN s, LastNew(s, m, L) PROVE conf.current = s[m].new
  <2>1. m \in 1 .. c /\ \A k \in m + 1 .. c : k \in m + 1 .. L
    BY <1>1, <1>3, <1>4 DEF LastNew
  <2>2. LastNew(s, m, c)
    BY <1>4, <2>1 DEF LastNew
  <2>. QED  BY <1>2, <2>1, <2>2 DEF Makes
<1>5. Undisturbed(s, c, a2)
  BY <1>1, <1>3, <1>4 DEF Undisturbed
<1>. QED  BY <1>2, <1>5 DEF InOrder

LEMMA AnnouncedLater ==
    ASSUME NEW s, NEW c \in Nat, NEW d \in Nat, c <= d, DOMAIN s \subseteq Nat, Announced(s, c)
    PROVE  Announced(s, d)
<1>1. ASSUME NEW n \in DOMAIN s, s[n].op = "NEW"
      PROVE  \E m \in 1 .. n - 1 : /\ m <= d
                                   /\ s[m].op = "JOINT"
                                   /\ \A k \in m + 1 .. n - 1 : s[k].op # "NEW"
  <2>1. PICK m \in 1 .. n - 1 : /\ m <= c
                                /\ s[m].op = "JOINT"
                                /\ \A k \in m + 1 .. n - 1 : s[k].op # "NEW"
    BY <1>1 DEF Announced
  <2>2. m <= d
    BY <2>1
  <2>. QED  BY <2>1, <2>2
<1>. QED  BY <1>1 DEF Announced

\* What a node has committed stays in its log.
LEMMA CommittedKept ==
    ASSUME NEW tl, NEW tl2, MembershipInv(tl), StepFacts(tl, tl2), NEW i \in Node
    PROVE  Agree(log[i], log'[i], commitIndex[i])
<1>0. TypeInv /\ TypeInv' /\ LedgerInv(tl) /\ CommitInv(tl) /\ Extends(tl, tl2)
  BY DEF MembershipInv, StepFacts, LogFacts
<1>1. PICK c \in Nat : c = commitIndex[i]
  BY <1>0 DEF TypeInv
<1>2. log[i] \in Seq(Entries) /\ log'[i] \in Seq(Entries)
  BY <1>0 DEF TypeInv
<1>3. CASE c = 0
  BY <1>1, <1>2, <1>3, SeqFacts DEF Agree
<1>4. CASE c # 0
  <2>1. PICK T \in Nat, n \in Nat :
          T <= currentTerm[i] /\ Chosen(tl, T, n) /\ c <= n /\ Agree(log[i], tl[T], c)
    BY <1>0, <1>1, <1>4 DEF CommitInv
  <2>2. Agree(log'[i], tl2[T], c)
    BY <2>1, PieceStays
  <2>3. Agree(log[i], tl2[T], c)
    BY <1>0, <2>1, AgreeExtends
  <2>. QED  BY <1>1, <2>2, <2>3 DEF Agree
<1>. QED  BY <1>3, <1>4

\* Two nodes have committed the same entries, as far as both have committed.
LEMMA CommittedAgree ==
    ASSUME NEW tl, MembershipInv(tl), NEW i \in Node, NEW l \in Node,
           NEW n \in Nat, n <= commitIndex[i], n <= commitIndex[l]
    PROVE  Agree(log[i], log[l], n)
<1>0. TypeInv /\ LedgerInv(tl) /\ CommitInv(tl)
  BY DEF MembershipInv
<1>1. PICK c \in Nat, d \in Nat : c = commitIndex[i] /\ d = commitIndex[l]
  BY <1>0 DEF TypeInv
<1>2. n \in 0 .. Len(log[i]) /\ n \in 0 .. Len(log[l])
  <2>1. \A x \in Node : Len(log[x]) \in Nat /\ commitIndex[x] <= Len(log[x])
    BY <1>0, SeqFacts DEF TypeInv
  <2>. QED  BY <1>1, <2>1
<1>3. CASE n = 0
  BY <1>2, <1>3 DEF Agree
<1>4. CASE n # 0
  <2>1. PICK T \in Nat, m \in Nat : Chosen(tl, T, m) /\ c <= m /\ Agree(log[i], tl[T], c)
    BY <1>0, <1>1, <1>4 DEF CommitInv
  <2>2. PICK U \in Nat, k \in Nat : Chosen(tl, U, k) /\ d <= k /\ Agree(log[l], tl[U], d)
    BY <1>0, <1>1, <1>4 DEF CommitInv
  <2>3. tl[T] # <<>> /\ tl[U] # <<>>
    BY <2>1, <2>2 DEF Chosen, Has
  <2>4. ASSUME NEW x \in 1 .. n PROVE tl[T][x] = tl[U][x]
    <3>1. x \in 1 .. m /\ x \in 1 .. k
      BY <1>1, <2>1, <2>2
    <3>2. CASE T <= U
      BY <2>1, <2>3, <3>1, <3>2, ChosenChain
    <3>3. CASE U <= T
      BY <2>2, <2>3, <3>1, <3>3, ChosenChain
    <3>. QED  BY <3>2, <3>3
  <2>5. \A x \in 1 .. n : x \in 1 .. c /\ x \in 1 .. d
    BY <1>1
  <2>. QED  BY <1>2, <2>1, <2>2, <2>4, <2>5 DEF Agree
<1>. QED  BY <1>3, <1>4

LEMMA SameFollows ==
    ASSUME NEW x \in Node, Follows(x), log'[x] = log[x], commitIndex'[x] = commitIndex[x],
           config'[x] = config[x], admin'[x] = admin[x]
    PROVE  Follows(x)'
  BY DEF Follows, InOrder, Makes, Begun, LastNew, Announced, Chained, Undisturbed

\* What was reported done stays committed.
LEMMA FinishedStays ==
    ASSUME NEW tl, NEW tl2, MembershipInv(tl), StepFacts(tl, tl2), FinishedInv,
           \A x \in Node : commitIndex[x] <= commitIndex'[x],
           NEW f \in finished
    PROVE  (\E l \in Node : \E m \in 1 .. f.at : /\ f.at <= commitIndex[l]
                                                 /\ LastNew(log[l], m, f.at)
                                                 /\ log[l][m].new = f.conf)'
<1>0. TypeInv /\ TypeInv'
  BY DEF MembershipInv, StepFacts
<1>1. PICK n \in Nat : n = f.at
  BY <1>0 DEF TypeInv
<1>2. PICK l \in Node, m \in 1 .. n : /\ n <= commitIndex[l]
                                      /\ LastNew(log[l], m, n)
                                      /\ log[l][m].new = f.conf
  BY <1>1 DEF FinishedInv
<1>3. /\ commitIndex[l] \in Nat /\ commitIndex'[l] \in Nat
      /\ Agree(log[l], log'[l], commitIndex[l])
  BY <1>0, CommittedKept DEF TypeInv
<1>4. Agree(log[l], log'[l], n)
  BY <1>2, <1>3 DEF Agree
<1>5. LastNew(log'[l], m, n) /\ log'[l][m] = log[l][m] /\ n <= commitIndex'[l]
  BY <1>2, <1>3, <1>4, SameToThere
<1>. QED  BY <1>1, <1>2, <1>5 DEF LastNew

\* What handleAppendEntries does to the log and the commit position of node j.
LEMMA ReceivesIs ==
    ASSUME NEW tl, MembershipInv(tl), NEW i \in Node, NEW j \in Node,
           NEW p \in 0 .. MaxLog, p <= Len(log[i]), HandleAppendEntries(i, j, p)
    PROVE  /\ admin[j].stage = "idle" /\ UNCHANGED <<admin, restarts, finished>>
           /\ \E new \in {log[j], log[i]} :
                /\ log' = [log EXCEPT ![j] = new]
                /\ \/ /\ UNCHANGED <<commitIndex, config>>
                      /\ new = log[j] \/ commitIndex[i] <= commitIndex[j]
                   \/ /\ commitIndex[j] < commitIndex[i] /\ commitIndex[i] <= Len(new)
                      /\ ApplyUpTo(j, "Follower", new, commitIndex[i])
<1>0. /\ TypeInv /\ LedgerInv(tl) /\ LogsInv(tl)
      /\ admin[j].stage = "idle" /\ UNCHANGED <<admin, restarts, finished>>
  BY DEF MembershipInv, HandleAppendEntries, ServerFree
<1>1. PICK lg \in Seq(Entries), own \in Seq(Entries) : lg = log[i] /\ own = log[j]
  BY <1>0 DEF TypeInv
<1>2. PICK a \in Nat, ci \in Nat, cj \in Nat :
        a = Len(lg) /\ ci = commitIndex[i] /\ cj = commitIndex[j] /\ ci <= a
  BY <1>0, <1>1, SeqFacts DEF TypeInv
<1>3. PICK refused \in BOOLEAN, success \in BOOLEAN :
        /\ refused <=> i \notin Members(config[j]) \/ currentTerm[i] < currentTerm[j]
        /\ success <=> ~refused /\ Matches(own, lg, p)
  <2>1. (i \notin Members(config[j]) \/ currentTerm[i] < currentTerm[j]) \in BOOLEAN
    OBVIOUS
  <2>2. \A r \in BOOLEAN : (~r /\ Matches(own, lg, p)) \in BOOLEAN
    OBVIOUS
  <2>. QED  BY <2>1, <2>2
<1>4. CASE success
  <2>1. PICK new : new = Merge(own, lg, p)
    OBVIOUS
  <2>2. (new = own /\ Agree(own, lg, a)) \/ new = lg
    <3>1. p \in Nat /\ MaxLog \in Nat
      BY MembershipAssumption
    <3>2. Rooted(tl, own) /\ Rooted(tl, lg)
      BY <1>0, <1>1 DEF LogsInv
    <3>. QED  BY <1>0, <1>1, <1>2, <1>3, <1>4, <2>1, <3>1, <3>2, MergeIs
  <2>3. log' = [log EXCEPT ![j] = new]
    BY <1>1, <1>3, <1>4, <2>1 DEF HandleAppendEntries
  <2>4. CASE ci <= cj
    <3>1. UNCHANGED <<commitIndex, config>>
      BY <1>2, <2>4 DEF HandleAppendEntries
    <3>. QED  BY <1>0, <1>1, <1>2, <2>2, <2>3, <2>4, <3>1
  <2>5. CASE ci > cj
    <3>1. PICK b \in Nat : b = Len(new) /\ ci <= b
      BY <1>1, <1>2, <2>2, SeqFacts DEF Agree
    <3>2. Min({ci, b}) = ci
      BY <3>1, MinIs
    <3>3. ApplyUpTo(j, "Follower", new, Min({ci, b}))
      BY <1>1, <1>2, <1>3, <1>4, <2>1, <2>5, <3>1 DEF HandleAppendEntries
    <3>. QED  BY <1>0, <1>1, <1>2, <2>2, <2>3, <2>5, <3>1, <3>2, <3>3
  <2>. QED  BY <2>4, <2>5
<1>5. CASE ~success
  <2>1. log' = [log EXCEPT ![j] = @] /\ UNCHANGED <<commitIndex, config>>
    BY <1>1, <1>3, <1>5 DEF HandleAppendEntries
  <2>. QED  BY <1>0, <1>1, <2>1
<1>. QED  BY <1>4, <1>5

\* Entries are applied to a log that holds what was applied before.
LEMMA ApplyKeepsOrder ==
    ASSUME NEW tl, NEW tl2, MembershipInv(tl), StepFacts(tl, tl2), NEW j \in Node,
           NEW st \in Roles, NEW n \in Nat, commitIndex[j] <= n, n <= Len(log'[j]),
           ApplyUpTo(j, st, log'[j], n), Follows(j)
    PROVE  /\ Makes(log'[j], n, config'[j])
           /\ commitIndex'[j] = n
           /\ \A x \in Node : x # j => commitIndex'[x] = commitIndex[x] /\ config'[x] = config[x]
<1>0. TypeInv /\ TypeInv'
  BY DEF MembershipInv, StepFacts
<1>1. PICK c \in Nat, lg \in Seq(Entries) : c = commitIndex[j] /\ lg = log'[j]
  BY <1>0 DEF TypeInv
<1>2. Makes(log[j], c, config[j]) /\ Agree(log[j], lg, c) /\ config[j] \in Configs
  BY <1>0, <1>1, CommittedKept DEF Follows, InOrder, TypeInv
<1>3. Makes(lg, c, config[j])
  BY <1>2, SameToThere
<1>4. Makes(lg, n, config'[j])
  BY <1>0, <1>1, <1>3, ApplyingMakes
<1>5. /\ commitIndex'[j] = n
      /\ \A x \in Node : x # j => commitIndex'[x] = commitIndex[x] /\ config'[x] = config[x]
  BY <1>0 DEF ApplyUpTo, TypeInv
<1>. QED  BY <1>1, <1>4, <1>5

LEMMA ReceivesInOrder ==
    ASSUME NEW tl, MembershipInv(tl), NEW i \in Node, NEW j \in Node,
           NEW p \in 0 .. MaxLog, p <= Len(log[i]), HandleAppendEntries(i, j, p),
           \A x \in Node : Follows(x)
    PROVE  /\ \A x \in Node : Follows(x)' /\ commitIndex[x] <= commitIndex'[x]
           /\ finished' = finished
<1>0. TypeInv /\ TypeInv' /\ StepFacts(tl, tl)
  BY HandleAppendEntriesFacts DEF MembershipInv, StepFacts
<1>1. PICK new \in {log[j], log[i]} :
        /\ admin[j].stage = "idle" /\ UNCHANGED <<admin, restarts, finished>>
        /\ log' = [log EXCEPT ![j] = new]
        /\ \/ /\ UNCHANGED <<commitIndex, config>>
              /\ new = log[j] \/ commitIndex[i] <= commitIndex[j]
           \/ /\ commitIndex[j] < commitIndex[i] /\ commitIndex[i] <= Len(new)
              /\ ApplyUpTo(j, "Follower", new, commitIndex[i])
  BY ReceivesIs
<1>2. log'[j] = new /\ \A x \in Node : x # j => log'[x] = log[x]
  BY <1>0, <1>1 DEF TypeInv
<1>3. PICK ci \in Nat, cj \in Nat : ci = commitIndex[i] /\ cj = commitIndex[j]
  BY <1>0 DEF TypeInv
<1>4. \A x \in Node : commitIndex[x] \in Nat /\ commitIndex[x] <= commitIndex[x]
  BY <1>0 DEF TypeInv
<1>5. /\ Makes(new, commitIndex'[j], config'[j])
      /\ new = log[j] \/ ci <= commitIndex'[j]
      /\ cj <= commitIndex'[j] /\ commitIndex'[j] \in Nat
      /\ \A x \in Node : x # j => commitIndex'[x] = commitIndex[x] /\ config'[x] = config[x]
  <2>1. CASE /\ UNCHANGED <<commitIndex, config>>
             /\ new = log[j] \/ commitIndex[i] <= commitIndex[j]
    <3>1. Makes(log[j], cj, config[j]) /\ Agree(log[j], new, cj) /\ config[j] \in Configs
      BY <1>0, <1>2, <1>3, CommittedKept DEF Follows, InOrder, TypeInv
    <3>2. Makes(new, cj, config[j])
      BY <3>1, SameToThere
    <3>. QED  BY <1>3, <2>1, <3>2
  <2>2. CASE /\ commitIndex[j] < commitIndex[i] /\ commitIndex[i] <= Len(new)
             /\ ApplyUpTo(j, "Follower", new, commitIndex[i])
    <3>1. "Follower" \in Roles /\ cj <= ci
      BY <1>3, <2>2 DEF Roles
    <3>2. /\ Makes(log'[j], ci, config'[j])
          /\ commitIndex'[j] = ci
          /\ \A x \in Node : x # j => commitIndex'[x] = commitIndex[x] /\ config'[x] = config[x]
      BY <1>0, <1>2, <1>3, <2>2, <3>1, ApplyKeepsOrder
    <3>. QED  BY <1>2, <1>3, <3>1, <3>2
  <2>. QED  BY <1>1, <2>1, <2>2
<1>6. Announced(new, commitIndex'[j]) /\ Chained(new)
  <2>1. \A x \in Node : Announced(log[x], commitIndex[x]) /\ Chained(log[x])
    BY DEF Follows, InOrder
  <2>2. ASSUME NEW x \in Node PROVE DOMAIN log[x] \subseteq Nat
    <3>1. PICK s \in Seq(Entries) : s = log[x]
      BY <1>0 DEF TypeInv
    <3>2. DOMAIN s = 1 .. Len(s) /\ Len(s) \in Nat
      BY SeqFacts
    <3>. QED  BY <3>1, <3>2
  <2>3. CASE new = log[j]
    BY <1>3, <1>5, <2>1, <2>2, <2>3, AnnouncedLater
  <2>4. CASE new = log[i] /\ new # log[j]
    BY <1>3, <1>5, <2>1, <2>2, <2>4, AnnouncedLater
  <2>. QED  BY <2>3, <2>4
<1>7. Undisturbed(new, commitIndex'[j], admin'[j])
  BY <1>1 DEF Undisturbed
<1>8. Follows(j)'
  <2>1. InOrder(log'[j], commitIndex'[j], config'[j], admin'[j])
    BY <1>2, <1>5, <1>6, <1>7 DEF InOrder
  <2>. QED  BY <2>1 DEF Follows, InOrder, Makes, Begun, LastNew, Announced, Chained, Undisturbed
<1>9. \A x \in Node : x # j => Follows(x)'
  BY <1>1, <1>2, <1>5, SameFollows
<1>. QED  BY <1>1, <1>3, <1>4, <1>5, <1>8, <1>9

LEMMA UpdateInOrder ==
    ASSUME NEW tl, MembershipInv(tl), NEW i \in Node, UpdateCommitIndex(i),
           \A x \in Node : Follows(x)
    PROVE  /\ \A x \in Node : Follows(x)' /\ commitIndex[x] <= commitIndex'[x]
           /\ finished' = finished
<1>0. /\ TypeInv /\ TypeInv' /\ StepFacts(tl, tl)
      /\ UNCHANGED <<log, admin, finished>>
  BY UpdateCommitIndexFacts DEF MembershipInv, StepFacts, UpdateCommitIndex
<1>1. PICK c \in Nat : c = commitIndex[i]
  BY <1>0 DEF TypeInv
<1>2. PICK L \in Nat : L = Len(log[i]) /\ DOMAIN log[i] = 1 .. L
  BY <1>0, SeqFacts DEF TypeInv
<1>3. PICK n \in c + 1 .. L : ApplyUpTo(i, "Leader", log[i], n)
  <2>1. PICK ready : /\ ready = {n \in c + 1 .. L :
                                   log[i][n].term = currentTerm[i] /\ MajorityMatched(i, n)}
                     /\ ready # {}
                     /\ ApplyUpTo(i, "Leader", log[i], Max(ready))
    BY <1>1, <1>2 DEF UpdateCommitIndex
  <2>2. ready \in SUBSET Nat /\ \A n \in ready : n <= L
    BY <1>1, <1>2, <2>1
  <2>3. Max(ready) \in ready
    BY <1>2, <2>1, <2>2, MaxIs
  <2>. QED  BY <2>1, <2>3
<1>4. n \in Nat /\ c <= n /\ n <= Len(log'[i]) /\ "Leader" \in Roles
  BY <1>0, <1>1, <1>2 DEF Roles
<1>5. /\ Makes(log'[i], n, config'[i])
      /\ commitIndex'[i] = n
      /\ \A x \in Node : x # i => commitIndex'[x] = commitIndex[x] /\ config'[x] = config[x]
  BY <1>0, <1>1, <1>3, <1>4, ApplyKeepsOrder
<1>6. Announced(log[i], c) /\ Chained(log[i]) /\ Undisturbed(log[i], c, admin[i])
  BY <1>1 DEF Follows, InOrder
<1>7. Announced(log[i], n)
  BY <1>2, <1>4, <1>6, AnnouncedLater
<1>8. Undisturbed(log[i], n, admin[i])
  <2>1. \A k \in DOMAIN log[i] : k <= c => k <= n
    BY <1>2, <1>4
  <2>. QED  BY <1>6, <2>1 DEF Undisturbed
<1>9. Follows(i)'
  <2>1. InOrder(log'[i], commitIndex'[i], config'[i], admin'[i])
    BY <1>0, <1>5, <1>6, <1>7, <1>8 DEF InOrder
  <2>. QED  BY <2>1 DEF Follows, InOrder, Makes, Begun, LastNew, Announced, Chained, Undisturbed
<1>10. \A x \in Node : x # i => Follows(x)'
  BY <1>0, <1>5, SameFollows
<1>11. \A x \in Node : commitIndex[x] <= commitIndex'[x]
  <2>1. \A x \in Node : commitIndex[x] \in Nat /\ commitIndex[x] <= commitIndex[x]
    BY <1>0 DEF TypeInv
  <2>. QED  BY <1>1, <1>4, <1>5, <2>1
<1>. QED  BY <1>0, <1>9, <1>10, <1>11

LEMMA QuietInOrder ==
    ASSUME \A x \in Node : Follows(x), UNCHANGED <<log, commitIndex, config, admin>>
    PROVE  \A x \in Node : Follows(x)'
  BY SameFollows

\* An entry is appended at node i.
LEMMA AppendKeepsOrder ==
    ASSUME TypeInv, \A x \in Node : Follows(x), NEW i \in Node, NEW e \in Entries,
           AppendEntry(i, e), UNCHANGED <<commitIndex, config>>,
           \A x \in Node : x # i => admin'[x] = admin[x],
           \/ e.op = "PUT" /\ admin'[i].stage = "idle"
           \/ /\ e.op = "JOINT" /\ e.old = admin[i].old
              /\ admin[i].stage = "begun" /\ admin'[i].stage = "joint"
           \/ /\ e.op = "NEW" /\ e.new = admin'[i].new /\ config[i].phase = "JOINT"
              /\ admin[i].stage = "joint" /\ admin'[i].stage = "new"
    PROVE  \A x \in Node : Follows(x)'
<1>1. PICK s \in Seq(Entries), c \in Nat, conf \in Configs :
        s = log[i] /\ c = commitIndex[i] /\ conf = config[i] /\ c <= Len(s)
  BY DEF TypeInv
<1>2. InOrder(s, c, conf, admin[i])
  BY <1>1 DEF Follows
<1>3. InOrder(Append(s, e), c, conf, admin'[i])
  BY <1>1, <1>2, AppendInOrder
<1>4. log'[i] = Append(s, e) /\ \A x \in Node : x # i => log'[x] = log[x]
  BY <1>1 DEF AppendEntry, TypeInv
<1>5. Follows(i)'
  <2>1. InOrder(log'[i], commitIndex'[i], config'[i], admin'[i])
    BY <1>1, <1>3, <1>4
  <2>. QED  BY <2>1 DEF Follows, InOrder, Makes, Begun, LastNew, Announced, Chained, Undisturbed
<1>6. \A x \in Node : x # i => Follows(x)'
  BY <1>4, SameFollows
<1>. QED  BY <1>5, <1>6

LEMMA ClientPutInOrder ==
    ASSUME TypeInv, \A x \in Node : Follows(x), NEW i \in Node, ClientPut(i)
    PROVE  \A x \in Node : Follows(x)'
<1> DEFINE e == [NoEntry EXCEPT !.term = currentTerm[i], !.op = "PUT"]
<1>1. e \in Entries /\ e.op = "PUT"
  BY DEF NoEntry, Entries, TypeInv
<1>2. AppendEntry(i, e) /\ UNCHANGED <<commitIndex, config, admin>> /\ admin[i].stage = "idle"
  BY DEF ClientPut, ServerFree
<1> HIDE DEF e
<1>. QED  BY <1>1, <1>2, AppendKeepsOrder

LEMMA AppendConfigJointInOrder ==
    ASSUME TypeInv, \A x \in Node : Follows(x), NEW i \in Node, AppendConfigJoint(i)
    PROVE  \A x \in Node : Follows(x)'
<1> DEFINE e == [term |-> currentTerm[i], op |-> "JOINT",
                 old |-> admin[i].old, new |-> admin[i].new]
<1>1. admin[i].stage = "begun" /\ currentTerm[i] \in Nat
  BY DEF AppendConfigJoint, TypeInv
<1>2. e \in Entries /\ e.op = "JOINT" /\ e.old = admin[i].old
  BY <1>1, ChangeIs DEF Entries
<1>3. AppendEntry(i, e) /\ UNCHANGED <<commitIndex, config>>
  BY DEF AppendConfigJoint
<1>4. admin'[i].stage = "joint" /\ \A x \in Node : x # i => admin'[x] = admin[x]
  BY DEF AppendConfigJoint, SetAdmin, TypeInv, Changes
<1> HIDE DEF e
<1>. QED  BY <1>1, <1>2, <1>3, <1>4, AppendKeepsOrder

LEMMA AppendConfigNewInOrder ==
    ASSUME TypeInv, \A x \in Node : Follows(x), NEW i \in Node, AppendConfigNew(i)
    PROVE  \A x \in Node : Follows(x)'
<1> DEFINE e == [NoEntry EXCEPT !.term = currentTerm[i], !.op = "NEW", !.new = admin[i].new]
<1>1. admin[i].stage = "joint" /\ config[i].phase = "JOINT" /\ currentTerm[i] \in Nat
  BY DEF AppendConfigNew, TypeInv
<1>2. e \in Entries /\ e.op = "NEW" /\ e.new = admin[i].new
  BY <1>1, ChangeIs DEF NoEntry, Entries
<1>3. AppendEntry(i, e) /\ UNCHANGED <<commitIndex, config>>
  BY DEF AppendConfigNew
<1>4. /\ admin'[i].stage = "new" /\ admin'[i].new = admin[i].new
      /\ \A x \in Node : x # i => admin'[x] = admin[x]
  BY DEF AppendConfigNew, SetAdmin, TypeInv, Changes
<1> HIDE DEF e
<1>. QED  BY <1>1, <1>2, <1>3, <1>4, AppendKeepsOrder

\* The server thread of node i moves on without a new entry.
LEMMA AdminKeepsOrder ==
    ASSUME TypeInv, \A x \in Node : Follows(x), NEW i \in Node, NEW a, SetAdmin(i, a),
           UNCHANGED <<log, commitIndex, config>>,
           InOrder(log[i], commitIndex[i], config[i], a)
    PROVE  \A x \in Node : Follows(x)'
<1>1. admin'[i] = a /\ \A x \in Node : x # i => admin'[x] = admin[x]
  BY DEF SetAdmin, TypeInv
<1>2. Follows(i)'
  <2>1. InOrder(log'[i], commitIndex'[i], config'[i], admin'[i])
    BY <1>1
  <2>. QED  BY <2>1 DEF Follows, InOrder, Makes, Begun, LastNew, Announced, Chained, Undisturbed
<1>3. \A x \in Node : x # i => Follows(x)'
  BY <1>1, SameFollows
<1>. QED  BY <1>2, <1>3

LEMMA IdleInOrder ==
    ASSUME NEW i \in Node, Follows(i)
    PROVE  InOrder(log[i], commitIndex[i], config[i], NoChange)
  BY DEF Follows, InOrder, Undisturbed, NoChange

LEMMA BeginChangeInOrder ==
    ASSUME TypeInv, \A x \in Node : Follows(x), NEW i \in Node, NEW newConf,
           BeginChange(i, newConf)
    PROVE  \A x \in Node : Follows(x)'
<1> DEFINE a == [stage |-> "begun", old |-> config[i].current, new |-> newConf]
<1>1. SetAdmin(i, a) /\ UNCHANGED <<log, commitIndex, config>> /\ config[i].phase = "STABLE"
  BY DEF BeginChange, AcceptsChange, data
<1>2. a.stage = "begun" /\ a.old = config[i].current
  OBVIOUS
<1>3. /\ log[i] \in Seq(Entries) /\ commitIndex[i] \in Nat /\ commitIndex[i] <= Len(log[i])
      /\ InOrder(log[i], commitIndex[i], config[i], admin[i])
  BY DEF TypeInv, Follows
<1> HIDE DEF a
<1>4. InOrder(log[i], commitIndex[i], config[i], a)
  BY <1>1, <1>2, <1>3, BeginInOrder
<1>. QED  BY <1>1, <1>4, AdminKeepsOrder

\* What is reported done is the last CONFIG_NEW of the log, and committed.
LEMMA FinishChangeIsDone ==
    ASSUME TypeInv, NEW i \in Node, Follows(i), FinishChange(i)
    PROVE  \E m \in 1 .. commitIndex[i] :
              LastNew(log[i], m, commitIndex[i]) /\ log[i][m].new = admin[i].new
<1>1. /\ admin[i].stage = "new" /\ config[i].phase = "STABLE"
      /\ Makes(log[i], commitIndex[i], config[i]) /\ Announced(log[i], commitIndex[i])
      /\ Undisturbed(log[i], commitIndex[i], admin[i])
  BY DEF FinishChange, Follows, InOrder
<1>2. PICK s \in Seq(Entries), c \in Nat : s = log[i] /\ c = commitIndex[i] /\ c <= Len(s)
  BY DEF TypeInv
<1>3. PICK L \in Nat : L = Len(s) /\ DOMAIN s = 1 .. L
  BY SeqFacts
<1>4. PICK m \in 1 .. L : LastNew(s, m, L) /\ admin[i].new = s[m].new
  BY <1>1, <1>2, <1>3 DEF Undisturbed
<1>5. m <= c
  BY <1>1, <1>2, <1>3, <1>4, StableIsDone DEF LastNew
<1>6. m \in 1 .. c /\ \A k \in m + 1 .. c : k \in m + 1 .. L
  BY <1>2, <1>3, <1>5
<1>7. LastNew(s, m, c)
  BY <1>4, <1>6 DEF LastNew
<1>. QED  BY <1>2, <1>4, <1>6, <1>7

-----------------------------------------------------------------------------
(***************************************************************************)
(* Changes follow each other: the invariant holds.                         *)
(***************************************************************************)

LEMMA InitIsChained ==
    ASSUME MembershipInit
    PROVE  ChainInv
<1>1. /\ finished = {}
      /\ \A i \in Node : log[i] = <<>> /\ commitIndex[i] = 0 /\ admin[i] = NoChange
      /\ \A i \in Node : config[i].phase = "STABLE"
  BY DEF MembershipInit, Stable
<1>2. ASSUME NEW i \in Node PROVE Follows(i)
  <2>1. DOMAIN log[i] = {} /\ commitIndex[i] = 0 /\ 1 .. 0 = {}
    BY <1>1
  <2>2. Makes(log[i], commitIndex[i], config[i])
    BY <1>1, <2>1 DEF Makes, Begun
  <2>3. Announced(log[i], commitIndex[i]) /\ Chained(log[i])
    BY <2>1 DEF Announced, Chained
  <2>4. Undisturbed(log[i], commitIndex[i], admin[i])
    BY <1>1 DEF Undisturbed, NoChange
  <2>. QED  BY <2>2, <2>3, <2>4 DEF Follows, InOrder
<1>. QED  BY <1>1, <1>2 DEF ChainInv, FinishedInv

\* A step that takes back no commit position and reports no more than a change
\* that is done.
OrderKept ==
    /\ \A x \in Node : Follows(x)' /\ commitIndex[x] <= commitIndex'[x]
    /\ finished' = finished \/ \E i \in Node : FinishChange(i)

\* Only a restart is no such step.
LEMMA ChainStep ==
    ASSUME NEW tl, QuorumsMeet, MembershipInv(tl), [Next]_vars,
           \A x \in Node : Follows(x), NotRestarted'
    PROVE  OrderKept
<1>0. TypeInv
  BY DEF MembershipInv
<1>1. \A x \in Node : commitIndex[x] <= commitIndex[x]
  BY <1>0 DEF TypeInv
<1>2. ASSUME UNCHANGED <<log, commitIndex, config, admin, finished>> PROVE OrderKept
  BY <1>1, <1>2, QuietInOrder DEF OrderKept
<1>3. CASE UNCHANGED vars
  BY <1>2, <1>3 DEF vars, data
<1>4. ASSUME NEW i \in Node, StartElection(i) PROVE OrderKept
  BY <1>2, <1>4 DEF StartElection, data
<1>5. ASSUME NEW i \in Node, NEW j \in Node, HandleRequestVote(i, j) PROVE OrderKept
  BY <1>2, <1>5 DEF HandleRequestVote, data
<1>6. ASSUME NEW i \in Node, ReceiveVote(i) PROVE OrderKept
  BY <1>2, <1>6 DEF ReceiveVote
<1>7. ASSUME NEW i \in Node, NEW j \in Node, NEW p \in 0 .. MaxLog,
             p <= Len(log[i]), HandleAppendEntries(i, j, p)
      PROVE  OrderKept
  BY <1>7, ReceivesInOrder DEF OrderKept
<1>8. ASSUME NEW i \in Node, ReceiveAppend(i) PROVE OrderKept
  BY <1>2, <1>8 DEF ReceiveAppend
<1>9. ASSUME NEW i \in Node, UpdateCommitIndex(i) PROVE OrderKept
  BY <1>9, UpdateInOrder DEF OrderKept
<1>10. ASSUME NEW i \in Node, ClientPut(i) PROVE OrderKept
  <2>1. UNCHANGED <<commitIndex, finished>>
    BY <1>10 DEF ClientPut
  <2>. QED  BY <1>0, <1>1, <1>10, <2>1, ClientPutInOrder DEF OrderKept
<1>11. ASSUME NEW i \in Node, NEW newConf, BeginChange(i, newConf) PROVE OrderKept
  <2>1. UNCHANGED <<commitIndex, finished>>
    BY <1>11 DEF BeginChange, data
  <2>. QED  BY <1>0, <1>1, <1>11, <2>1, BeginChangeInOrder DEF OrderKept
<1>12. ASSUME NEW i \in Node, AppendConfigJoint(i) PROVE OrderKept
  <2>1. UNCHANGED <<commitIndex, finished>>
    BY <1>12 DEF AppendConfigJoint
  <2>. QED  BY <1>0, <1>1, <1>12, <2>1, AppendConfigJointInOrder DEF OrderKept
<1>13. ASSUME NEW i \in Node, AppendConfigNew(i) PROVE OrderKept
  <2>1. UNCHANGED <<commitIndex, finished>>
    BY <1>13 DEF AppendConfigNew
  <2>. QED  BY <1>0, <1>1, <1>13, <2>1, AppendConfigNewInOrder DEF OrderKept
<1>14. ASSUME NEW i \in Node, FinishChange(i) \/ AbandonChange(i) PROVE OrderKept
  <2>1. SetAdmin(i, NoChange) /\ UNCHANGED <<log, commitIndex, config>>
    BY <1>14 DEF FinishChange, AbandonChange, data
  <2>2. \A x \in Node : Follows(x)'
    BY <1>0, <2>1, IdleInOrder, AdminKeepsOrder
  <2>3. FinishChange(i) \/ finished' = finished
    BY <1>14 DEF AbandonChange
  <2>. QED  BY <1>1, <2>1, <2>2, <2>3 DEF OrderKept
<1>15. ASSUME NEW i \in Node, Restart(i) PROVE OrderKept
  <2>1. restarts'[i] = "done"
    BY <1>0, <1>15 DEF Restart, TypeInv
  <2>. QED  BY <2>1 DEF NotRestarted
<1>16. ASSUME NEW i \in Node, NEW n \in Node, AddNode(i, n) \/ RemoveNode(i, n) PROVE OrderKept
  BY <1>11, <1>16 DEF AddNode, RemoveNode
<1>. QED
  BY <1>3, <1>4, <1>5, <1>6, <1>7, <1>8, <1>9, <1>10, <1>12, <1>13, <1>14, <1>15, <1>16 DEF Next

\* A process that has been restarted stays so.
LEMMA RestartsStay ==
    ASSUME TypeInv, [Next]_vars, NotRestarted'
    PROVE  NotRestarted
<1>1. CASE UNCHANGED restarts
  BY <1>1 DEF NotRestarted
<1>2. ASSUME NEW i \in Node, Restart(i) PROVE FALSE
  <2>1. restarts'[i] = "done"
    BY <1>2 DEF Restart, TypeInv
  <2>. QED  BY <2>1 DEF NotRestarted
<1>3. ASSUME NEW i \in Node, StartElection(i) \/ ReceiveVote(i) \/ ReceiveAppend(i)
      PROVE  UNCHANGED restarts
  BY <1>3 DEF StartElection, ReceiveVote, ReceiveAppend
<1>4. ASSUME NEW i \in Node, NEW j \in Node, HandleRequestVote(i, j) PROVE UNCHANGED restarts
  BY <1>4 DEF HandleRequestVote
<1>5. ASSUME NEW i \in Node, NEW j \in Node, NEW p \in 0 .. MaxLog, HandleAppendEntries(i, j, p)
      PROVE  UNCHANGED restarts
  BY <1>5 DEF HandleAppendEntries
<1>6. ASSUME NEW i \in Node, UpdateCommitIndex(i) \/ ClientPut(i) PROVE UNCHANGED restarts
  BY <1>6 DEF UpdateCommitIndex, ClientPut
<1>7. ASSUME NEW i \in Node, NEW n \in Node, AddNode(i, n) \/ RemoveNode(i, n)
      PROVE  UNCHANGED restarts
  BY <1>7 DEF AddNode, RemoveNode, BeginChange
<1>8. ASSUME NEW i \in Node, \/ AppendConfigJoint(i) \/ AppendConfigNew(i)
                             \/ FinishChange(i) \/ AbandonChange(i)
      PROVE  UNCHANGED restarts
  BY <1>8 DEF AppendConfigJoint, AppendConfigNew, FinishChange, AbandonChange
<1>9. CASE UNCHANGED vars
  BY <1>1, <1>9 DEF vars
<1>. QED  BY <1>1, <1>2, <1>3, <1>4, <1>5, <1>6, <1>7, <1>8, <1>9 DEF Next

LEMMA NextIsChained ==
    ASSUME QuorumsMeet, MembershipSound, ChainInv, [Next]_vars
    PROVE  ChainInv'
<1>. SUFFICES ASSUME NotRestarted' PROVE (\A x \in Node : Follows(x)') /\ FinishedInv'
  BY DEF ChainInv
<1>1. PICK tl : MembershipInv(tl)
  BY DEF MembershipSound
<1>2. PICK tl2 : StepFacts(tl, tl2)
  BY <1>1, NextFacts
<1>3. TypeInv /\ TypeInv'
  BY <1>1, <1>2 DEF MembershipInv, StepFacts
<1>4. (\A x \in Node : Follows(x)) /\ FinishedInv
  BY <1>3, RestartsStay DEF ChainInv
<1>5. /\ \A x \in Node : Follows(x)' /\ commitIndex[x] <= commitIndex'[x]
      /\ \/ finished' = finished
         \/ \E i \in Node : FinishChange(i)
  BY <1>1, <1>4, ChainStep DEF OrderKept
<1>6. \A f \in finished :
         (\E l \in Node : \E m \in 1 .. f.at : /\ f.at <= commitIndex[l]
                                               /\ LastNew(log[l], m, f.at)
                                               /\ log[l][m].new = f.conf)'
  BY <1>1, <1>2, <1>4, <1>5, FinishedStays
<1>7. CASE finished' = finished
  BY <1>5, <1>6, <1>7 DEF FinishedInv
<1>8. ASSUME NEW i \in Node, FinishChange(i) PROVE FinishedInv'
  <2>1. PICK c : c = commitIndex[i]
    OBVIOUS
  <2>2. PICK m \in 1 .. c : LastNew(log[i], m, c) /\ log[i][m].new = admin[i].new
    BY <1>3, <1>4, <1>8, <2>1, FinishChangeIsDone
  <2>3. /\ UNCHANGED <<log, commitIndex>>
        /\ finished' = finished \cup {[conf |-> admin[i].new, at |-> c]}
    BY <1>8, <2>1 DEF FinishChange, data
  <2>4. c <= commitIndex'[i] /\ LastNew(log'[i], m, c) /\ log'[i][m].new = admin[i].new
    BY <1>3, <2>1, <2>2, <2>3 DEF TypeInv
  <2>5. \A f \in finished' : f \in finished \/ f = [conf |-> admin[i].new, at |-> c]
    BY <2>3
  <2>. QED  BY <1>6, <2>4, <2>5 DEF FinishedInv, LastNew
<1>. QED  BY <1>5, <1>7, <1>8

\* A change starts from the configuration the one before it has left, for as long
\* as no process has been restarted: waitConfigState, the only server thread and
\* the commit rule together keep what one addNode or removeNode was told is done
\* from being taken back by the next.
THEOREM ChangesAreChainedUntilRestart ==
    ASSUME QuorumsMeet
    PROVE  MembershipSpec => []ChainedUntilRestart
<1>1. MembershipInit => ChainInv
  BY InitIsChained
<1>2. MembershipSound /\ ChainInv /\ [Next]_vars => ChainInv'
  BY NextIsChained
<1>3. MembershipSound /\ ChainInv => ChainedUntilRestart
  <2>. SUFFICES ASSUME NEW tl, MembershipInv(tl), \A x \in Node : Follows(x), FinishedInv,
                       NEW f \in finished, NEW i \in Node, NEW n \in 1 .. commitIndex[i],
                       f.at < n, log[i][n].op = "JOINT",
                       \A k \in f.at + 1 .. n - 1 : log[i][k].op = "PUT"
                PROVE  log[i][n].old = f.conf
    BY DEF MembershipSound, ChainInv, NotRestarted, ChainedUntilRestart, ChangesAreChained
  <2>0. TypeInv
    BY DEF MembershipInv
  <2>1. PICK a \in Nat, c \in Nat : a = f.at /\ c = commitIndex[i] /\ c <= Len(log[i])
    BY <2>0 DEF TypeInv
  <2>2. PICK l \in Node, m \in 1 .. a : /\ a <= commitIndex[l]
                                        /\ LastNew(log[l], m, a)
                                        /\ log[l][m].new = f.conf
    BY <2>1 DEF FinishedInv
  <2>3. Agree(log[l], log[i], a)
    <3>1. a <= c
      BY <2>1
    <3>. QED  BY <2>1, <2>2, <3>1, CommittedAgree
  <2>4. LastNew(log[i], m, a) /\ log[i][m].new = f.conf
    BY <2>2, <2>3, SameToThere
  <2>5. m \in 1 .. n - 1 /\ \A k \in m + 1 .. n - 1 : k \in m + 1 .. a \/ k \in a + 1 .. n - 1
    BY <2>1
  <2>6. LastNew(log[i], m, n - 1)
    BY <2>1, <2>4, <2>5 DEF LastNew
  <2>7. n \in DOMAIN log[i] /\ Chained(log[i])
    BY <2>0, <2>1, SeqFacts DEF TypeInv, Follows, InOrder
  <2>. QED  BY <2>4, <2>5, <2>6, <2>7 DEF Chained
<1>. QED  BY <1>1, <1>2, <1>3, MembershipIsSound, PTL DEF MembershipSpec
=============================================================================
