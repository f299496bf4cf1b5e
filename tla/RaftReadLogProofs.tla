-------------------------- MODULE RaftReadLogProofs --------------------------
(***************************************************************************)
(* Proofs about the reads of RaftRead: linearizableGet returns nothing     *)
(* older than what any client had been told before.                        *)
(*                                                                         *)
(* The log keeps its invariant under the steps of a read as well.  A read  *)
(* then rests on one alternative, kept from its beginning to its end:      *)
(* what clients had seen is covered by the term the read leads, or a       *)
(* majority has left that term and will not confirm it (Overtaken).        *)
(***************************************************************************)
EXTENDS RaftReadProofs, RaftLogProofs

-----------------------------------------------------------------------------
(***************************************************************************)
(* The invariant of a read.                                                *)
(***************************************************************************)

ReadRecords == [stage : Stages, term : Nat, index : Nat, todo : SUBSET Node,
                acks : SUBSET Node, since : Nat]

ReadTypes == read \in [Node -> ReadRecords]

\* The stages in which the server thread is in no call.
Steady == {"check", "append", "index", "wait", "get"}

\* Before and after the read index is taken.
Preparing == {"check", "append", "noop", "index"}

Serving == {"confirm", "wait", "get"}

\* Where the server thread is while a read is at some stage.
PlaceOK(i) ==
    LET pc == job[i]["S"].pc IN
    /\ At(i, "none") => pc # "reading"
    /\ read[i].stage \in Steady => pc = "reading"
    /\ At(i, "noop") => pc \in Places \ {"idle"}
    /\ At(i, "confirm") => pc \in {"reading", "waiting", "answered"}

\* Whatever is being replicated for a client or for a read is in the log.
OperationOK(i) ==
    job[i]["S"].pc \notin {"idle", "reading"} /\ ~At(i, "confirm") => MineAt(i)

\* Somebody was elected in the term of a read.
TermOK(i) ==
    ~At(i, "none") => /\ read[i].term <= currentTerm[i]
                      /\ \E e \in elected : e.term = read[i].term

\* The answer of peer j to a heartbeat of the read confirms it.
Confirms(i, j) ==
    LET me == job[i]["S"]
    IN At(i, "confirm") /\ me.pc = "answered" /\ me.reply.success /\ me.peer = j

\* A majority has left the term of the read without having confirmed it.
Overtaken(i) ==
    \E Q \in SUBSET Node :
        /\ IsMajority(Q)
        /\ \A j \in Q : /\ currentTerm[j] > read[i].term
                        /\ j \notin read[i].acks
                        /\ ~Confirms(i, j)

\* What clients had seen when the read began is committed in its term or before.
Covered(i) ==
    \/ read[i].since = 0
    \/ \E x \in committed : x.in <= read[i].term /\ read[i].since <= x.entry.index

SinceOK(i) ==
    /\ read[i].stage \in Preparing => Covered(i) \/ Overtaken(i)
    /\ read[i].stage \in Serving => read[i].since <= read[i].index \/ Overtaken(i)

\* The last entry node i knows to be committed is of the term it is in.
TermIsCommitted(i) ==
    /\ commitIndex[i] \in DOMAIN disk[i].log
    /\ disk[i].log[commitIndex[i]].term = currentTerm[i]

\* What the sections passed so far have established.
StageOK(i) ==
    /\ At(i, "index") /\ StillLeads(i) => TermIsCommitted(i)
    /\ At(i, "confirm") /\ InCall(job[i]["S"]) =>
         job[i]["S"].req.kind = "AE" /\ job[i]["S"].req.term = read[i].term
    /\ read[i].stage \in {"wait", "get"} => Confirmed(i)
    /\ At(i, "get") => lastApplied[i] >= read[i].index

ReadOK(i) == PlaceOK(i) /\ OperationOK(i) /\ TermOK(i) /\ SinceOK(i) /\ StageOK(i)

\* Nobody was told of more than has been committed.
ToldInv ==
    \A r \in told : /\ r.since <= r.seen
                    /\ r.seen \in Nat
                    /\ r.seen = 0 \/ \E x \in committed : x.entry.index = r.seen

ReadLogInv == ReadTypes /\ ToldInv /\ \A i \in Node : ReadOK(i)

-----------------------------------------------------------------------------
(***************************************************************************)
(* A read that waits while others take a step.                             *)
(***************************************************************************)

\* The answer to a request comes from a node that has not left the request's term.
Answers(i) ==
    /\ job[i]["S"].pc = "waiting" /\ job'[i]["S"].pc = "answered"
    /\ job'[i]["S"].req = job[i]["S"].req /\ job'[i]["S"].peer = job[i]["S"].peer
    /\ job'[i]["S"].reply.success => job[i]["S"].req.term >= currentTerm[job[i]["S"].req.to]

\* What the server thread of a node may do without the read taking a step.
ServerMoves(i) ==
    \/ job'[i]["S"] = job[i]["S"]
    \/ At(i, "none") /\ job'[i]["S"].pc # "reading"
    \/ At(i, "noop") /\ job'[i]["S"].pc \in Places \ {"idle"}
    \/ At(i, "confirm") /\ Answers(i)

OperationKept(i) ==
    job'[i]["S"].pc # "idle" =>
        \/ /\ job[i]["S"].pc # "idle" /\ job'[i]["S"].mine = job[i]["S"].mine
           /\ disk'[i] = disk[i]
        \/ MineAt(i)'

LEMMA ReadFields ==
    ASSUME ReadTypes, NEW i \in Node
    PROVE  /\ read[i].stage \in Stages /\ read[i].term \in Nat /\ read[i].index \in Nat
           /\ read[i].todo \in SUBSET Node /\ read[i].acks \in SUBSET Node
           /\ read[i].since \in Nat
  BY DEF ReadTypes, ReadRecords

LEMMA PlaceKept ==
    ASSUME NEW i \in Node, read'[i] = read[i], ServerMoves(i), PlaceOK(i)
    PROVE  PlaceOK(i)'
  BY DEF PlaceOK, ServerMoves, Answers, At, Steady

LEMMA OperationStays ==
    ASSUME NEW i \in Node, read'[i] = read[i], ServerMoves(i), PlaceOK(i),
           OperationOK(i), OperationKept(i)
    PROVE  OperationOK(i)'
<1>1. job'[i]["S"].pc \notin {"idle", "reading"} /\ ~At(i, "confirm")
        => job[i]["S"].pc # "reading"
  BY DEF PlaceOK, ServerMoves, Places, At
<1>. QED  BY <1>1 DEF OperationOK, OperationKept, At, MineAt

LEMMA TermKept ==
    ASSUME Inv, ElectionStep, ReadTypes, NEW i \in Node, read'[i] = read[i], TermOK(i)
    PROVE  TermOK(i)'
<1>1. /\ elected \subseteq elected' /\ currentTerm'[i] >= currentTerm[i]
      /\ currentTerm[i] \in Nat /\ currentTerm'[i] \in Nat /\ read[i].term \in Nat
  BY Grows, ReadFields DEF Inv
<1>. QED  BY <1>1 DEF TermOK, At

\* Nobody confirms a term it has left.
LEMMA OvertakenKept ==
    ASSUME NEW tl, LogInv(tl), Inv, ElectionStep, ReadTypes, NEW i \in Node,
           read'[i] = read[i], ServerMoves(i), StageOK(i), Overtaken(i)
    PROVE  Overtaken(i)'
<1>1. PICK Q \in SUBSET Node :
        /\ IsMajority(Q)
        /\ \A j \in Q : /\ currentTerm[j] > read[i].term
                        /\ j \notin read[i].acks
                        /\ ~Confirms(i, j)
  BY DEF Overtaken
<1>2. ASSUME NEW j \in Q
      PROVE  /\ currentTerm'[j] > read[i].term
             /\ j \notin read[i].acks
             /\ ~Confirms(i, j)'
  <2>1. /\ currentTerm[j] \in Nat /\ currentTerm'[j] \in Nat /\ read[i].term \in Nat
        /\ currentTerm'[j] >= currentTerm[j]
    BY TermTypes, ReadFields
  <2>2. CASE Confirms(i, j)'
    <3>1. /\ At(i, "confirm") /\ job'[i]["S"].pc = "answered"
          /\ job'[i]["S"].reply.success /\ job'[i]["S"].peer = j
      BY <2>2 DEF Confirms, At
    <3>2. Answers(i)
      BY <1>1, <3>1 DEF ServerMoves, At, Confirms
    <3>3. InCall(job[i]["S"]) /\ "S" \in Threads
      BY <3>2 DEF Answers, InCall, Threads
    <3>4. job[i]["S"].req.to = j /\ job[i]["S"].req.term = read[i].term
      BY <3>1, <3>2, <3>3 DEF LogInv, MessageInv, Answers, StageOK
    <3>5. read[i].term >= currentTerm[j]
      BY <3>1, <3>2, <3>4 DEF Answers
    <3>. QED  BY <1>1, <2>1, <3>5
  <2>. QED  BY <1>1, <2>1, <2>2
<1>. QED  BY <1>1, <1>2 DEF Overtaken, IsMajority

LEMMA SinceKept ==
    ASSUME NEW tl, LogInv(tl), Inv, ElectionStep, ReadTypes, NEW i \in Node,
           read'[i] = read[i], ServerMoves(i), StageOK(i), SinceOK(i),
           committed \subseteq committed'
    PROVE  SinceOK(i)'
<1>1. Overtaken(i) => Overtaken(i)'
  BY OvertakenKept
<1>2. Covered(i) => Covered(i)'
  BY DEF Covered
<1>. QED  BY <1>1, <1>2 DEF SinceOK

\* A node that still leads the term of a read has led it all the time.
LEMMA LeadsAllTheTime ==
    ASSUME Inv, ElectionStep, ReadTypes, NEW i \in Node, read'[i] = read[i], TermOK(i),
           ~At(i, "none"), StillLeads(i)'
    PROVE  StillLeads(i) /\ currentTerm'[i] = currentTerm[i]
<1>1. state'[i] = "Leader" /\ currentTerm'[i] = read[i].term
  BY DEF StillLeads
<1>2. (state[i] = "Leader" /\ currentTerm'[i] = currentTerm[i]) \/ Wins(i)
  <2>1. StepFacts
    BY FactsNext DEF ElectionStep, Inv, ElectionInv
  <2>. QED  BY <1>1, <2>1 DEF StepFacts
<1>3. ~Wins(i)
  <2>1. Wins(i) => currentTerm'[i] = currentTerm[i]
    BY DEF Wins
  <2>2. PICK e \in elected : e.term = read[i].term
    BY DEF TermOK
  <2>. QED  BY <1>1, <2>1, <2>2, WinnerIsFirst DEF Inv
<1>. QED  BY <1>1, <1>2, <1>3 DEF StillLeads

\* The commit position of a running node.
LEMMA CommitPosition ==
    ASSUME NEW tl, NEW tl2, LogInv(tl), CommitFacts(tl2), NEW i \in Node, ~Crash(i)
    PROVE  /\ commitIndex'[i] >= commitIndex[i] /\ commitIndex[i] \in Nat
           /\ lastApplied'[i] >= lastApplied[i] /\ lastApplied[i] \in Nat
<1>1. commitIndex[i] \in Nat /\ lastApplied[i] = commitIndex[i]
  BY DEF LogInv, CommitIndexInv, IndexTypes
<1>. QED  BY <1>1 DEF CommitFacts

\* TermsRise, of the state a step leads to.
LEMMA TermsRiseNext ==
    ASSUME NEW tl, LedgerInv(tl)', NEW s \in Seq(Entries), Rooted(tl, s),
           NEW m \in DOMAIN s, NEW n \in DOMAIN s, m <= n
    PROVE  s[m].term <= s[n].term
<1>1. /\ s[n].term \in Nat /\ m \in Nat /\ n \in Nat /\ m >= 1
      /\ Agree(tl[s[n].term], s, n)
  BY LogType DEF Rooted
<1>2. tl[s[n].term] \in Seq(Entries)
  BY <1>1 DEF LedgerInv, Ledgers
<1>3. m \in DOMAIN tl[s[n].term] /\ tl[s[n].term][m] = s[m]
  BY <1>1, <1>2, LogType DEF Agree
<1>. QED  BY <1>1, <1>3 DEF LedgerInv

\* Entries of older terms do not come after one of the current term.
LEMMA TermStaysCommitted ==
    ASSUME NEW tl, NEW tl2, LogInv(tl), LogInv(tl2)', LogFacts(tl, tl2), Inv, ElectionStep,
           NEW i \in Node, currentTerm'[i] = currentTerm[i], TermIsCommitted(i),
           commitIndex'[i] >= commitIndex[i]
    PROVE  TermIsCommitted(i)'
<1>. PICK c \in Nat, c2 \in Nat : c = commitIndex[i] /\ c2 = commitIndex'[i]
  BY DEF LogInv, IndexTypes
<1>1. /\ c \in DOMAIN disk[i].log /\ disk[i].log[c].term = currentTerm[i]
      /\ DOMAIN disk[i].log = 1 .. Len(disk[i].log) /\ Len(disk[i].log) \in Nat
  BY DiskTypes DEF TermIsCommitted, LogInv
<1>2. /\ KnowsCommitted(i, c) /\ c2 \in 0 .. Len(disk'[i].log)
  BY DEF LogInv, CommitIndexInv, KnowsCommitted
<1>3. Agree(disk[i].log, disk'[i].log, c)
  BY <1>2, CommittedKept DEF LogInv
<1>4. /\ disk'[i].log \in Seq(Entries) /\ Rooted(tl2, disk'[i].log)
      /\ Len(disk'[i].log) \in Nat /\ DOMAIN disk'[i].log = 1 .. Len(disk'[i].log)
      /\ \A n \in DOMAIN disk'[i].log : disk'[i].log[n].term <= currentTerm[i]
      /\ LedgerInv(tl2)'
  BY DiskFacts DEF LogInv, DiskInv
<1>5. c \in DOMAIN disk'[i].log /\ c2 \in DOMAIN disk'[i].log /\ c <= c2
  BY <1>1, <1>2, <1>3, <1>4 DEF Agree
<1>6. disk'[i].log[c].term = currentTerm[i]
  BY <1>1, <1>3 DEF Agree
<1>7. disk'[i].log[c].term <= disk'[i].log[c2].term
  BY <1>4, <1>5, TermsRiseNext
<1>8. disk'[i].log[c2].term \in Nat /\ currentTerm[i] \in Nat
  BY <1>4, <1>5, LogType, TermTypes
<1>. QED  BY <1>4, <1>5, <1>6, <1>7, <1>8 DEF TermIsCommitted

LEMMA StageKept ==
    ASSUME NEW tl, NEW tl2, LogInv(tl), LogInv(tl2)', LogFacts(tl, tl2), CommitFacts(tl2),
           Inv, ElectionStep, ReadTypes, NEW i \in Node,
           read'[i] = read[i], ServerMoves(i), PlaceOK(i), TermOK(i), StageOK(i)
    PROVE  StageOK(i)'
<1>1. ~At(i, "none") => ~Crash(i)
  <2>. SUFFICES ASSUME ~At(i, "none"), Crash(i) PROVE FALSE
    OBVIOUS
  <2>1. job'[i]["S"].pc = "idle"
    BY DEF Crash, Inv, RpcInv, JobsInv, IdleJob, Threads
  <2>2. read[i].stage \in Steady \cup {"noop", "confirm"}
    BY ReadFields DEF Stages, Steady, At
  <2>. QED  BY <2>1, <2>2 DEF ServerMoves, Answers, PlaceOK, At
<1>2. ASSUME At(i, "index"), StillLeads(i)'
      PROVE  TermIsCommitted(i)'
  <2>1. ~At(i, "none") /\ ~Crash(i)
    BY <1>1, <1>2 DEF At
  <2>2. StillLeads(i) /\ currentTerm'[i] = currentTerm[i]
    BY <1>2, <2>1, LeadsAllTheTime
  <2>3. TermIsCommitted(i)
    BY <1>2, <2>2 DEF StageOK
  <2>. QED  BY <2>1, <2>2, <2>3, CommitPosition, TermStaysCommitted
<1>3. ASSUME At(i, "confirm"), InCall(job'[i]["S"])
      PROVE  job'[i]["S"].req.kind = "AE" /\ job'[i]["S"].req.term = read[i].term
  BY <1>3 DEF StageOK, ServerMoves, Answers, InCall, At
<1>4. ASSUME At(i, "get")
      PROVE  lastApplied'[i] >= read[i].index
  <2>1. ~Crash(i)
    BY <1>1, <1>4 DEF At
  <2>2. /\ lastApplied'[i] >= lastApplied[i] /\ lastApplied[i] \in Nat
        /\ lastApplied'[i] \in Nat /\ read[i].index \in Nat
    BY <2>1, CommitPosition, ReadFields DEF LogInv, IndexTypes
  <2>. QED  BY <1>4, <2>2 DEF StageOK
<1>5. read[i].stage \in {"wait", "get"} => Confirmed(i)'
  BY DEF StageOK, Confirmed, IsMajority
<1>. QED  BY <1>2, <1>3, <1>4, <1>5 DEF StageOK, At

LEMMA ReadKept ==
    ASSUME NEW tl, NEW tl2, LogInv(tl), LogInv(tl2)', LogChange(tl, tl2),
           Inv, ElectionStep, ReadTypes, NEW i \in Node,
           read'[i] = read[i], ServerMoves(i), OperationKept(i), ReadOK(i)
    PROVE  ReadOK(i)'
<1>1. LogFacts(tl, tl2) /\ CommitFacts(tl2) /\ committed \subseteq committed'
  BY DEF LogChange, CommitFacts
<1>. QED
  BY <1>1, PlaceKept, OperationStays, TermKept, SinceKept, StageKept DEF ReadOK

-----------------------------------------------------------------------------
(***************************************************************************)
(* Steps of RaftReplication while reads are under way.                     *)
(***************************************************************************)

\* A step of a thread of node i, or of none, is no step of another server thread.
LEMMA OthersDoNotMove ==
    ASSUME Inv, NEW i \in Node, NEW t \in Threads, NEW j, SetJob(i, t, j), NEW k \in Node,
           k # i \/ t # "S"
    PROVE  job'[k]["S"] = job[k]["S"]
<1>1. "S" \in Threads
  BY DEF Threads
<1>. QED  BY <1>1, JobAfter DEF Inv, RpcInv

\* Outside a call of a read the server thread replicates for a write or for a no-op.
LEMMA ReplicatingStage ==
    ASSUME ReadTypes, NEW i \in Node, PlaceOK(i), ~At(i, "confirm"),
           job[i]["S"].pc \notin {"idle", "reading"}
    PROVE  At(i, "none") \/ At(i, "noop")
<1>1. read[i].stage \in Stages
  BY ReadFields
<1>. QED  BY <1>1 DEF PlaceOK, Stages, Steady, At

LEMMA SenderMoves ==
    ASSUME Inv, ReadTypes, NEW i \in Node, NEW t \in Threads, t = "H" \/ ~At(i, "confirm"),
           \/ CheckPeer(i, t)
           \/ SendRequest(i, t)
           \/ RequestFails(i, t)
           \/ ReceiveReply(i, t)
           \/ EndRound(i, t),
           NEW k \in Node, PlaceOK(k)
    PROVE  ServerMoves(k)
<1> DEFINE me == job[i][t]
           new == job'[i][t]
<1>1. /\ me.pc \notin {"idle", "reading"}
      /\ \E j : SetJob(i, t, j)
      /\ t = "S" => new.pc \in Places \ {"idle"}
  <2>1. DOMAIN me = DOMAIN IdleJob
    BY DEF Inv, RpcInv, JobsInv
  <2>2. ASSUME NEW j, SetJob(i, t, j)
        PROVE  new = j
    BY <2>2, JobAfter DEF Inv, RpcInv
  <2>3. CASE NextPeer(i, t)
    <3> DEFINE j == [IdleJob EXCEPT !.pc = "next", !.todo = me.todo, !.mine = me.mine]
    <3>1. SetJob(i, t, j)
      BY <2>3 DEF NextPeer
    <3>2. j.pc = "next"
      BY DEF IdleJob
    <3> HIDE DEF j
    <3>3. me.pc \notin {"idle", "reading"}
      BY DEF SendRequest, RequestFails, ReceiveReply, CheckPeer, EndRound
    <3>. QED  BY <2>2, <3>1, <3>2, <3>3 DEF Places
  <2>4. CASE CheckPeer(i, t)
    <3>1. \E j : SetJob(i, t, j) /\ j.pc \in {"next", "send"} /\ me.pc = "next"
      BY <2>1, <2>4 DEF CheckPeer, IdleJob
    <3>. QED  BY <2>2, <3>1 DEF Places
  <2>5. CASE SendRequest(i, t) /\ ~NextPeer(i, t)
    <3>1. \E j : SetJob(i, t, j) /\ j.pc = "waiting" /\ me.pc = "send"
      BY <2>1, <2>5 DEF SendRequest, IdleJob
    <3>. QED  BY <2>2, <3>1 DEF Places
  <2>6. CASE EndRound(i, t)
    <3>1. \E j : SetJob(i, t, j) /\ (t = "S" => j.pc = "result") /\ me.pc = "next"
      BY <2>1, <2>6 DEF EndRound, IdleJob
    <3>. QED  BY <2>2, <3>1 DEF Places
  <2>7. RequestFails(i, t) \/ ReceiveReply(i, t) => NextPeer(i, t)
    BY DEF RequestFails, ReceiveReply
  <2>. QED  BY <2>3, <2>4, <2>5, <2>6, <2>7
<1>2. CASE k # i \/ t # "S"
  BY <1>1, <1>2, OthersDoNotMove DEF ServerMoves
<1>3. CASE k = i /\ t = "S"
  <2>1. At(i, "none") \/ At(i, "noop")
    BY <1>1, <1>3, ReplicatingStage
  <2>. QED  BY <1>1, <1>3, <2>1 DEF ServerMoves, Places
<1>. QED  BY <1>2, <1>3

LEMMA HandleMoves ==
    ASSUME Inv, ReadTypes, NEW i \in Node, NEW t \in Threads, HandleRequest(i, t),
           NEW tl, LogInv(tl), NEW k \in Node, PlaceOK(k)
    PROVE  ServerMoves(k)
<1> DEFINE me == job[i][t]
           new == [me EXCEPT !.pc = "answered", !.reply = ReplyTo(me.req)]
<1>1. SetJob(i, t, new) /\ me.pc = "waiting" /\ Handle(me.req)
  BY DEF HandleRequest
<1>2. CASE k # i \/ t # "S"
  BY <1>1, <1>2, OthersDoNotMove DEF ServerMoves
<1>3. CASE k = i /\ t = "S"
  <2>1. DOMAIN me = DOMAIN IdleJob
    BY DEF Inv, RpcInv, JobsInv
  <2>2. /\ new.pc = "answered" /\ new.req = me.req /\ new.peer = me.peer
        /\ new.reply = ReplyTo(me.req)
    BY <2>1 DEF IdleJob
  <2> HIDE DEF new
  <2>3. job'[i][t] = new
    BY <1>1, JobAfter DEF Inv, RpcInv
  <2>4. ReplyTo(me.req).success => me.req.term >= currentTerm[me.req.to]
    <3>1. /\ me.req.to \in Node /\ \E e \in elected : e.term = me.req.term
      BY <1>1 DEF Inv, RpcInv, RequestsInv, NamesLeader
    <3>2. currentTerm[me.req.to] \in Nat /\ me.req.term \in Nat
      BY <3>1, ElectedTypes DEF Inv, ElectionInv, ElectionTypeOK
    <3>3. ReplyTo(me.req).success => ~Stale(me.req)
      <4>1. \A m : ReplyTo(m).success => ~Stale(m)
        BY DEF ReplyTo
      <4>. QED  BY <4>1
    <3>. QED  BY <3>2, <3>3 DEF Stale
  <2>5. CASE At(i, "confirm")
    BY <1>1, <1>3, <2>2, <2>3, <2>4, <2>5 DEF ServerMoves, Answers
  <2>6. CASE ~At(i, "confirm")
    <3>1. At(i, "none") \/ At(i, "noop")
      BY <1>1, <1>3, <2>6, ReplicatingStage
    <3>. QED  BY <1>3, <2>2, <2>3, <3>1 DEF ServerMoves, Places
  <2>. QED  BY <2>5, <2>6
<1>. QED  BY <1>2, <1>3

LEMMA ReplicationMoves ==
    ASSUME Inv, ReadTypes, ReplicationStep, NEW tl, LogInv(tl), NEW k \in Node, PlaceOK(k)
    PROVE  ServerMoves(k)
<1>1. CASE job' = job
  BY <1>1 DEF ServerMoves
<1>2. ASSUME NEW i \in Node, BeginHeartbeat(i)
      PROVE  ServerMoves(k)
  <2>1. \E j : SetJob(i, "H", j)
    BY <1>2 DEF BeginHeartbeat
  <2>. QED  BY <2>1, OthersDoNotMove DEF ServerMoves, Threads
<1>3. ASSUME NEW i \in Node, ClientAppend(i)
      PROVE  ServerMoves(k)
  <2>1. \E j : SetJob(i, "S", j) /\ j.pc = "next" /\ job[i]["S"].pc = "idle"
    BY <1>3 DEF ClientAppend, JobIdle, IdleJob
  <2>2. PICK j : SetJob(i, "S", j) /\ j.pc = "next"
    BY <2>1
  <2>3. job'[i]["S"] = j
    BY <2>2, JobAfter DEF Inv, RpcInv, Threads
  <2>4. CASE k = i
    <3>1. At(i, "none")
      <4>1. read[i].stage \in Stages
        BY ReadFields
      <4>. QED  BY <2>1, <2>4, <4>1 DEF PlaceOK, Stages, Steady, At, Places
    <3>. QED  BY <2>2, <2>3, <2>4, <3>1 DEF ServerMoves
  <2>5. CASE k # i
    BY <2>2, <2>5, OthersDoNotMove DEF ServerMoves, Threads
  <2>. QED  BY <2>4, <2>5
<1>4. ASSUME NEW i \in Node, At(i, "none"), ClientResult(i)
      PROVE  ServerMoves(k)
  <2>1. SetJob(i, "S", IdleJob) /\ IdleJob.pc = "idle"
    BY <1>4 DEF ClientResult, IdleJob
  <2>2. job'[i]["S"] = IdleJob
    BY <2>1, JobAfter DEF Inv, RpcInv, Threads
  <2>3. CASE k = i
    BY <1>4, <2>1, <2>2, <2>3 DEF ServerMoves
  <2>4. CASE k # i
    BY <2>1, <2>4, OthersDoNotMove DEF ServerMoves, Threads
  <2>. QED  BY <2>3, <2>4
<1>5. ASSUME NEW i \in Node,
             Campaign(i) \/ AskVote(i) \/ LoseVoteCall(i) \/ CountVote(i) \/ Vote(i)
      PROVE  job' = job
  BY <1>5 DEF Campaign, AskVote, LoseVoteCall, CountVote, Vote, logVars
<1>6. \A m : VoteLate(m) \/ HandleLate(m) => job' = job
  BY DEF VoteLate, HandleLate, logVars
<1>. QED
  BY <1>1, <1>2, <1>3, <1>4, <1>5, <1>6, SenderMoves, HandleMoves DEF ReplicationStep

\* Steps of the log and of the election, crashes included.
LEMMA LogStepOfReads ==
    ASSUME NoCompaction, Inv, ReadTypes, NEW tl, LogInv(tl), [Next]_vars, AppendsFromStart',
           \A i \in Node : PlaceOK(i) /\ OperationOK(i)
    PROVE  \E tl2 : /\ LogInv(tl2)' /\ LogChange(tl, tl2)
                    /\ \A i \in Node : OperationKept(i)
<1>1. ElectionStep
  BY NextIsElectionStep
<1>2. \A i \in Node : ClientResult(i) => MineAt(i)
  BY DEF ClientResult, OperationOK, PlaceOK
<1>3. PICK tl2 : LogChange(tl, tl2) /\ WorkFacts
  BY <1>1, <1>2, NextFactsHold DEF LogStep
<1>4. LogInv(tl2)'
  BY <1>1, <1>3, LogInvStep
<1>. QED  BY <1>3, <1>4 DEF WorkFacts, OperationKept

-----------------------------------------------------------------------------
(***************************************************************************)
(* What the steps of a read do to the log.                                 *)
(***************************************************************************)

\* Nobody becomes leader or candidate, and nothing of the log changes but requests.
LEMMA ServerChange ==
    ASSUME NEW tl, LogInv(tl), Inv, ElectionStep, NEW i \in Node,
           UNCHANGED electionVars \/ \E term : LearnTerm(i, term),
           UNCHANGED <<disk, commitIndex, lastApplied, nextIndex, matchIndex,
                       committed, applied, acked>>,
           AcceptFacts(tl), MessageFacts(tl), JobTypes'
    PROVE  LogChange(tl, tl)
<1>1. /\ NobodyWins /\ UNCHANGED <<round, call>>
      /\ \A c \in Node : state'[c] = "Candidate" =>
           state[c] = "Candidate" /\ currentTerm'[c] = currentTerm[c]
  BY DEF LearnTerm, BecomeFollower, electionVars, NobodyWins, Inv, ElectionInv,
     ElectionTypeOK
<1>2. VoteFacts
  BY <1>1, VotesSame
<1>3. IndexTypes /\ IndexTypes'
  BY DEF LogInv, IndexTypes
<1>4. PeerFacts /\ NextFacts
  BY <1>1, <1>3, PeersSame
<1>. QED  BY <1>1, <1>2, <1>3, <1>4, QuietChange

\* The server thread is left without a call, as after every step but two of a read.
LEMMA NoCallChange ==
    ASSUME NEW tl, LogInv(tl), Inv, ElectionStep, NEW i \in Node,
           UNCHANGED electionVars \/ \E term : LearnTerm(i, term),
           UNCHANGED <<disk, commitIndex, lastApplied, nextIndex, matchIndex,
                       committed, applied, acked>>,
           \/ job' = job
           \/ SetJob(i, "S", IdleJob)
           \/ SetJob(i, "S", BusyReading),
           \A m \in late' : m \in late \/ (InCall(job[i]["S"]) /\ m = job[i]["S"].req)
    PROVE  LogChange(tl, tl)
<1>1. JobTypes /\ "S" \in Threads
  BY DEF LogInv, Threads
<1>2. CASE job' = job
  BY <1>1, <1>2, ServerChange DEF AcceptFacts, MessageFacts, JobTypes
<1>3. ASSUME NEW j, SetJob(i, "S", j), j \in {IdleJob, BusyReading}
      PROVE  LogChange(tl, tl)
  <2>1. j.pc \in {"idle", "reading"} /\ j.mine \in Entries
    BY <1>3, IdleJobFacts DEF BusyReading, IdleJob
  <2>2. ~InCall(j) /\ \A q, T, n : ~AcceptedUpTo(j, q, T, n)
    BY <2>1 DEF InCall, AcceptedUpTo
  <2>3. AcceptFacts(tl) /\ MessageFacts(tl) /\ JobTypes'
    BY <1>1, <1>3, <2>1, <2>2, AnyJobStep
  <2>. QED  BY <2>3, ServerChange
<1>. QED  BY <1>2, <1>3

\* An empty AppendEntries is a piece of the leader's log as well.
LEMMA EmptyAppendOK ==
    ASSUME NEW tl, LogInv(tl), Inv, NEW i \in Node, state[i] = "Leader", NEW j
    PROVE  AppendOK(tl, EmptyAppend(i, j))
<1> DEFINE m == EmptyAppend(i, j)
           d == disk[i]
           T == currentTerm[i]
<1>1. /\ d \in Disks /\ d.log \in Seq(Entries) /\ Rooted(tl, d.log)
      /\ Len(d.log) \in Nat /\ d.log = tl[T]
  BY DiskTypes DEF LogInv, DiskInv
<1>2. /\ m.kind = "AE" /\ m.prevIndex = LastLogIndex(d) /\ m.term = T
      /\ m.prevTerm = LastLogTerm(d) /\ m.entries = <<>> /\ m.commit = commitIndex[i]
  BY DEF EmptyAppend
<1>3. /\ LastLogIndex(d) = Len(d.log)
      /\ d.log # <<>> => LastLogTerm(d) = d.log[Len(d.log)].term
  BY <1>1, LastFacts
<1>4. <<>> \in Seq(Entries) /\ Len(<<>>) = 0 /\ DOMAIN <<>> = {}
  BY EmptySeq, LenProperties
<1> HIDE DEF m
<1>5. Sent(m) = Len(d.log) /\ DOMAIN m.entries = {}
  BY <1>1, <1>2, <1>3, <1>4 DEF Sent
<1>6. m.prevIndex # 0 => m.prevTerm = tl[T][m.prevIndex].term
  BY <1>1, <1>2, <1>3, EmptySeq
<1>7. /\ m.commit \in 0 .. Sent(m)
      /\ \A n \in 1 .. m.commit : Committed(tl[T][n], T)
  BY <1>1, <1>2, <1>5 DEF LogInv, CommitIndexInv, KnowsCommitted
<1>8. AppendOK(tl, m)
  BY <1>1, <1>2, <1>3, <1>4, <1>5, <1>6, <1>7 DEF AppendOK
<1>. QED  BY <1>8 DEF m

\* The job of a heartbeat that goes out.
Beating(j, m) == [BusyReading EXCEPT !.pc = "waiting", !.peer = j, !.req = m]

LEMMA BeatingJob ==
    ASSUME NEW j, NEW m
    PROVE  /\ Beating(j, m).pc = "waiting"
           /\ Beating(j, m).peer = j /\ Beating(j, m).req = m
           /\ Beating(j, m).mine \in Entries /\ InCall(Beating(j, m))
           /\ \A q, T, n : ~AcceptedUpTo(Beating(j, m), q, T, n)
<1>1. /\ Beating(j, m).pc = "waiting" /\ Beating(j, m).mine \in Entries
      /\ Beating(j, m).peer = j /\ Beating(j, m).req = m
  BY IdleJobFacts DEF Beating, BusyReading, IdleJob
<1>. QED  BY <1>1 DEF InCall, AcceptedUpTo

LEMMA SendHeartbeatChange ==
    ASSUME NEW tl, LogInv(tl), Inv, ReadersInv, ElectionStep, NEW i \in Node,
           SendHeartbeat(i)
    PROVE  LogChange(tl, tl)
<1> DEFINE j == FirstPeer(read[i].todo)
<1>1. /\ UNCHANGED electionVars
      /\ UNCHANGED <<disk, commitIndex, lastApplied, nextIndex, matchIndex, late,
                     committed, applied, acked>>
  BY DEF SendHeartbeat, ReadOnly, Fails
<1>2. CASE Fails(i)
  BY <1>1, <1>2, NoCallChange DEF Fails
<1>3. CASE StillLeads(i) /\ ~Fails(i)
  <2>1. PICK m : m = EmptyAppend(i, j)
    OBVIOUS
  <2>2. SetJob(i, "S", Beating(j, m))
    BY <1>3, <2>1 DEF SendHeartbeat, Beating
  <2>3. j \in Node \ {i}
    BY FirstPeerIsMember DEF SendHeartbeat, ReadersInv
  <2>4. m.from = i /\ m.to = j /\ m.term = currentTerm[i] /\ NamesLeader(m)
    <3>1. m.from = i /\ m.to = j /\ m.term = currentTerm[i]
      BY <2>1 DEF EmptyAppend
    <3>. QED  BY <1>3, <2>3, <3>1, LeaderNamesItself DEF Inv, StillLeads
  <2>5. RequestOK(tl, m)
    BY <1>3, <2>1, EmptyAppendOK DEF StillLeads, RequestOK
  <2>6. AcceptFacts(tl) /\ MessageFacts(tl) /\ JobTypes'
    <3>1. JobTypes /\ "S" \in Threads
      BY DEF LogInv, Threads
    <3>2. PICK new : SetJob(i, "S", new) /\ new.req = m /\ new.peer = m.to
                       /\ new.mine \in Entries
                       /\ \A q, T, n : ~AcceptedUpTo(new, q, T, n)
      BY <2>2, <2>4, BeatingJob
    <3>. QED  BY <1>1, <2>2, <2>4, <2>5, <3>1, <3>2, AnyJobStep
  <2>. QED  BY <1>1, <2>6, ServerChange
<1>. QED  BY <1>2, <1>3 DEF SendHeartbeat

LEMMA AppendNoopChange ==
    ASSUME NEW tl, LogInv(tl), Inv, ElectionStep, NEW i \in Node, AppendNoop(i)
    PROVE  /\ \E tl2 : LogChange(tl, tl2)
           /\ \/ Fails(i)
              \/ /\ job'[i]["S"].pc = "next" /\ MineAt(i)' /\ GoTo(i, "noop")
                 /\ UNCHANGED told
<1> DEFINE j(e) == [IdleJob EXCEPT !.pc = "next", !.todo = PeersOf(i), !.mine = e]
<1>1. /\ UNCHANGED electionVars /\ late' = late
      /\ UNCHANGED <<commitIndex, lastApplied, nextIndex, matchIndex, committed, applied,
                     acked>>
  BY DEF AppendNoop, Fails
<1>2. CASE Fails(i) /\ disk' = disk
  BY <1>1, <1>2, NoCallChange DEF Fails
<1>3. CASE ~(Fails(i) /\ disk' = disk)
  <2>1. LastLogIndex(disk[i]) \in Nat /\ currentTerm[i] \in Nat
    <3>1. disk[i] \in Disks /\ Rooted(tl, disk[i].log) /\ Len(disk[i].log) \in Nat
      BY DiskTypes DEF LogInv
    <3>2. LastLogIndex(disk[i]) \in Nat
      BY <3>1, LastFacts
    <3>. QED  BY <3>2 DEF Inv, ElectionInv, ElectionTypeOK
  <2>2. PICK e \in Entries :
          /\ e.index = LastLogIndex(disk[i]) + 1 /\ e.term = currentTerm[i]
          /\ e.index <= MaxLog /\ disk' = [disk EXCEPT ![i].log = Append(@, e)]
          /\ SetJob(i, "S", j(e))
    <3>1. [index |-> LastLogIndex(disk[i]) + 1, term |-> currentTerm[i]] \in Entries
      BY <2>1 DEF Entries
    <3>. QED  BY <1>3, <3>1 DEF AppendNoop
  <2>3. state[i] = "Leader" /\ GoTo(i, "noop") /\ UNCHANGED told
    BY <1>3 DEF AppendNoop
  <2>4. NobodyWins /\ VoteFacts
    BY <1>1, VotesSame DEF NobodyWins, electionVars
  <2>5. IndexTypes /\ IndexTypes' /\ JobTypes
    BY <1>1 DEF LogInv, IndexTypes
  <2>6. PeerFacts /\ NextFacts
    BY <1>1, <2>4, <2>5, PeersSame
  <2>7. /\ \E tl2 : LogFacts(tl, tl2) /\ LedgerInv(tl2)'
        /\ e.index \in DOMAIN disk'[i].log /\ disk'[i].log[e.index] = e
    BY <1>1, <2>2, <2>3, AppendedLedger
  <2>8. j(e).pc = "next" /\ j(e).mine = e /\ "S" \in Threads /\ SetJob(i, "S", j(e))
    BY <2>2 DEF IdleJob, Threads
  <2> HIDE DEF j
  <2>9. ~InCall(j(e)) /\ \A q, T, n : ~AcceptedUpTo(j(e), q, T, n)
    BY <2>8 DEF InCall, AcceptedUpTo
  <2>10. AcceptFacts(tl) /\ MessageFacts(tl) /\ JobTypes'
    BY <1>1, <2>5, <2>8, <2>9, AnyJobStep
  <2>11. PICK tl2 : LogFacts(tl, tl2) /\ LedgerInv(tl2)'
    BY <2>7
  <2>12. CommitFacts(tl2) /\ HistFacts
    BY <1>1, HistorySame
  <2>13. LogChange(tl, tl2)
    BY <2>4, <2>5, <2>6, <2>10, <2>11, <2>12 DEF LogChange
  <2>14. job'[i]["S"] = j(e)
    BY <2>8, JobAfter DEF Inv, RpcInv
  <2>. QED  BY <2>3, <2>7, <2>8, <2>13, <2>14 DEF MineAt
<1>. QED  BY <1>2, <1>3

LEMMA ReadStepChange ==
    ASSUME NEW tl, LogInv(tl), Inv, ReadersInv, ElectionStep, NEW i \in Node, ReadStep(i)
    PROVE  \E tl2 : LogChange(tl, tl2)
<1>1. CASE SendHeartbeat(i)
  BY <1>1, SendHeartbeatChange
<1>2. CASE AppendNoop(i)
  BY <1>2, AppendNoopChange
<1>3. ASSUME \/ BeginRead(i) \/ CheckTerm(i) \/ NoopResult(i) \/ TakeReadIndex(i)
             \/ EndConfirm(i) \/ WaitApplied(i) \/ ReadValue(i)
      PROVE  /\ UNCHANGED electionVars /\ ReadOnly
             /\ job' = job \/ SetJob(i, "S", IdleJob) \/ SetJob(i, "S", BusyReading)
  BY <1>3 DEF BeginRead, CheckTerm, NoopResult, TakeReadIndex, EndConfirm, WaitApplied,
              ReadValue, Fails
<1>4. ASSUME HeartbeatReply(i)
      PROVE  /\ UNCHANGED electionVars \/ \E term : LearnTerm(i, term)
             /\ ReadOnly
             /\ SetJob(i, "S", IdleJob) \/ SetJob(i, "S", BusyReading)
  BY <1>4 DEF HeartbeatReply, Fails
<1>5. CASE \/ BeginRead(i) \/ CheckTerm(i) \/ NoopResult(i) \/ TakeReadIndex(i)
           \/ EndConfirm(i) \/ WaitApplied(i) \/ ReadValue(i) \/ HeartbeatReply(i)
  BY <1>3, <1>4, <1>5, NoCallChange DEF ReadOnly
<1>6. CASE HeartbeatFails(i)
  <2>1. /\ UNCHANGED electionVars
        /\ UNCHANGED <<disk, commitIndex, lastApplied, nextIndex, matchIndex, committed,
                       applied, acked>>
        /\ SetJob(i, "S", BusyReading)
        /\ \A m \in late' : m \in late \/ (InCall(job[i]["S"]) /\ m = job[i]["S"].req)
    BY <1>6 DEF HeartbeatFails, InCall
  <2>. QED  BY <2>1, NoCallChange
<1>. QED  BY <1>1, <1>2, <1>5, <1>6 DEF ReadStep
-----------------------------------------------------------------------------
(***************************************************************************)
(* The steps of a read itself.                                             *)
(***************************************************************************)

\* The read of node i takes this step, and no other node's read does.
OwnStep(i, r) == read' = [read EXCEPT ![i] = r]

LEMMA OwnFields ==
    ASSUME ReadTypes, NEW i \in Node, NEW r \in ReadRecords, OwnStep(i, r)
    PROVE  /\ ReadTypes' /\ read'[i] = r
           /\ \A k \in Node : k # i => read'[k] = read[k]
  BY DEF ReadTypes, OwnStep

LEMMA NoReadType == NoRead \in ReadRecords /\ NoRead.stage = "none"
  BY DEF NoRead, ReadRecords, Stages

\* A read that is over asks for nothing.
LEMMA EndedRead ==
    ASSUME NEW i \in Node, read'[i].stage = "none", job'[i]["S"] = IdleJob
    PROVE  ReadOK(i)'
<1>1. job'[i]["S"].pc = "idle"
  BY DEF IdleJob
<1>. QED
  BY <1>1 DEF ReadOK, PlaceOK, OperationOK, TermOK, SinceOK, StageOK, At, Steady, Preparing,
              Serving

LEMMA EndsRead ==
    ASSUME Inv, ReadTypes, NEW i \in Node, OwnStep(i, NoRead), SetJob(i, "S", IdleJob)
    PROVE  ReadTypes' /\ ReadOK(i)'
<1>1. job'[i]["S"] = IdleJob
  BY JobAfter DEF Inv, RpcInv, Threads
<1>. QED  BY <1>1, NoReadType, OwnFields, EndedRead

LEMMA FailedRead ==
    ASSUME Inv, ReadTypes, NEW i \in Node, Fails(i)
    PROVE  ReadTypes' /\ ReadOK(i)' /\ told' = told
  BY EndsRead DEF Fails, OwnStep

\* GoTo, as the record it leaves.
LEMMA GoToFields ==
    ASSUME ReadTypes, NEW i \in Node, NEW stage \in Stages, GoTo(i, stage)
    PROVE  /\ ReadTypes' /\ read'[i].stage = stage /\ read'[i].term = read[i].term
           /\ read'[i].index = read[i].index /\ read'[i].todo = read[i].todo
           /\ read'[i].acks = read[i].acks /\ read'[i].since = read[i].since
<1>1. PICK r : r = [read[i] EXCEPT !.stage = stage]
  OBVIOUS
<1>2. read[i] \in ReadRecords
  BY DEF ReadTypes
<1>3. /\ r \in ReadRecords /\ r.stage = stage /\ r.term = read[i].term
      /\ r.index = read[i].index /\ r.todo = read[i].todo
      /\ r.acks = read[i].acks /\ r.since = read[i].since
  BY <1>1, <1>2 DEF ReadRecords
<1>4. OwnStep(i, r)
  BY <1>1 DEF GoTo, OwnStep
<1>. QED  BY <1>3, <1>4, OwnFields

\* A step of the read itself that counts no new confirmation, or one just given.
LEMMA OvertakenStays ==
    ASSUME Inv, ElectionStep, ReadTypes, NEW i \in Node, Overtaken(i),
           read'[i].term = read[i].term,
           \A j \in Node : j \in read'[i].acks =>
             j \in read[i].acks \/ Confirms(i, j) \/ currentTerm[j] <= read[i].term,
           job'[i]["S"].pc # "answered"
    PROVE  Overtaken(i)'
<1>1. PICK Q \in SUBSET Node :
        /\ IsMajority(Q)
        /\ \A j \in Q : /\ currentTerm[j] > read[i].term
                        /\ j \notin read[i].acks
                        /\ ~Confirms(i, j)
  BY DEF Overtaken
<1>2. ASSUME NEW j \in Q
      PROVE  currentTerm'[j] > read'[i].term /\ j \notin read'[i].acks /\ ~Confirms(i, j)'
  <2>1. /\ currentTerm[j] \in Nat /\ currentTerm'[j] \in Nat /\ read[i].term \in Nat
        /\ currentTerm'[j] >= currentTerm[j]
    BY TermTypes, ReadFields
  <2>2. ~(currentTerm[j] <= read[i].term)
    BY <1>1, <2>1
  <2>. QED  BY <1>1, <2>1, <2>2 DEF Confirms
<1>. QED  BY <1>1, <1>2 DEF Overtaken, IsMajority

\* The term of a read that goes on.
LEMMA TermGoesOn ==
    ASSUME Inv, ElectionStep, ReadTypes, NEW i \in Node, read'[i].term = read[i].term,
           ~At(i, "none"), TermOK(i)
    PROVE  TermOK(i)'
<1>1. /\ elected \subseteq elected' /\ currentTerm'[i] >= currentTerm[i]
      /\ currentTerm[i] \in Nat /\ currentTerm'[i] \in Nat /\ read[i].term \in Nat
  BY Grows, ReadFields DEF Inv
<1>. QED  BY <1>1 DEF TermOK

LEMMA CoveredStays ==
    ASSUME NEW i \in Node, read'[i].term = read[i].term, read'[i].since = read[i].since,
           committed \subseteq committed', Covered(i)
    PROVE  Covered(i)'
  BY DEF Covered

\* From one section of the preparation to the next.
LEMMA PreparationGoesOn ==
    ASSUME Inv, ElectionStep, ReadTypes, NEW i \in Node, NEW stage \in Preparing \ {"noop"},
           GoTo(i, stage), read[i].stage \in Preparing,
           job'[i]["S"].pc = "reading", committed' = committed,
           stage = "index" => TermIsCommitted(i)', ReadOK(i)
    PROVE  ReadTypes' /\ ReadOK(i)'
<1>1. /\ ReadTypes' /\ read'[i].stage = stage /\ read'[i].term = read[i].term
      /\ read'[i].since = read[i].since /\ read'[i].acks = read[i].acks
      /\ stage \in Preparing \cap Steady
  <2>1. stage \in Stages /\ stage \in Preparing \cap Steady
    BY DEF Preparing, Stages, Steady
  <2>. QED  BY <2>1, GoToFields
<1>2. TermOK(i)'
  BY <1>1, TermGoesOn DEF ReadOK, At, Preparing
<1>3. SinceOK(i)'
  BY <1>1, CoveredStays, OvertakenStays DEF ReadOK, SinceOK, Preparing, Serving
<1>4. PlaceOK(i)' /\ OperationOK(i)'
  BY <1>1 DEF PlaceOK, OperationOK, At, Preparing
<1>5. StageOK(i)'
  BY <1>1 DEF StageOK, At, Preparing
<1>. QED  BY <1>1, <1>2, <1>3, <1>4, <1>5 DEF ReadOK
\* The last entry a client knows of has been committed.
LEMMA SeenIsCommitted ==
    ASSUME NEW tl, LogInv(tl), ToldInv
    PROVE  /\ SeenByClients \in Nat
           /\ SeenByClients = 0 \/ \E x \in committed : x.entry.index = SeenByClients
<1> DEFINE S == {0} \cup {e.index : e \in acked} \cup {r.seen : r \in told}
<1>1. ASSUME NEW n \in S
      PROVE  n = 0 \/ \E x \in committed : x.entry.index = n
  <2>1. \A e \in acked : \E x \in committed : x.entry = e
    BY DEF LogInv, HistInv, AckedIsCommitted
  <2>. QED  BY <2>1 DEF ToldInv
<1>2. ASSUME NEW x \in committed
      PROVE  x.entry.index \in Nat /\ x.entry.index <= MaxLog
  <2>1. PICK n \in Nat : x.entry.index \in 1 .. n /\ Chosen(tl, x.in, n)
    BY DEF LogInv, CommittedInv, CommittedOK
  <2>2. x.in \in Nat /\ LedgerInv(tl)
    BY DEF LogInv, CommittedInv, CommittedOK
  <2>3. /\ n \in 1 .. Len(tl[x.in]) /\ Len(tl[x.in]) \in Nat /\ Len(tl[x.in]) <= MaxLog
    BY <2>1, <2>2, LedgerTypes DEF Chosen, Has, LedgerInv
  <2>. QED  BY <2>1, <2>3, ReplicationAssumption
<1>3. MaxLog \in Nat
  BY ReplicationAssumption
<1>4. \A n \in S : n \in Nat /\ n <= MaxLog
  BY <1>1, <1>2, <1>3
<1>5. SeenByClients = Max(S) /\ 0 \in S
  BY DEF SeenByClients
<1> HIDE DEF S
<1>6. Max(S) \in S
  BY <1>3, <1>4, <1>5, MaxIsLargest
<1>. QED  BY <1>1, <1>4, <1>5, <1>6

\* Whatever has been committed was committed in this term or before, or a majority has
\* moved on already.
LEMMA CoveredOrOvertaken ==
    ASSUME NEW tl, LogInv(tl), Inv, NEW x \in committed, NEW T \in Nat, x.in > T
    PROVE  \E Q \in SUBSET Node : IsMajority(Q) /\ \A j \in Q : currentTerm[j] > T
<1>1. x.in \in Nat /\ \E n \in Nat : Chosen(tl, x.in, n)
  BY DEF LogInv, CommittedInv, CommittedOK
<1>2. PICK Q \in SUBSET Node : IsMajority(Q) /\ \A j \in Q : currentTerm[j] >= x.in
  BY <1>1 DEF Chosen
<1>3. \A j \in Node : currentTerm[j] \in Nat
  BY DEF Inv, ElectionInv, ElectionTypeOK
<1>4. \A j \in Q : currentTerm[j] > T
  BY <1>1, <1>2, <1>3
<1>. QED  BY <1>2, <1>4

LEMMA BeginReadKeeps ==
    ASSUME NEW tl, LogInv(tl), Inv, ElectionStep, ReadTypes, ToldInv, NEW i \in Node,
           BeginRead(i)
    PROVE  ReadTypes' /\ ReadOK(i)'
<1>1. PICK r : r = [NoRead EXCEPT !.stage = "check", !.term = currentTerm[i],
                                  !.since = SeenByClients]
  OBVIOUS
<1>2. currentTerm[i] \in Nat /\ SeenByClients \in Nat
  BY SeenIsCommitted DEF Inv, ElectionInv, ElectionTypeOK
<1>3. /\ r \in ReadRecords /\ r.stage = "check" /\ r.term = currentTerm[i]
      /\ r.since = SeenByClients /\ r.acks = {}
  BY <1>1, <1>2 DEF NoRead, ReadRecords, Stages
<1>4. OwnStep(i, r) /\ UNCHANGED electionVars /\ committed' = committed
      /\ SetJob(i, "S", BusyReading) /\ state[i] = "Leader"
  BY <1>1 DEF BeginRead, OwnStep, ReadOnly
<1>5. ReadTypes' /\ read'[i] = r
  BY <1>3, <1>4, OwnFields
<1>6. job'[i]["S"].pc = "reading"
  <2>1. job'[i]["S"] = BusyReading
    BY <1>4, JobAfter DEF Inv, RpcInv, Threads
  <2>. QED  BY <2>1 DEF BusyReading, IdleJob
<1>7. PlaceOK(i)' /\ OperationOK(i)' /\ StageOK(i)'
  BY <1>3, <1>5, <1>6 DEF PlaceOK, OperationOK, StageOK, At
<1>8. TermOK(i)'
  <2>1. \E e \in elected : e.term = currentTerm[i]
    BY <1>4 DEF Inv, ElectionInv, LeaderInv
  <2>. QED  BY <1>2, <1>3, <1>4, <1>5, <2>1 DEF TermOK, electionVars
<1>9. Covered(i)' \/ Overtaken(i)'
  <2>1. CASE SeenByClients = 0
    BY <1>3, <1>5, <2>1 DEF Covered
  <2>2. ASSUME NEW x \in committed, x.entry.index = SeenByClients, x.in <= currentTerm[i]
        PROVE  Covered(i)'
    BY <1>2, <1>3, <1>4, <1>5, <2>2 DEF Covered
  <2>3. ASSUME NEW x \in committed, x.in > currentTerm[i]
        PROVE  Overtaken(i)'
    <3>1. PICK Q \in SUBSET Node : IsMajority(Q) /\ \A j \in Q : currentTerm[j] > currentTerm[i]
      BY <1>2, <2>3, CoveredOrOvertaken
    <3>2. \A j \in Node : ~Confirms(i, j)'
      BY <1>6 DEF Confirms
    <3>. QED  BY <1>3, <1>4, <1>5, <3>1, <3>2 DEF Overtaken, IsMajority, electionVars
  <2>4. \A x \in committed : x.in \in Nat
    BY DEF LogInv, CommittedInv, CommittedOK
  <2>5. \A x \in committed : x.in <= currentTerm[i] \/ x.in > currentTerm[i]
    BY <1>2, <2>4
  <2>. QED  BY <2>1, <2>2, <2>3, <2>5, SeenIsCommitted
<1>10. SinceOK(i)'
  BY <1>3, <1>5, <1>9 DEF SinceOK, Serving
<1>. QED  BY <1>5, <1>7, <1>8, <1>10 DEF ReadOK

LEMMA CheckTermKeeps ==
    ASSUME NEW tl, LogInv(tl), Inv, ElectionStep, ReadTypes, NEW i \in Node, ReadOK(i),
           CheckTerm(i)
    PROVE  ReadTypes' /\ ReadOK(i)'
<1>1. CASE Fails(i)
  BY <1>1, FailedRead
<1>2. CASE ~Fails(i)
  <2>1. PICK stage \in {"index", "append"} :
          /\ GoTo(i, stage)
          /\ stage = "index" => CommittedInTerm(i)
    BY <1>2 DEF CheckTerm
  <2>2. /\ UNCHANGED <<electionVars, job, disk, commitIndex, committed>>
        /\ read[i].stage = "check"
    BY <1>2 DEF CheckTerm, ReadOnly, At
  <2>3. job'[i]["S"].pc = "reading"
    BY <2>2 DEF ReadOK, PlaceOK, Steady
  <2>4. ASSUME CommittedInTerm(i)
        PROVE  TermIsCommitted(i)'
    <3>1. /\ disk[i] \in Disks /\ commitIndex[i] \in 0 .. Len(disk[i].log)
          /\ Len(disk[i].log) \in Nat
      BY DiskTypes DEF LogInv, CommitIndexInv, KnowsCommitted
    <3>2. commitIndex[i] \in DOMAIN disk[i].log
      BY <2>4, <3>1, DiskFacts DEF CommittedInTerm
    <3>3. disk[i].log[commitIndex[i]].term = currentTerm[i]
      BY <2>4, <3>1, <3>2, DiskFacts DEF CommittedInTerm
    <3>. QED  BY <2>2, <3>2, <3>3 DEF TermIsCommitted, electionVars
  <2>5. stage \in Preparing \ {"noop"} /\ read[i].stage \in Preparing
    BY <2>2 DEF Preparing
  <2>. QED  BY <2>1, <2>2, <2>3, <2>4, <2>5, PreparationGoesOn
<1>. QED  BY <1>1, <1>2

LEMMA NoopResultKeeps ==
    ASSUME NEW tl, LogInv(tl), Inv, ElectionStep, ReadTypes, NEW i \in Node, ReadOK(i),
           NoopResult(i)
    PROVE  ReadTypes' /\ ReadOK(i)'
<1> DEFINE mine == job[i]["S"].mine
<1>1. CASE Fails(i)
  BY <1>1, FailedRead
<1>2. CASE ~Fails(i)
  <2>1. /\ GoTo(i, "index") /\ SetJob(i, "S", BusyReading)
        /\ commitIndex[i] >= mine.index
        /\ LogTermAt(disk[i], commitIndex[i]) = currentTerm[i]
        /\ UNCHANGED electionVars
    BY <1>2 DEF NoopResult
  <2>2. /\ UNCHANGED <<disk, commitIndex, committed>> /\ read[i].stage = "noop"
        /\ job[i]["S"].pc = "result"
    BY <1>2 DEF NoopResult, ReadOnly, At
  <2>3. job'[i]["S"].pc = "reading"
    <3>1. job'[i]["S"] = BusyReading
      BY <2>1, JobAfter DEF Inv, RpcInv, Threads
    <3>. QED  BY <3>1 DEF BusyReading, IdleJob
  <2>4. TermIsCommitted(i)'
    <3>1. /\ disk[i] \in Disks /\ commitIndex[i] \in 0 .. Len(disk[i].log)
          /\ Len(disk[i].log) \in Nat
      BY DiskTypes DEF LogInv, CommitIndexInv, KnowsCommitted
    <3>2. mine.index \in DOMAIN disk[i].log
      BY <2>2 DEF ReadOK, OperationOK, MineAt, At
    <3>3. commitIndex[i] \in DOMAIN disk[i].log
      BY <2>1, <3>1, <3>2, DiskFacts
    <3>4. disk[i].log[commitIndex[i]].term = currentTerm[i]
      BY <2>1, <3>1, <3>3, DiskFacts
    <3>. QED  BY <2>1, <2>2, <3>3, <3>4 DEF TermIsCommitted, electionVars
  <2>5. "index" \in Preparing \ {"noop"} /\ read[i].stage \in Preparing
    BY <2>2 DEF Preparing
  <2>. QED  BY <2>1, <2>2, <2>3, <2>4, <2>5, PreparationGoesOn
<1>. QED  BY <1>1, <1>2
LEMMA AppendNoopKeeps ==
    ASSUME NEW tl, LogInv(tl), Inv, ElectionStep, ReadTypes, NEW i \in Node, ReadOK(i),
           AppendNoop(i)
    PROVE  ReadTypes' /\ ReadOK(i)'
<1>1. CASE Fails(i)
  BY <1>1, FailedRead
<1>2. CASE ~Fails(i)
  <2>1. job'[i]["S"].pc = "next" /\ MineAt(i)' /\ GoTo(i, "noop")
    BY <1>2, AppendNoopChange
  <2>2. committed' = committed /\ read[i].stage = "append"
    BY DEF AppendNoop, At
  <2>3. /\ ReadTypes' /\ read'[i].stage = "noop" /\ read'[i].term = read[i].term
        /\ read'[i].since = read[i].since /\ read'[i].acks = read[i].acks
    BY <2>1, GoToFields DEF Stages
  <2>4. TermOK(i)'
    BY <2>2, <2>3, TermGoesOn DEF ReadOK, At
  <2>5. SinceOK(i)'
    BY <2>1, <2>2, <2>3, CoveredStays, OvertakenStays DEF ReadOK, SinceOK, Preparing, Serving
  <2>6. PlaceOK(i)' /\ OperationOK(i)' /\ StageOK(i)'
    BY <2>1, <2>3 DEF PlaceOK, OperationOK, StageOK, At, Places, Steady
  <2>. QED  BY <2>3, <2>4, <2>5, <2>6 DEF ReadOK
<1>. QED  BY <1>1, <1>2

\* A leader whose last committed entry is of its own term knows of all that has been
\* committed up to that term.
LEMMA CommitIndexCovers ==
    ASSUME NEW tl, LogInv(tl), Inv, NEW i \in Node, state[i] = "Leader", TermIsCommitted(i),
           NEW x \in committed, x.in <= currentTerm[i]
    PROVE  x.entry.index <= commitIndex[i]
<1> DEFINE T == currentTerm[i]
           c == commitIndex[i]
<1>1. /\ x.in \in Nat /\ T \in Nat /\ LedgerInv(tl) /\ disk[i].log = tl[T]
      /\ tl[T] \in Seq(Entries) /\ Rooted(tl, tl[T]) /\ Len(tl[T]) \in Nat
      /\ DOMAIN tl[T] = 1 .. Len(tl[T])
  <2>1. T \in Nat
    BY DEF Inv, ElectionInv, ElectionTypeOK
  <2>2. LedgerInv(tl) /\ disk[i].log = tl[T]
    BY DEF LogInv, DiskInv
  <2>. QED  BY <2>1, <2>2, LedgerTypes DEF LogInv, CommittedInv, CommittedOK
<1>2. c \in DOMAIN tl[T] /\ tl[T][c].term = T
  BY <1>1 DEF TermIsCommitted
<1>3. CASE x.in = T
  BY <1>3 DEF LogInv, TermCommitInv
<1>4. CASE x.in < T
  <2>1. PICK n \in Nat : x.entry.index \in 1 .. n /\ Chosen(tl, x.in, n)
    BY DEF LogInv, CommittedInv, CommittedOK
  <2>2. PICK e \in elected : e.term = T
    BY DEF Inv, ElectionInv, LeaderInv
  <2>3. Agree(tl[x.in], tl[T], n)
    BY <1>1, <1>4, <2>1, <2>2, ChosenIsLed
  <2>4. n \in DOMAIN tl[x.in] /\ tl[x.in][n].term = x.in
    BY <2>1 DEF Chosen, Has
  <2>5. n \in DOMAIN tl[T] /\ tl[T][n].term = x.in
    BY <1>1, <2>1, <2>3, <2>4 DEF Agree
  <2>6. ~(c <= n)
    <3>1. c <= n => T <= x.in
      BY <1>1, <1>2, <2>5, TermsRise
    <3>. QED  BY <1>1, <1>4, <3>1
  <2>. QED  BY <1>1, <1>2, <2>1, <2>6
<1>. QED  BY <1>1, <1>3, <1>4

LEMMA TakeReadIndexKeeps ==
    ASSUME NEW tl, LogInv(tl), Inv, ElectionStep, ReadTypes, NEW i \in Node, ReadOK(i),
           TakeReadIndex(i)
    PROVE  ReadTypes' /\ ReadOK(i)'
<1>1. CASE Fails(i)
  BY <1>1, FailedRead
<1>2. CASE ~Fails(i)
  <2>1. PICK r : r = [read[i] EXCEPT !.stage = "confirm", !.index = commitIndex[i],
                                     !.todo = PeersOf(i), !.acks = {i}]
    OBVIOUS
  <2>2. read[i] \in ReadRecords /\ commitIndex[i] \in Nat /\ PeersOf(i) \subseteq Node
    BY DEF ReadTypes, LogInv, IndexTypes, PeersOf
  <2>3. /\ r \in ReadRecords /\ r.stage = "confirm" /\ r.index = commitIndex[i]
        /\ r.acks = {i} /\ r.term = read[i].term /\ r.since = read[i].since
    BY <2>1, <2>2 DEF ReadRecords, Stages
  <2>4. /\ OwnStep(i, r) /\ StillLeads(i) /\ At(i, "index")
        /\ UNCHANGED <<electionVars, job, committed>>
    BY <1>2, <2>1 DEF TakeReadIndex, OwnStep, ReadOnly
  <2>5. ReadTypes' /\ read'[i] = r
    BY <2>3, <2>4, OwnFields
  <2>6. job'[i]["S"].pc = "reading"
    BY <2>4 DEF ReadOK, PlaceOK, Steady, At
  <2>7. PlaceOK(i)' /\ OperationOK(i)'
    BY <2>3, <2>5, <2>6 DEF PlaceOK, OperationOK, At, Steady
  <2>8. TermOK(i)'
    BY <2>3, <2>4, <2>5, TermGoesOn DEF ReadOK, At
  <2>9. StageOK(i)'
    BY <2>3, <2>5, <2>6 DEF StageOK, At, InCall
  <2>10. CASE Overtaken(i)
    <3>1. currentTerm[i] = read[i].term /\ currentTerm[i] <= read[i].term
      BY <2>4 DEF StillLeads, Inv, ElectionInv, ElectionTypeOK
    <3>2. Overtaken(i)'
      BY <2>3, <2>5, <2>6, <2>10, <3>1, OvertakenStays
    <3>3. SinceOK(i)'
      BY <2>3, <2>5, <3>2 DEF SinceOK, Preparing
    <3>. QED  BY <2>5, <2>7, <2>8, <2>9, <3>3 DEF ReadOK
  <2>11. CASE Covered(i)
    <3>1. read[i].since <= commitIndex[i]
      <4>1. CASE read[i].since = 0
        BY <2>2, <4>1
      <4>2. ASSUME NEW x \in committed, x.in <= read[i].term, read[i].since <= x.entry.index
            PROVE  read[i].since <= commitIndex[i]
        <5>1. x.entry.index <= commitIndex[i]
          BY <2>4, <4>2, CommitIndexCovers DEF StillLeads, ReadOK, StageOK
        <5>2. x.entry.index \in Nat /\ read[i].since \in Nat
          BY ReadFields DEF LogInv, CommittedInv, CommittedOK, Entries
        <5>. QED  BY <2>2, <4>2, <5>1, <5>2
      <4>. QED  BY <2>11, <4>1, <4>2 DEF Covered
    <3>2. SinceOK(i)'
      BY <2>3, <2>5, <3>1 DEF SinceOK, Preparing
    <3>. QED  BY <2>5, <2>7, <2>8, <2>9, <3>2 DEF ReadOK
  <2>. QED  BY <2>4, <2>10, <2>11 DEF ReadOK, SinceOK, Preparing, At
<1>. QED  BY <1>1, <1>2
\* From one heartbeat to the next.
LEMMA ConfirmationGoesOn ==
    ASSUME Inv, ElectionStep, ReadTypes, NEW i \in Node, ReadOK(i), At(i, "confirm"),
           read'[i].stage = "confirm", read'[i].term = read[i].term,
           read'[i].index = read[i].index, read'[i].since = read[i].since,
           \A j \in Node : j \in read'[i].acks => j \in read[i].acks \/ Confirms(i, j),
           \/ job'[i]["S"].pc = "reading"
           \/ /\ job'[i]["S"].pc = "waiting" /\ job'[i]["S"].req.kind = "AE"
              /\ job'[i]["S"].req.term = read[i].term
    PROVE  ReadOK(i)'
<1>1. PlaceOK(i)' /\ OperationOK(i)' /\ StageOK(i)'
  BY DEF PlaceOK, OperationOK, StageOK, At, Steady, InCall
<1>2. TermOK(i)'
  BY TermGoesOn DEF ReadOK, At
<1>3. SinceOK(i)'
  BY OvertakenStays DEF ReadOK, SinceOK, At, Preparing, Serving
<1>. QED  BY <1>1, <1>2, <1>3 DEF ReadOK

LEMMA SendHeartbeatKeeps ==
    ASSUME Inv, ElectionStep, ReadTypes, NEW i \in Node, ReadOK(i), SendHeartbeat(i)
    PROVE  ReadTypes' /\ ReadOK(i)'
<1> DEFINE j == FirstPeer(read[i].todo)
<1>1. CASE Fails(i)
  BY <1>1, FailedRead
<1>2. CASE ~Fails(i)
  <2>1. PICK m : m = EmptyAppend(i, j)
    OBVIOUS
  <2>2. SetJob(i, "S", Beating(j, m)) /\ StillLeads(i) /\ At(i, "confirm")
    BY <1>2, <2>1 DEF SendHeartbeat, Beating
  <2>3. job'[i]["S"].pc = "waiting" /\ job'[i]["S"].req = m
    BY <2>2, BeatingJob, JobAfter DEF Inv, RpcInv, Threads
  <2>4. m.kind = "AE" /\ m.term = read[i].term
    BY <2>1, <2>2 DEF EmptyAppend, StillLeads
  <2>5. PICK r : r = [read[i] EXCEPT !.todo = @ \ {j}]
    OBVIOUS
  <2>6. OwnStep(i, r)
    BY <1>2, <2>5 DEF SendHeartbeat, OwnStep
  <2>7. /\ r \in ReadRecords /\ r.stage = read[i].stage /\ r.term = read[i].term
        /\ r.index = read[i].index /\ r.acks = read[i].acks /\ r.since = read[i].since
    <3>1. read[i] \in ReadRecords
      BY DEF ReadTypes
    <3>. QED  BY <2>5, <3>1 DEF ReadRecords
  <2>8. ReadTypes' /\ read'[i] = r
    BY <2>6, <2>7, OwnFields
  <2>. QED  BY <2>2, <2>3, <2>4, <2>7, <2>8, ConfirmationGoesOn DEF At
<1>. QED  BY <1>1, <1>2

LEMMA BusyAgain ==
    ASSUME Inv, NEW i \in Node, SetJob(i, "S", BusyReading)
    PROVE  job'[i]["S"].pc = "reading"
<1>1. job'[i]["S"] = BusyReading
  BY JobAfter DEF Inv, RpcInv, Threads
<1>. QED  BY <1>1 DEF BusyReading, IdleJob

LEMMA HeartbeatFailsKeeps ==
    ASSUME Inv, ElectionStep, ReadTypes, NEW i \in Node, ReadOK(i), HeartbeatFails(i)
    PROVE  ReadTypes' /\ ReadOK(i)'
<1>1. SetJob(i, "S", BusyReading) /\ read' = read /\ At(i, "confirm")
  BY DEF HeartbeatFails
<1>2. job'[i]["S"].pc = "reading"
  BY <1>1, BusyAgain
<1>3. ReadOK(i)'
  BY <1>1, <1>2, ConfirmationGoesOn DEF At
<1>. QED  BY <1>1, <1>3 DEF ReadTypes

LEMMA HeartbeatReplyKeeps ==
    ASSUME NEW tl, LogInv(tl), Inv, ElectionStep, ReadTypes, NEW i \in Node, ReadOK(i),
           HeartbeatReply(i)
    PROVE  ReadTypes' /\ ReadOK(i)'
<1> DEFINE me == job[i]["S"]
<1>1. CASE OwnStep(i, NoRead) /\ SetJob(i, "S", IdleJob)
  BY <1>1, EndsRead
<1>2. CASE ~(OwnStep(i, NoRead) /\ SetJob(i, "S", IdleJob))
  <2>1. PICK acks : acks = IF me.reply.success THEN read[i].acks \cup {me.peer}
                                               ELSE read[i].acks
    OBVIOUS
  <2>2. PICK r : r = [read[i] EXCEPT !.acks = acks]
    OBVIOUS
  <2>3. /\ SetJob(i, "S", BusyReading) /\ At(i, "confirm") /\ me.pc = "answered"
        /\ OwnStep(i, r)
    BY <1>2, <2>1, <2>2 DEF HeartbeatReply, OwnStep, Fails
  <2>4. me.peer \in Node
    <3>1. InCall(me) /\ "S" \in Threads
      BY <2>3 DEF InCall, Threads
    <3>2. me.req.to = me.peer
      BY <3>1 DEF LogInv, MessageInv
    <3>3. me.req.to \in Node
      BY <2>3, <3>1 DEF Inv, RpcInv, RequestsInv, NamesLeader
    <3>. QED  BY <3>2, <3>3
  <2>5. /\ acks \in SUBSET Node
        /\ \A j \in acks : j \in read[i].acks \/ Confirms(i, j)
    BY <2>1, <2>3, <2>4, ReadFields DEF Confirms
  <2>6. /\ r \in ReadRecords /\ r.stage = read[i].stage /\ r.term = read[i].term
        /\ r.index = read[i].index /\ r.acks = acks /\ r.since = read[i].since
    <3>1. read[i] \in ReadRecords
      BY DEF ReadTypes
    <3>. QED  BY <2>2, <2>5, <3>1 DEF ReadRecords
  <2>7. ReadTypes' /\ read'[i] = r
    BY <2>3, <2>6, OwnFields
  <2>8. job'[i]["S"].pc = "reading"
    BY <2>3, BusyAgain
  <2>. QED  BY <2>3, <2>5, <2>6, <2>7, <2>8, ConfirmationGoesOn DEF At
<1>. QED  BY <1>1, <1>2

\* After the round a read waits and is served without another call.
LEMMA ServiceGoesOn ==
    ASSUME Inv, ElectionStep, ReadTypes, NEW i \in Node, ReadOK(i),
           read[i].stage \in Serving, NEW stage \in {"wait", "get"}, GoTo(i, stage),
           job'[i]["S"].pc = "reading", Confirmed(i),
           stage = "get" => lastApplied'[i] >= read[i].index
    PROVE  ReadTypes' /\ ReadOK(i)'
<1>1. /\ ReadTypes' /\ read'[i].stage = stage /\ read'[i].term = read[i].term
      /\ read'[i].index = read[i].index /\ read'[i].acks = read[i].acks
      /\ read'[i].since = read[i].since
  BY GoToFields DEF Stages
<1>2. TermOK(i)'
  BY <1>1, TermGoesOn DEF ReadOK, At, Serving
<1>3. PlaceOK(i)' /\ OperationOK(i)'
  BY <1>1 DEF PlaceOK, OperationOK, At
<1>4. SinceOK(i)'
  BY <1>1, OvertakenStays DEF ReadOK, SinceOK, Preparing, Serving
<1>5. Confirmed(i)'
  BY <1>1 DEF Confirmed, IsMajority
<1>6. StageOK(i)'
  BY <1>1, <1>5 DEF StageOK, At
<1>. QED  BY <1>1, <1>2, <1>3, <1>4, <1>6 DEF ReadOK

LEMMA EndConfirmKeeps ==
    ASSUME Inv, ElectionStep, ReadTypes, NEW i \in Node, ReadOK(i), EndConfirm(i)
    PROVE  ReadTypes' /\ ReadOK(i)'
<1>1. CASE Fails(i)
  BY <1>1, FailedRead
<1>2. CASE ~Fails(i)
  <2>1. /\ Confirmed(i) /\ GoTo(i, "wait") /\ job' = job /\ job[i]["S"].pc = "reading"
        /\ read[i].stage \in Serving
    BY <1>2 DEF EndConfirm, At, Serving
  <2>. QED  BY <2>1, ServiceGoesOn
<1>. QED  BY <1>1, <1>2

LEMMA WaitAppliedKeeps ==
    ASSUME Inv, ElectionStep, ReadTypes, NEW i \in Node, ReadOK(i), WaitApplied(i)
    PROVE  ReadTypes' /\ ReadOK(i)'
<1>1. CASE Fails(i)
  BY <1>1, FailedRead
<1>2. CASE ~Fails(i)
  <2>1. /\ GoTo(i, "get") /\ job' = job /\ lastApplied' = lastApplied
        /\ lastApplied[i] >= read[i].index /\ read[i].stage = "wait"
    BY <1>2 DEF WaitApplied, At, ReadOnly
  <2>2. Confirmed(i) /\ job[i]["S"].pc = "reading" /\ read[i].stage \in Serving
    BY <2>1 DEF ReadOK, StageOK, PlaceOK, Steady, Serving
  <2>. QED  BY <2>1, <2>2, ServiceGoesOn
<1>. QED  BY <1>1, <1>2

\* A confirmed read has not been overtaken.
LEMMA ConfirmedNotOvertaken ==
    ASSUME ReadTypes, NEW i \in Node, Confirmed(i)
    PROVE  ~Overtaken(i)
<1>. SUFFICES ASSUME NEW Q \in SUBSET Node, IsMajority(Q), \A j \in Q : j \notin read[i].acks
              PROVE  FALSE
  BY DEF Overtaken
<1>1. read[i].acks \in SUBSET Node /\ IsMajority(read[i].acks)
  BY ReadFields DEF Confirmed
<1>2. Q \cap read[i].acks # {}
  BY <1>1, MajoritiesIntersect
<1>. QED  BY <1>2

LEMMA ReadValueKeeps ==
    ASSUME NEW tl, LogInv(tl), Inv, ElectionStep, ReadTypes, ToldInv, NEW i \in Node,
           ReadOK(i), ReadValue(i)
    PROVE  ReadTypes' /\ ReadOK(i)' /\ ToldInv'
<1>1. read' = [read EXCEPT ![i] = NoRead] /\ SetJob(i, "S", IdleJob) /\ committed' = committed
  BY DEF ReadValue, Fails, ReadOnly
<1>2. ReadTypes' /\ ReadOK(i)'
  BY <1>1, EndsRead DEF OwnStep
<1>3. CASE told' = told
  BY <1>1, <1>2, <1>3 DEF ToldInv
<1>4. CASE told' # told
  <2>1. PICK r : /\ r = [since |-> read[i].since, seen |-> lastApplied[i]]
                 /\ told' = told \cup {r}
    BY <1>4 DEF ReadValue, Fails
  <2>2. read[i].stage = "get"
    BY DEF ReadValue, At
  <2>3. read[i].since <= read[i].index /\ lastApplied[i] >= read[i].index
    BY <2>2, ConfirmedNotOvertaken DEF ReadOK, SinceOK, StageOK, Serving, At
  <2>4. read[i].since \in Nat /\ read[i].index \in Nat
    BY ReadFields
  <2>5. PICK c \in Nat : /\ c = lastApplied[i] /\ c = commitIndex[i] /\ KnowsCommitted(i, c)
    BY DEF LogInv, CommitIndexInv, IndexTypes
  <2>6. c = 0 \/ \E x \in committed : x.entry.index = c
    <3>1. CASE c = 0
      BY <3>1
    <3>2. CASE c # 0
      <4>1. c \in 1 .. c /\ c \in DOMAIN disk[i].log
        BY <2>5, <3>2, DiskTypes DEF LogInv, KnowsCommitted
      <4>2. PICK x \in committed : x.entry = disk[i].log[c]
        BY <2>5, <4>1 DEF KnowsCommitted, Committed
      <4>3. disk[i].log[c].index = c
        BY <4>1, DiskTypes DEF LogInv, Rooted
      <4>. QED  BY <4>2, <4>3
    <3>. QED  BY <3>1, <3>2
  <2>7. r.since <= r.seen /\ r.seen = c
    BY <2>1, <2>3, <2>4, <2>5
  <2>. QED  BY <1>1, <1>2, <2>1, <2>5, <2>6, <2>7 DEF ToldInv
<1>. QED  BY <1>3, <1>4, <1>2
LEMMA ReadStepKeeps ==
    ASSUME NEW tl, LogInv(tl), Inv, ElectionStep, ReadTypes, ToldInv, NEW i \in Node,
           ReadOK(i), ReadStep(i)
    PROVE  ReadTypes' /\ ReadOK(i)' /\ ToldInv'
<1>1. CASE ReadValue(i)
  BY <1>1, ReadValueKeeps
<1>2. CASE ~ReadValue(i)
  <2>1. ReadTypes' /\ ReadOK(i)'
    BY <1>2, BeginReadKeeps, CheckTermKeeps, AppendNoopKeeps, NoopResultKeeps,
       TakeReadIndexKeeps, SendHeartbeatKeeps, HeartbeatFailsKeeps, HeartbeatReplyKeeps,
       EndConfirmKeeps, WaitAppliedKeeps DEF ReadStep
  <2>2. told' = told /\ committed' = committed
    BY <1>2 DEF ReadStep, BeginRead, CheckTerm, AppendNoop, NoopResult, TakeReadIndex,
                SendHeartbeat, HeartbeatFails, HeartbeatReply, EndConfirm, WaitApplied,
                Fails, ReadOnly
  <2>. QED  BY <2>1, <2>2 DEF ToldInv
<1>. QED  BY <1>1, <1>2

\* One node's read is nothing to the others.
LEMMA ReadStepLeavesOthers ==
    ASSUME Inv, ReadTypes, NEW tl, LogInv(tl), NEW i \in Node, ReadStep(i),
           NEW k \in Node, k # i
    PROVE  read'[k] = read[k] /\ job'[k]["S"] = job[k]["S"] /\ disk'[k] = disk[k]
<1>1. job' = job \/ \E j : SetJob(i, "S", j)
  BY DEF ReadStep, BeginRead, CheckTerm, AppendNoop, NoopResult, TakeReadIndex,
         SendHeartbeat, HeartbeatFails, HeartbeatReply, EndConfirm, WaitApplied, ReadValue,
         Fails
<1>2. job'[k]["S"] = job[k]["S"]
  BY <1>1, OthersDoNotMove DEF Threads
<1>3. read' = read \/ \E r : OwnStep(i, r)
  BY DEF ReadStep, BeginRead, CheckTerm, AppendNoop, NoopResult, TakeReadIndex,
         SendHeartbeat, HeartbeatFails, HeartbeatReply, EndConfirm, WaitApplied, ReadValue,
         Fails, GoTo, OwnStep
<1>4. read'[k] = read[k]
  BY <1>3 DEF ReadTypes, OwnStep
<1>5. disk' = disk \/ \E d : disk' = [disk EXCEPT ![i] = d]
  BY DEF ReadStep, BeginRead, CheckTerm, AppendNoop, NoopResult, TakeReadIndex,
         SendHeartbeat, HeartbeatFails, HeartbeatReply, EndConfirm, WaitApplied, ReadValue,
         ReadOnly
<1>6. disk'[k] = disk[k]
  BY <1>5 DEF LogInv, DiskInv
<1>. QED  BY <1>2, <1>4, <1>6

\* Every read but that of node i, and nothing finished.
LEMMA ReadsKept ==
    ASSUME NEW tl, NEW tl2, LogInv(tl), LogInv(tl2)', LogChange(tl, tl2), Inv, ElectionStep,
           ReadLogInv, NEW k \in Node, read'[k] = read[k], ServerMoves(k), OperationKept(k)
    PROVE  ReadOK(k)'
  BY ReadKept DEF ReadLogInv

-----------------------------------------------------------------------------
(***************************************************************************)
(* The theorems.                                                           *)
(***************************************************************************)

\* The inductive invariant of RaftRead.
ReadIsSound == ReadLogInv /\ \E tl : LogInv(tl)

LEMMA ReadLogInit == ReadInit => ReadIsSound
<1>. SUFFICES ASSUME ReadInit PROVE ReadIsSound
  OBVIOUS
<1>1. ReadTypes /\ \A i \in Node : read[i].stage = "none"
  BY NoReadType DEF ReadInit, ReadTypes
<1>2. \A i \in Node : job[i]["S"].pc = "idle"
  BY DEF ReadInit, Init, ReplicationInit, IdleJob, Threads
<1>3. \A i \in Node : ReadOK(i)
  BY <1>1, <1>2 DEF ReadOK, PlaceOK, OperationOK, TermOK, SinceOK, StageOK, At, Steady,
                    Preparing, Serving
<1>4. ToldInv
  BY DEF ReadInit, ToldInv
<1>. QED  BY <1>1, <1>3, <1>4, LogInvInit DEF ReadInit, ReadIsSound, ReadLogInv

\* A step that is no step of a read: reads go on, or end with the node.
LEMMA OtherStepKeepsReads ==
    ASSUME NoCompaction, Inv, ElectionStep, ReadLogInv, NEW tl, LogInv(tl), [Next]_vars,
           AppendsFromStart', told' = told, ReadTypes',
           \A k \in Node : \/ read'[k] = read[k] /\ ServerMoves(k)
                           \/ read'[k] = NoRead /\ job'[k]["S"] = IdleJob
    PROVE  ReadIsSound'
<1>1. PICK tl2 : /\ LogInv(tl2)' /\ LogChange(tl, tl2)
                 /\ \A k \in Node : OperationKept(k)
  BY LogStepOfReads DEF ReadLogInv, ReadOK
<1>2. ASSUME NEW k \in Node
      PROVE  ReadOK(k)'
  BY <1>1, ReadsKept, EndedRead, NoReadType
<1>3. ToldInv'
  BY <1>1 DEF ReadLogInv, ToldInv, LogChange, CommitFacts
<1>. QED  BY <1>1, <1>2, <1>3 DEF ReadIsSound, ReadLogInv

LEMMA ReadIsSoundStep ==
    ASSUME NoCompaction, ReadInv, ReadIsSound, AppendsFromStart', [ReadNext]_readVars
    PROVE  ReadIsSound'
<1>1. ElectionStep /\ Inv /\ ReadersInv
  BY ReadNextIsElectionStep DEF ReadInv
<1>2. PICK tl : LogInv(tl)
  BY DEF ReadIsSound
<1>3. ReadLogInv /\ ReadTypes
  BY DEF ReadIsSound, ReadLogInv
<1>4. CASE UNCHANGED readVars
  <2>1. UNCHANGED vars /\ UNCHANGED <<read, told>> /\ job' = job
    BY <1>4 DEF readVars, vars, logVars
  <2>2. \A k \in Node : read'[k] = read[k] /\ ServerMoves(k)
    BY <2>1 DEF ServerMoves
  <2>3. ReadTypes'
    BY <1>3, <2>1 DEF ReadTypes
  <2>. QED  BY <1>1, <1>2, <1>3, <2>1, <2>2, <2>3, OtherStepKeepsReads
<1>5. CASE ReplicationStep /\ UNCHANGED <<read, told>>
  <2>1. \A k \in Node : read'[k] = read[k] /\ ServerMoves(k)
    BY <1>1, <1>2, <1>3, <1>5, ReplicationMoves DEF ReadLogInv, ReadOK
  <2>2. ReadTypes' /\ Next
    BY <1>3, <1>5, ReplicationStepIsNext DEF ReadTypes
  <2>. QED  BY <1>1, <1>2, <1>3, <1>5, <2>1, <2>2, OtherStepKeepsReads
<1>6. ASSUME NEW i \in Node, Crash(i), OwnStep(i, NoRead), told' = told
      PROVE  ReadIsSound'
  <2>1. job'[i]["S"] = IdleJob /\ \A k \in Node : k # i => job'[k] = job[k]
    BY <1>1, <1>6 DEF Crash, Inv, RpcInv, JobsInv, Threads
  <2>2. /\ ReadTypes' /\ read'[i] = NoRead
        /\ \A k \in Node : k # i => read'[k] = read[k]
    BY <1>3, <1>6, NoReadType, OwnFields
  <2>3. \A k \in Node : \/ read'[k] = read[k] /\ ServerMoves(k)
                        \/ read'[k] = NoRead /\ job'[k]["S"] = IdleJob
    BY <2>1, <2>2 DEF ServerMoves
  <2>4. Next
    BY <1>6, CrashIsNext
  <2>. QED  BY <1>1, <1>2, <1>3, <1>6, <2>2, <2>3, <2>4, OtherStepKeepsReads
<1>7. ASSUME NEW i \in Node, ReadStep(i)
      PROVE  ReadIsSound'
  <2>1. PICK tl2 : LogChange(tl, tl2)
    BY <1>1, <1>2, <1>7, ReadStepChange
  <2>2. LogInv(tl2)'
    BY <1>1, <1>2, <2>1, LogInvStep
  <2>3. ReadTypes' /\ ReadOK(i)' /\ ToldInv'
    BY <1>1, <1>2, <1>3, <1>7, ReadStepKeeps DEF ReadLogInv
  <2>4. ASSUME NEW k \in Node, k # i
        PROVE  ReadOK(k)'
    <3>1. read'[k] = read[k] /\ job'[k]["S"] = job[k]["S"] /\ disk'[k] = disk[k]
      BY <1>1, <1>2, <1>3, <1>7, <2>4, ReadStepLeavesOthers
    <3>2. ServerMoves(k) /\ OperationKept(k)
      BY <3>1 DEF ServerMoves, OperationKept
    <3>. QED  BY <1>1, <1>2, <1>3, <2>1, <2>2, <3>1, <3>2, ReadsKept
  <2>. QED  BY <2>2, <2>3, <2>4 DEF ReadIsSound, ReadLogInv
<1>. QED  BY <1>4, <1>5, <1>6, <1>7 DEF ReadNext, OwnStep

LEMMA ReadIsSoundAlways ==
    ASSUME NoCompaction
    PROVE  ReadSpec /\ []AppendsFromStart => []ReadIsSound
<1>1. ReadInit => ReadIsSound
  BY ReadLogInit
<1>2. ReadInv /\ ReadIsSound /\ AppendsFromStart' /\ [ReadNext]_readVars => ReadIsSound'
  BY ReadIsSoundStep
<1>. QED  BY <1>1, <1>2, ReadInvIsInvariant, PTL DEF ReadSpec
\* linearizableGet never returns a state older than what any client had been told before
\* the read began: one confirmed majority, one apply position, and whatever was
\* answered in between by other leaders.
THEOREM ReadsReturnCurrentState ==
    ASSUME NoCompaction
    PROVE  ReadSpec /\ []AppendsFromStart => []ReadsAreCurrent
<1>1. ReadIsSound => ReadsAreCurrent
  BY DEF ReadIsSound, ReadLogInv, ToldInv, ReadsAreCurrent
<1>. QED  BY <1>1, ReadIsSoundAlways, PTL

\* The locals of a read keep their types, and the server thread is in a read exactly
\* when the read says so.
THEOREM ReadTypesAreKept ==
    ASSUME NoCompaction
    PROVE  ReadSpec /\ []AppendsFromStart => []ReadTypeOK
<1>1. ReadInv /\ ReadIsSound => ReadTypeOK
  <2>. SUFFICES ASSUME ReadInv, ReadIsSound, NEW i \in Node
                PROVE  /\ read[i].stage \in Stages
                       /\ read[i].todo \subseteq Node \ {i} /\ read[i].acks \subseteq Node
                       /\ read[i].term \in Nat /\ read[i].index \in Nat
                       /\ read[i].since \in Nat
                       /\ JobIdle(i, "S") => At(i, "none")
                       /\ job[i]["S"].pc = "reading" => ~At(i, "none") /\ ~At(i, "noop")
    BY DEF ReadTypeOK
  <2>1. ReadTypes /\ PlaceOK(i) /\ read[i].todo \subseteq Node \ {i}
    BY DEF ReadIsSound, ReadLogInv, ReadOK, ReadInv, ReadersInv
  <2>2. read[i].stage \in Stages
    BY <2>1, ReadFields
  <2>3. JobIdle(i, "S") => At(i, "none")
    BY <2>1, <2>2 DEF PlaceOK, JobIdle, Stages, Steady, At, Places
  <2>4. job[i]["S"].pc = "reading" => ~At(i, "none") /\ ~At(i, "noop")
    BY <2>1 DEF PlaceOK, Places
  <2>. QED  BY <2>1, <2>3, <2>4, ReadFields
<1>. QED  BY <1>1, ReadInvIsInvariant, ReadIsSoundAlways, PTL

\* The guarantees of the log hold in the whole node as well, with the no-ops of reads
\* and the requests of their confirmation rounds.

\* Whatever a client or a read was told has been committed.
THEOREM ReadsKeepAcksCommitted ==
    ASSUME NoCompaction
    PROVE  ReadSpec /\ []AppendsFromStart => []AckedIsCommitted
<1>1. ReadIsSound => AckedIsCommitted
  BY DEF ReadIsSound, LogInv, HistInv
<1>. QED  BY <1>1, ReadIsSoundAlways, PTL

\* Log matching.
THEOREM ReadsKeepLogsMatching ==
    ASSUME NoCompaction
    PROVE  ReadSpec /\ []AppendsFromStart => []LogMatching
<1>1. ReadIsSound => LogMatching
  BY LogMatchingHolds DEF ReadIsSound
<1>. QED  BY <1>1, ReadIsSoundAlways, PTL

\* A leader, which serves reads, has everything that was committed before its term.
THEOREM ReadersAreComplete ==
    ASSUME NoCompaction
    PROVE  ReadSpec /\ []AppendsFromStart => []LeaderCompleteness
<1>1. ReadInv /\ ReadIsSound => LeaderCompleteness
  BY LeaderCompletenessHolds DEF ReadInv, ReadIsSound
<1>. QED  BY <1>1, ReadInvIsInvariant, ReadIsSoundAlways, PTL

\* Two nodes that have applied as far as a read asks for have applied the same: the
\* value of a read is determined by its apply position.
THEOREM ReadsSeeOneState ==
    ASSUME NoCompaction
    PROVE  ReadSpec /\ []AppendsFromStart => []StateMachineSafety
<1>1. ReadInv /\ ReadIsSound => StateMachineSafety
  BY StateMachineSafetyHolds DEF ReadInv, ReadIsSound
<1>. QED  BY <1>1, ReadInvIsInvariant, ReadIsSoundAlways, PTL
=============================================================================
