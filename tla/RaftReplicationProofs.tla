----------------------- MODULE RaftReplicationProofs -----------------------
(***************************************************************************)
(* RaftReplication implements RaftElection: each step is a step of the     *)
(* election or leaves it alone.  So what RaftElectionProofs shows holds of *)
(* the system with its log, its two replicating threads and its late       *)
(* requests, whatever the values of the constants.                         *)
(***************************************************************************)
EXTENDS RaftReplication, RaftElectionProofs

\* What RpcInv and the refinement are proved from.
Inv == ElectionInv /\ RpcInv

\* A step of this module as RaftElection sees it.
ElectionStep == [ElectionNext]_electionVars

-----------------------------------------------------------------------------
(***************************************************************************)
(* Helpers.                                                                *)
(***************************************************************************)

LEMMA FirstPeerIsMember ==
    ASSUME NEW S, S # {}
    PROVE  FirstPeer(S) \in S
  BY DEF FirstPeer

LEMMA UpToDateIsBoolean ==
    ASSUME NEW pos, NEW d
    PROVE  UpToDate(pos, d) \in BOOLEAN
  BY DEF UpToDate

\* Only one job changes, and it keeps its fields.
LEMMA JobAfter ==
    ASSUME JobsInv, NEW i \in Node, NEW t \in Threads, NEW j, SetJob(i, t, j)
    PROVE  /\ DOMAIN job' = Node
           /\ \A k \in Node : DOMAIN job'[k] = Threads
           /\ job'[i][t] = j
           /\ \A k \in Node, u \in Threads :
                k # i \/ u # t => job'[k][u] = job[k][u]
  BY DEF JobsInv, SetJob

\* What is still true of requests and replies after a step of the election.
LEMMA Grows ==
    ASSUME ElectionInv, ElectionStep
    PROVE  /\ elected \subseteq elected'
           /\ \A j \in Node : currentTerm'[j] >= currentTerm[j]
           /\ \A j \in Node : currentTerm[j] \in Nat /\ currentTerm'[j] \in Nat
<1>1. StepFacts /\ ElectionTypeOK'
  BY FactsNext, TypeStep DEF ElectionStep, ElectionInv
<1>2. elected \subseteq elected'
  BY <1>1, ElectionMonotone
<1>. QED  BY <1>1, <1>2 DEF StepFacts, ElectionInv, ElectionTypeOK

LEMMA StillNamesLeader ==
    ASSUME elected \subseteq elected', NEW m, NamesLeader(m)
    PROVE  NamesLeader(m)'
  BY DEF NamesLeader

\* A leader names itself in the requests it builds.
LEMMA LeaderNamesItself ==
    ASSUME ElectionInv, NEW i \in Node, state[i] = "Leader",
           NEW m, m.from = i, m.term = currentTerm[i], m.to \in Node \ {i}
    PROVE  NamesLeader(m)
  BY DEF ElectionInv, LeaderInv, NamesLeader

-----------------------------------------------------------------------------
(***************************************************************************)
(* Every action is a step of the election, or none.                        *)
(***************************************************************************)

\* The receiver of a request either refuses it or follows an elected leader.
LEMMA HandleIsElectionStep ==
    ASSUME Inv, NEW m, NamesLeader(m), Handle(m)
    PROVE  ElectionStep
<1>1. CASE UNCHANGED electionVars
  BY <1>1 DEF ElectionStep
<1>2. CASE Accept(m)
  <2>1. PICK e \in elected : e.leader = m.from /\ e.term = m.term
    BY DEF NamesLeader
  <2>2. e.leader # m.to /\ m.to \in Node
    BY <2>1 DEF NamesLeader
  <2>3. m.term \in Nat /\ currentTerm[m.to] \in Nat
    BY <2>1, <2>2 DEF Inv, ElectionInv, ElectionTypeOK, Elections
  <2>4. HandleLeaderRpc(m.to, e)
    BY <1>2, <2>1, <2>2, <2>3 DEF Accept, Stale, HandleLeaderRpc
  <2>. QED  BY <2>2, <2>4 DEF ElectionStep, ElectionNext
<1>3. UNCHANGED electionVars \/ Accept(m)
  BY DEF Handle, HandleAppendEntries, HandleInstallSnapshot, Refuse
<1>. QED  BY <1>1, <1>2, <1>3

LEMMA ReceiveReplyIsElectionStep ==
    ASSUME Inv, NEW i \in Node, NEW t \in Threads, ReceiveReply(i, t)
    PROVE  ElectionStep
<1> DEFINE me == job[i][t]
<1>1. CASE UNCHANGED electionVars
  BY <1>1 DEF ElectionStep
<1>2. CASE LearnTerm(i, me.reply.term)
  <2>1. me.pc = "answered"
    BY DEF ReceiveReply
  <2>2. me.req.to \in Node
    BY <2>1 DEF Inv, RpcInv, RequestsInv, NamesLeader
  <2>3. me.reply.term \in 0 .. currentTerm[me.req.to]
    BY <2>1, <2>2 DEF Inv, RpcInv, RepliesInv, ElectionInv, ElectionTypeOK
  <2>. QED  BY <1>2, <2>2, <2>3 DEF ElectionStep, ElectionNext
<1>3. UNCHANGED electionVars \/ LearnTerm(i, me.reply.term)
  BY DEF ReceiveReply
<1>. QED  BY <1>1, <1>2, <1>3

LEMMA NextIsElectionStep ==
    ASSUME Inv, [Next]_vars
    PROVE  ElectionStep
<1>1. CASE UNCHANGED vars
  BY <1>1 DEF vars, ElectionStep
<1>2. ASSUME NEW i \in Node, Campaign(i)
      PROVE  ElectionStep
  BY <1>2 DEF Campaign, ElectionStep, ElectionNext
<1>3. ASSUME NEW i \in Node, AskVote(i)
      PROVE  ElectionStep
  <2>1. FirstPeer(round[i].todo) \in Node
    BY <1>3, FirstPeerIsMember DEF AskVote, Inv, ElectionInv, ElectionTypeOK, Rounds
  <2>. QED  BY <1>3, <2>1 DEF AskVote, ElectionStep, ElectionNext
<1>4. ASSUME NEW i \in Node, LoseVoteCall(i) \/ CountVote(i) \/ Crash(i)
      PROVE  ElectionStep
  BY <1>4 DEF LoseVoteCall, CountVote, Crash, ElectionStep, ElectionNext
<1>5. ASSUME NEW i \in Node, Vote(i)
      PROVE  ElectionStep
  BY <1>5, UpToDateIsBoolean DEF Vote, ElectionStep, ElectionNext
<1>6. ASSUME NEW m \in stray, VoteLate(m)
      PROVE  ElectionStep
  BY <1>6, UpToDateIsBoolean DEF VoteLate, ElectionStep, ElectionNext
<1>7. ASSUME NEW i \in Node, BeginHeartbeat(i) \/ ClientAppend(i) \/ ClientResult(i)
      PROVE  ElectionStep
  BY <1>7 DEF BeginHeartbeat, ClientAppend, ClientResult, ElectionStep
<1>8. ASSUME NEW i \in Node, NEW t \in Threads,
             CheckPeer(i, t) \/ SendRequest(i, t) \/ RequestFails(i, t) \/ EndRound(i, t)
      PROVE  ElectionStep
  BY <1>8 DEF CheckPeer, SendRequest, RequestFails, EndRound, ElectionStep
<1>9. ASSUME NEW i \in Node, NEW t \in Threads, HandleRequest(i, t)
      PROVE  ElectionStep
  BY <1>9, HandleIsElectionStep DEF HandleRequest, Inv, RpcInv, RequestsInv
<1>10. ASSUME NEW m \in late, HandleLate(m)
       PROVE  ElectionStep
  BY <1>10, HandleIsElectionStep DEF HandleLate, Inv, RpcInv, RequestsInv
<1>11. ASSUME NEW i \in Node, NEW t \in Threads, ReceiveReply(i, t)
       PROVE  ElectionStep
  BY <1>11, ReceiveReplyIsElectionStep
<1>. QED
  BY <1>1, <1>2, <1>3, <1>4, <1>5, <1>6, <1>7, <1>8, <1>9, <1>10, <1>11 DEF Next

-----------------------------------------------------------------------------
(***************************************************************************)
(* RpcInv is preserved.                                                    *)
(***************************************************************************)

\* A step that touches no job and sends nothing new.
LEMMA JobsKept ==
    ASSUME Inv, ElectionStep, job' = job, late' \subseteq late
    PROVE  RpcInv'
<1>1. \A m : NamesLeader(m) => NamesLeader(m)'
  BY Grows, StillNamesLeader DEF Inv
<1>2. \A j \in Node : currentTerm'[j] >= currentTerm[j] /\ currentTerm[j] \in Nat
                       /\ currentTerm'[j] \in Nat
  BY Grows DEF Inv
<1>3. JobsInv'
  BY DEF Inv, RpcInv, JobsInv
<1>4. RequestsInv'
  BY <1>1 DEF Inv, RpcInv, RequestsInv
<1>5. RepliesInv'
  BY <1>2 DEF Inv, RpcInv, RepliesInv, RequestsInv, NamesLeader
<1>. QED  BY <1>3, <1>4, <1>5 DEF RpcInv

\* A step that replaces the job of one thread by a well-formed one.
LEMMA JobReplaced ==
    ASSUME Inv, ElectionStep, NEW i \in Node, NEW t \in Threads, NEW j,
           SetJob(i, t, j),
           DOMAIN j = DOMAIN IdleJob,
           j.todo \subseteq Node \ {i},
           j.pc = "send" => j.peer \in Node \ {i},
           j.pc \in {"waiting", "answered"} => NamesLeader(j.req),
           j.pc = "answered" => /\ j.reply.term \in Nat
                                /\ j.reply.term <= currentTerm'[j.req.to],
           \A m \in late' : m \in late \/ NamesLeader(m)
    PROVE  RpcInv'
<1>1. \A m : NamesLeader(m) => NamesLeader(m)'
  BY Grows, StillNamesLeader DEF Inv
<1>2. \A k \in Node : currentTerm'[k] >= currentTerm[k] /\ currentTerm[k] \in Nat
                       /\ currentTerm'[k] \in Nat
  BY Grows DEF Inv
<1>3. /\ DOMAIN job' = Node
      /\ \A k \in Node : DOMAIN job'[k] = Threads
      /\ job'[i][t] = j
      /\ \A k \in Node, u \in Threads : k # i \/ u # t => job'[k][u] = job[k][u]
  BY JobAfter DEF Inv, RpcInv
<1>4. JobsInv'
  BY <1>3 DEF Inv, RpcInv, JobsInv
<1>5. RequestsInv'
  BY <1>1, <1>3 DEF Inv, RpcInv, RequestsInv
<1>6. RepliesInv'
  BY <1>2, <1>3 DEF Inv, RpcInv, RepliesInv, RequestsInv, NamesLeader
<1>. QED  BY <1>4, <1>5, <1>6 DEF RpcInv

\* replicateToPeer returns.
LEMMA NextPeerStep ==
    ASSUME Inv, ElectionStep, NEW i \in Node, NEW t \in Threads, NextPeer(i, t),
           \A m \in late' : m \in late \/ NamesLeader(m)
    PROVE  RpcInv'
<1> DEFINE j == [IdleJob EXCEPT !.pc = "next", !.todo = job[i][t].todo,
                                !.mine = job[i][t].mine]
<1>1. SetJob(i, t, j)
  BY DEF NextPeer
<1>2. DOMAIN j = DOMAIN IdleJob /\ j.pc = "next" /\ j.todo = job[i][t].todo
  BY DEF IdleJob
<1>3. j.todo \subseteq Node \ {i}
  BY <1>2 DEF Inv, RpcInv, JobsInv
<1> HIDE DEF j
<1>. QED  BY <1>1, <1>2, <1>3, JobReplaced

LEMMA BeginStep ==
    ASSUME Inv, ElectionStep, NEW i \in Node, BeginHeartbeat(i) \/ ClientAppend(i)
    PROVE  RpcInv'
<1>1. CASE BeginHeartbeat(i)
  <2> DEFINE j == [IdleJob EXCEPT !.pc = "next", !.todo = PeersOf(i)]
  <2>1. SetJob(i, "H", j) /\ late' = late
    BY <1>1 DEF BeginHeartbeat
  <2>2. DOMAIN j = DOMAIN IdleJob /\ j.pc = "next" /\ j.todo = Node \ {i}
    BY DEF IdleJob, PeersOf
  <2> HIDE DEF j
  <2>. QED  BY <2>1, <2>2, JobReplaced DEF Threads
<1>2. CASE ClientAppend(i)
  <2> DEFINE e == [index |-> LastLogIndex(disk[i]) + 1, term |-> currentTerm[i]]
             j == [IdleJob EXCEPT !.pc = "next", !.todo = PeersOf(i), !.mine = e]
  <2>1. SetJob(i, "S", j) /\ late' = late
    BY <1>2 DEF ClientAppend
  <2>2. DOMAIN j = DOMAIN IdleJob /\ j.pc = "next" /\ j.todo = Node \ {i}
    BY DEF IdleJob, PeersOf
  <2> HIDE DEF j
  <2>. QED  BY <2>1, <2>2, JobReplaced DEF Threads
<1>. QED  BY <1>1, <1>2

LEMMA CheckPeerStep ==
    ASSUME Inv, ElectionStep, NEW i \in Node, NEW t \in Threads, CheckPeer(i, t)
    PROVE  RpcInv'
<1> DEFINE me == job[i][t]
           j == FirstPeer(me.todo)
           kind == IF nextIndex[i][j] <= disk[i].snapIndex THEN "IS" ELSE "AE"
           skip == [me EXCEPT !.todo = @ \ {j}]
           go == [me EXCEPT !.pc = "send", !.todo = @ \ {j}, !.peer = j, !.kind = kind]
<1>1. /\ me.pc = "next" /\ late' = late
      /\ SetJob(i, t, skip) \/ SetJob(i, t, go)
  BY DEF CheckPeer
<1>2. DOMAIN me = DOMAIN IdleJob /\ me.todo \subseteq Node \ {i}
  BY DEF Inv, RpcInv, JobsInv
<1>3. j \in Node \ {i}
  BY <1>2, FirstPeerIsMember DEF CheckPeer
<1>4. DOMAIN skip = DOMAIN IdleJob /\ skip.pc = "next" /\ skip.todo = me.todo \ {j}
  BY <1>1, <1>2 DEF IdleJob
<1>5. /\ DOMAIN go = DOMAIN IdleJob /\ go.pc = "send"
      /\ go.todo = me.todo \ {j} /\ go.peer = j
  BY <1>2 DEF IdleJob
<1> HIDE DEF skip, go, j
<1>6. CASE SetJob(i, t, skip)
  BY <1>1, <1>2, <1>4, <1>6, JobReplaced
<1>7. CASE SetJob(i, t, go)
  BY <1>1, <1>2, <1>3, <1>5, <1>7, JobReplaced
<1>. QED  BY <1>1, <1>6, <1>7

\* The request is built by a node that leads: it names the leader of its term.
LEMMA SendRequestStep ==
    ASSUME Inv, ElectionStep, NEW i \in Node, NEW t \in Threads, SendRequest(i, t)
    PROVE  RpcInv'
<1> DEFINE me == job[i][t]
           m == IF me.kind = "IS" THEN SnapshotRequest(i, me.peer)
                                  ELSE AppendRequest(i, me.peer)
           j == [me EXCEPT !.pc = "waiting", !.req = m]
<1>1. CASE NextPeer(i, t)
  BY <1>1, NextPeerStep DEF SendRequest
<1>2. CASE MaySend(i) /\ SetJob(i, t, j)
  <2>1. /\ DOMAIN me = DOMAIN IdleJob /\ me.todo \subseteq Node \ {i}
        /\ me.peer \in Node \ {i} /\ late' = late
    BY DEF Inv, RpcInv, JobsInv, SendRequest
  <2>2. m.from = i /\ m.term = currentTerm[i] /\ m.to = me.peer
    BY DEF SnapshotRequest, AppendRequest
  <2> HIDE DEF m
  <2>3. NamesLeader(m)
    BY <1>2, <2>1, <2>2, LeaderNamesItself DEF MaySend, Inv
  <2>4. /\ DOMAIN j = DOMAIN IdleJob /\ j.pc = "waiting"
        /\ j.todo = me.todo /\ j.req = m
    BY <2>1 DEF IdleJob
  <2> HIDE DEF j
  <2>. QED  BY <1>2, <2>1, <2>3, <2>4, JobReplaced
<1>3. NextPeer(i, t) \/ (MaySend(i) /\ SetJob(i, t, j))
  BY DEF SendRequest
<1>. QED  BY <1>1, <1>2, <1>3

LEMMA RequestFailsStep ==
    ASSUME Inv, ElectionStep, NEW i \in Node, NEW t \in Threads, RequestFails(i, t)
    PROVE  RpcInv'
<1>1. NamesLeader(job[i][t].req) /\ NextPeer(i, t)
  BY DEF RequestFails, Inv, RpcInv, RequestsInv
<1>2. \A m \in late' : m \in late \/ m = job[i][t].req
  BY DEF RequestFails
<1>. QED  BY <1>1, <1>2, NextPeerStep

LEMMA EndRoundStep ==
    ASSUME Inv, ElectionStep, NEW i \in Node, NEW t \in Threads, EndRound(i, t)
    PROVE  RpcInv'
<1> DEFINE result == [job[i][t] EXCEPT !.pc = "result"]
<1>1. /\ late' = late
      /\ SetJob(i, t, result) \/ SetJob(i, t, IdleJob)
  BY DEF EndRound
<1>2. DOMAIN job[i][t] = DOMAIN IdleJob /\ job[i][t].todo \subseteq Node \ {i}
  BY DEF Inv, RpcInv, JobsInv
<1>3. /\ DOMAIN result = DOMAIN IdleJob /\ result.pc = "result"
      /\ result.todo = job[i][t].todo
  BY <1>2 DEF IdleJob
<1>4. IdleJob.pc = "idle" /\ IdleJob.todo = {}
  BY DEF IdleJob
<1> HIDE DEF result
<1>. QED  BY <1>1, <1>2, <1>3, <1>4, JobReplaced

LEMMA ClientResultStep ==
    ASSUME Inv, ElectionStep, NEW i \in Node, ClientResult(i)
    PROVE  RpcInv'
<1>1. late' = late /\ SetJob(i, "S", IdleJob)
  BY DEF ClientResult
<1>2. IdleJob.pc = "idle" /\ IdleJob.todo = {}
  BY DEF IdleJob
<1>. QED  BY <1>1, <1>2, JobReplaced DEF Threads

\* The reply carries the old term of the receiver, or the one of the request it
\* has just accepted.
LEMMA ReplyTermIsReached ==
    ASSUME Inv, ElectionStep, NEW m, NamesLeader(m), Handle(m)
    PROVE  ReplyTo(m).term \in Nat /\ ReplyTo(m).term <= currentTerm'[m.to]
<1>1. m.to \in Node /\ m.term \in Nat
  BY DEF NamesLeader, Inv, ElectionInv, ElectionTypeOK, Elections
<1>2. /\ currentTerm[m.to] \in Nat /\ currentTerm'[m.to] \in Nat
      /\ currentTerm'[m.to] >= currentTerm[m.to]
  BY <1>1, Grows DEF Inv
<1>3. ReplyTo(m).term = currentTerm[m.to] \/ (~Stale(m) /\ ReplyTo(m).term = m.term)
  BY DEF ReplyTo
<1>4. ~Stale(m) => currentTerm'[m.to] >= m.term
  <2>1. ~Stale(m) => FollowLeader(m.to, m.term, m.from)
    BY DEF Handle, HandleAppendEntries, HandleInstallSnapshot, Refuse, Accept
  <2>2. currentTerm \in [Node -> Nat]
    BY DEF Inv, ElectionInv, ElectionTypeOK
  <2>. QED  BY <1>1, <1>2, <2>1, <2>2 DEF FollowLeader, BecomeFollower
<1>. QED  BY <1>1, <1>2, <1>3, <1>4

LEMMA HandleRequestStep ==
    ASSUME Inv, ElectionStep, NEW i \in Node, NEW t \in Threads, HandleRequest(i, t)
    PROVE  RpcInv'
<1> DEFINE me == job[i][t]
           j == [me EXCEPT !.pc = "answered", !.reply = ReplyTo(me.req)]
<1>1. /\ DOMAIN me = DOMAIN IdleJob /\ me.todo \subseteq Node \ {i}
      /\ NamesLeader(me.req) /\ Handle(me.req)
      /\ late' = late /\ SetJob(i, t, j)
  BY DEF Inv, RpcInv, JobsInv, RequestsInv, HandleRequest
<1>2. /\ DOMAIN j = DOMAIN IdleJob /\ j.pc = "answered" /\ j.todo = me.todo
      /\ j.req = me.req /\ j.reply = ReplyTo(me.req)
  BY <1>1 DEF IdleJob
<1>3. /\ ReplyTo(me.req).term \in Nat
      /\ ReplyTo(me.req).term <= currentTerm'[me.req.to]
  BY <1>1, ReplyTermIsReached
<1> HIDE DEF j
<1>. QED  BY <1>1, <1>2, <1>3, JobReplaced

\* A crash ends the jobs of the node; what it was sending may stay on the way.
LEMMA CrashStep ==
    ASSUME Inv, ElectionStep, NEW i \in Node, Crash(i)
    PROVE  RpcInv'
<1>1. \A m : NamesLeader(m) => NamesLeader(m)'
  BY Grows, StillNamesLeader DEF Inv
<1>2. \A k \in Node : currentTerm'[k] >= currentTerm[k] /\ currentTerm[k] \in Nat
                       /\ currentTerm'[k] \in Nat
  BY Grows DEF Inv
<1>3. /\ DOMAIN job' = Node
      /\ \A k \in Node : DOMAIN job'[k] = Threads
      /\ \A t \in Threads : job'[i][t] = IdleJob
      /\ \A k \in Node \ {i}, t \in Threads : job'[k][t] = job[k][t]
  BY DEF Crash, Inv, RpcInv, JobsInv
<1>4. IdleJob.pc = "idle" /\ IdleJob.todo = {}
  BY DEF IdleJob
<1>5. \A m \in late' : m \in late \/ NamesLeader(m)
  BY DEF Crash, Inv, RpcInv, RequestsInv
<1>6. JobsInv'
  BY <1>3, <1>4 DEF Inv, RpcInv, JobsInv
<1>7. RequestsInv'
  BY <1>1, <1>3, <1>4, <1>5 DEF Inv, RpcInv, RequestsInv
<1>8. RepliesInv'
  BY <1>2, <1>3, <1>4 DEF Inv, RpcInv, RepliesInv, RequestsInv, NamesLeader
<1>. QED  BY <1>6, <1>7, <1>8 DEF RpcInv

LEMMA RpcInvInit == Init => RpcInv
<1>. SUFFICES ASSUME Init PROVE RpcInv
  OBVIOUS
<1>1. late = {} /\ job = [i \in Node |-> [t \in Threads |-> IdleJob]]
  BY DEF Init, ReplicationInit
<1>2. IdleJob.pc = "idle" /\ IdleJob.todo = {}
  BY DEF IdleJob
<1>. QED  BY <1>1, <1>2 DEF RpcInv, JobsInv, RequestsInv, RepliesInv

LEMMA RpcInvStep ==
    ASSUME Inv, [Next]_vars
    PROVE  RpcInv'
<1>. ElectionStep
  BY NextIsElectionStep
<1>1. CASE UNCHANGED vars
  BY <1>1, JobsKept DEF vars, logVars
<1>2. ASSUME NEW i \in Node,
             Campaign(i) \/ AskVote(i) \/ LoseVoteCall(i) \/ CountVote(i) \/ Vote(i)
      PROVE  RpcInv'
  BY <1>2, JobsKept DEF Campaign, AskVote, LoseVoteCall, CountVote, Vote, logVars
<1>3. ASSUME NEW m \in stray, VoteLate(m)
      PROVE  RpcInv'
  BY <1>3, JobsKept DEF VoteLate, logVars
<1>4. ASSUME NEW i \in Node, BeginHeartbeat(i) \/ ClientAppend(i)
      PROVE  RpcInv'
  BY <1>4, BeginStep
<1>5. ASSUME NEW i \in Node, NEW t \in Threads, CheckPeer(i, t)
      PROVE  RpcInv'
  BY <1>5, CheckPeerStep
<1>6. ASSUME NEW i \in Node, NEW t \in Threads, SendRequest(i, t)
      PROVE  RpcInv'
  BY <1>6, SendRequestStep
<1>7. ASSUME NEW i \in Node, NEW t \in Threads, RequestFails(i, t)
      PROVE  RpcInv'
  BY <1>7, RequestFailsStep
<1>8. ASSUME NEW i \in Node, NEW t \in Threads, HandleRequest(i, t)
      PROVE  RpcInv'
  BY <1>8, HandleRequestStep
<1>9. ASSUME NEW m \in late, HandleLate(m)
      PROVE  RpcInv'
  BY <1>9, JobsKept DEF HandleLate
<1>10. ASSUME NEW i \in Node, NEW t \in Threads, ReceiveReply(i, t)
       PROVE  RpcInv'
  BY <1>10, NextPeerStep DEF ReceiveReply
<1>11. ASSUME NEW i \in Node, NEW t \in Threads, EndRound(i, t)
       PROVE  RpcInv'
  BY <1>11, EndRoundStep
<1>12. ASSUME NEW i \in Node, ClientResult(i)
       PROVE  RpcInv'
  BY <1>12, ClientResultStep
<1>13. ASSUME NEW i \in Node, Crash(i)
       PROVE  RpcInv'
  BY <1>13, CrashStep
<1>. QED
  BY <1>1, <1>2, <1>3, <1>4, <1>5, <1>6, <1>7, <1>8, <1>9, <1>10, <1>11, <1>12, <1>13
     DEF Next

-----------------------------------------------------------------------------
(***************************************************************************)
(* The theorems.                                                           *)
(***************************************************************************)

LEMMA ElectionInvStep ==
    ASSUME ElectionInv, ElectionStep
    PROVE  ElectionInv'
<1>1. StepFacts /\ ElectionTypeOK'
  BY FactsNext, TypeStep DEF ElectionStep, ElectionInv
<1>. QED
  BY <1>1, CampaignStep, LeaderStep, PastStep, VotesStep, RivalsStep, HistoryStep,
     SafetyStep DEF ElectionInv

LEMMA InvIsInvariant == Spec => []Inv
<1>1. Init => Inv
  BY InvInit, RpcInvInit DEF Init, Inv
<1>2. Inv /\ [Next]_vars => Inv'
  BY NextIsElectionStep, ElectionInvStep, RpcInvStep DEF Inv
<1>. QED  BY <1>1, <1>2, PTL DEF Spec

\* Requests come from elected leaders and replies from terms that were reached,
\* with two threads, late requests and crashes (replicateToPeer, sendSnapshotToPeer).
THEOREM ReplicationRpcsAreSound == Spec => []RpcInv
<1>1. Inv => RpcInv
  BY DEF Inv
<1>. QED  BY <1>1, InvIsInvariant, PTL

\* Replication implements the election: every step of RaftReplication is a step of
\* RaftElection or leaves roles, terms, votes and leaders alone.
THEOREM ReplicationRefinesElection == Spec => ElectionSpec
<1>1. Init => ElectionInit
  BY DEF Init
<1>2. Inv /\ [Next]_vars => [ElectionNext]_electionVars
  BY NextIsElectionStep DEF ElectionStep
<1>. QED  BY <1>1, <1>2, InvIsInvariant, PTL DEF Spec, ElectionSpec

\* At most one leader per term in the system with its log and its threads.
THEOREM ReplicationElectsOneLeader == Spec => []ElectionSafety
  BY ReplicationRefinesElection, ElectionIsSafe, PTL
=============================================================================
