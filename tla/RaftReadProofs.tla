--------------------------- MODULE RaftReadProofs ---------------------------
(***************************************************************************)
(* RaftRead implements RaftElection as well: the steps of a read leave the *)
(* election alone, but for the higher term a heartbeat may bring back.     *)
(***************************************************************************)
EXTENDS RaftRead, RaftReplicationProofs

\* A read asks peers only.
ReadersInv ==
    /\ DOMAIN read = Node
    /\ \A i \in Node : /\ DOMAIN read[i] = DOMAIN NoRead
                       /\ read[i].todo \subseteq Node \ {i}

ReadInv == Inv /\ ReadersInv

-----------------------------------------------------------------------------
(***************************************************************************)
(* The steps of RaftReplication.                                           *)
(***************************************************************************)

LEMMA ReplicationStepIsNext == ReplicationStep => Next
  BY DEF ReplicationStep, Next

LEMMA CrashIsNext == (\E i \in Node : Crash(i)) => Next
  BY DEF Next

-----------------------------------------------------------------------------
(***************************************************************************)
(* The steps of a read.                                                    *)
(***************************************************************************)

LEMMA HeartbeatReplyIsElectionStep ==
    ASSUME Inv, NEW i \in Node, HeartbeatReply(i)
    PROVE  ElectionStep
<1> DEFINE me == job[i]["S"]
<1>1. CASE UNCHANGED electionVars
  BY <1>1 DEF ElectionStep
<1>2. CASE LearnTerm(i, me.reply.term)
  <2>1. me.pc = "answered" /\ "S" \in Threads
    BY DEF HeartbeatReply, Threads
  <2>2. me.req.to \in Node
    BY <2>1 DEF Inv, RpcInv, RequestsInv, NamesLeader
  <2>3. me.reply.term \in 0 .. currentTerm[me.req.to]
    BY <2>1, <2>2 DEF Inv, RpcInv, RepliesInv, ElectionInv, ElectionTypeOK
  <2>. QED  BY <1>2, <2>2, <2>3 DEF ElectionStep, ElectionNext
<1>3. UNCHANGED electionVars \/ LearnTerm(i, me.reply.term)
  BY DEF HeartbeatReply, Fails
<1>. QED  BY <1>1, <1>2, <1>3

LEMMA ReadStepIsElectionStep ==
    ASSUME Inv, NEW i \in Node, ReadStep(i)
    PROVE  ElectionStep
<1>1. CASE HeartbeatReply(i)
  BY <1>1, HeartbeatReplyIsElectionStep
<1>2. CASE BeginRead(i) \/ CheckTerm(i) \/ AppendNoop(i) \/ NoopResult(i)
             \/ TakeReadIndex(i)
  BY <1>2 DEF BeginRead, CheckTerm, AppendNoop, NoopResult, TakeReadIndex, Fails,
              ElectionStep
<1>3. CASE SendHeartbeat(i) \/ HeartbeatFails(i) \/ EndConfirm(i) \/ WaitApplied(i)
             \/ ReadValue(i)
  BY <1>3 DEF SendHeartbeat, HeartbeatFails, EndConfirm, WaitApplied, ReadValue, Fails,
              ElectionStep
<1>. QED  BY <1>1, <1>2, <1>3 DEF ReadStep

\* The server thread is left without a request.
LEMMA ServerQuiet ==
    ASSUME Inv, ElectionStep, NEW i \in Node,
           SetJob(i, "S", IdleJob) \/ SetJob(i, "S", BusyReading),
           \A m \in late' : m \in late \/ NamesLeader(m)
    PROVE  RpcInv'
<1>1. IdleJob.pc = "idle" /\ IdleJob.todo = {}
  BY DEF IdleJob
<1>2. /\ DOMAIN BusyReading = DOMAIN IdleJob
      /\ BusyReading.pc = "reading" /\ BusyReading.todo = {}
  BY DEF BusyReading, IdleJob
<1>. QED  BY <1>1, <1>2, JobReplaced DEF Threads

LEMMA AppendNoopStep ==
    ASSUME Inv, ElectionStep, NEW i \in Node, AppendNoop(i)
    PROVE  RpcInv'
<1> DEFINE e == [index |-> LastLogIndex(disk[i]) + 1, term |-> currentTerm[i]]
           j == [IdleJob EXCEPT !.pc = "next", !.todo = PeersOf(i), !.mine = e]
<1>1. late' = late /\ (SetJob(i, "S", IdleJob) \/ SetJob(i, "S", j))
  BY DEF AppendNoop, Fails
<1>2. DOMAIN j = DOMAIN IdleJob /\ j.pc = "next" /\ j.todo = Node \ {i}
  BY DEF IdleJob, PeersOf
<1> HIDE DEF j
<1>. QED  BY <1>1, <1>2, ServerQuiet, JobReplaced DEF Threads

\* The empty AppendEntries is built in the section that has just found the node to
\* be the leader of the read's term.
LEMMA SendHeartbeatStep ==
    ASSUME Inv, ReadersInv, ElectionStep, NEW i \in Node, SendHeartbeat(i)
    PROVE  RpcInv'
<1> DEFINE p == FirstPeer(read[i].todo)
           m == EmptyAppend(i, p)
           j == [BusyReading EXCEPT !.pc = "waiting", !.peer = p, !.req = m]
<1>1. late' = late
  BY DEF SendHeartbeat, ReadOnly
<1>2. CASE SetJob(i, "S", IdleJob)
  BY <1>1, <1>2, ServerQuiet
<1>3. CASE state[i] = "Leader" /\ SetJob(i, "S", j)
  <2>1. p \in Node \ {i}
    BY FirstPeerIsMember DEF SendHeartbeat, ReadersInv
  <2>2. m.from = i /\ m.term = currentTerm[i] /\ m.to = p
    BY DEF EmptyAppend
  <2> HIDE DEF m
  <2>3. NamesLeader(m)
    BY <1>3, <2>1, <2>2, LeaderNamesItself DEF Inv
  <2>4. DOMAIN j = DOMAIN IdleJob /\ j.pc = "waiting" /\ j.todo = {} /\ j.req = m
    BY DEF BusyReading, IdleJob
  <2> HIDE DEF j
  <2>. QED  BY <1>1, <1>3, <2>3, <2>4, JobReplaced DEF Threads
<1>4. SetJob(i, "S", IdleJob) \/ (state[i] = "Leader" /\ SetJob(i, "S", j))
  BY DEF SendHeartbeat, Fails, StillLeads
<1>. QED  BY <1>2, <1>3, <1>4

LEMMA HeartbeatFailsStep ==
    ASSUME Inv, ElectionStep, NEW i \in Node, HeartbeatFails(i)
    PROVE  RpcInv'
<1>1. NamesLeader(job[i]["S"].req) /\ SetJob(i, "S", BusyReading)
  BY DEF HeartbeatFails, Inv, RpcInv, RequestsInv, Threads
<1>2. \A m \in late' : m \in late \/ m = job[i]["S"].req
  BY DEF HeartbeatFails
<1>. QED  BY <1>1, <1>2, ServerQuiet

LEMMA ReadStepKeepsRpcInv ==
    ASSUME Inv, ReadersInv, NEW i \in Node, ReadStep(i)
    PROVE  RpcInv'
<1>. ElectionStep
  BY ReadStepIsElectionStep
<1>1. CASE AppendNoop(i)
  BY <1>1, AppendNoopStep
<1>2. CASE SendHeartbeat(i)
  BY <1>2, SendHeartbeatStep
<1>3. CASE HeartbeatFails(i)
  BY <1>3, HeartbeatFailsStep
<1>4. CASE \/ late' = late /\ job' = job
           \/ /\ late' = late
              /\ SetJob(i, "S", IdleJob) \/ SetJob(i, "S", BusyReading)
  BY <1>4, JobsKept, ServerQuiet
<1>5. ASSUME BeginRead(i) \/ CheckTerm(i) \/ NoopResult(i) \/ TakeReadIndex(i)
               \/ HeartbeatReply(i) \/ EndConfirm(i) \/ WaitApplied(i) \/ ReadValue(i)
      PROVE  \/ late' = late /\ job' = job
             \/ /\ late' = late
                /\ SetJob(i, "S", IdleJob) \/ SetJob(i, "S", BusyReading)
  BY <1>5 DEF BeginRead, CheckTerm, NoopResult, TakeReadIndex, HeartbeatReply,
              EndConfirm, WaitApplied, ReadValue, Fails, ReadOnly
<1>. QED  BY <1>1, <1>2, <1>3, <1>4, <1>5 DEF ReadStep

\* A read only ever lists peers to ask.
LEMMA ReadStepKeepsReaders ==
    ASSUME ReadersInv, NEW i \in Node, ReadStep(i)
    PROVE  ReadersInv'
<1> DEFINE fields == {"stage", "term", "index", "todo", "acks", "since"}
<1>1. DOMAIN NoRead = fields /\ NoRead.todo = {}
  BY DEF NoRead
<1>2. DOMAIN read = Node /\ DOMAIN read[i] = fields /\ read[i].todo \subseteq Node \ {i}
  BY <1>1 DEF ReadersInv
<1> DEFINE Kept == /\ DOMAIN read' = Node
                   /\ \A k \in Node \ {i} : read'[k] = read[k]
                   /\ DOMAIN read'[i] = fields
                   /\ read'[i].todo \subseteq Node \ {i}
<1>3. Kept
  <2>1. CASE read' = read
    BY <1>2, <2>1
  <2>2. CASE read' = [read EXCEPT ![i] = NoRead]
    BY <1>1, <1>2, <2>2
  <2>3. ASSUME NEW stage, GoTo(i, stage)
        PROVE  Kept
    BY <1>2, <2>3 DEF GoTo
  <2>4. CASE BeginRead(i)
    BY <1>1, <1>2, <2>4 DEF BeginRead, NoRead
  <2>5. CASE TakeReadIndex(i)
    BY <1>2, <2>2, <2>5 DEF TakeReadIndex, PeersOf, Fails
  <2>6. CASE SendHeartbeat(i)
    BY <1>2, <2>2, <2>6 DEF SendHeartbeat, Fails
  <2>7. CASE HeartbeatReply(i)
    BY <1>2, <2>2, <2>7 DEF HeartbeatReply, Fails
  <2>8. CASE CheckTerm(i) \/ NoopResult(i) \/ EndConfirm(i) \/ WaitApplied(i)
               \/ AppendNoop(i)
    BY <2>2, <2>3, <2>8 DEF CheckTerm, NoopResult, EndConfirm, WaitApplied, AppendNoop,
                            Fails
  <2>9. CASE HeartbeatFails(i) \/ ReadValue(i)
    BY <2>1, <2>2, <2>9 DEF HeartbeatFails, ReadValue, Fails
  <2>. QED  BY <2>4, <2>5, <2>6, <2>7, <2>8, <2>9 DEF ReadStep
<1>. QED  BY <1>1, <1>3 DEF ReadersInv

-----------------------------------------------------------------------------
(***************************************************************************)
(* The theorems.                                                           *)
(***************************************************************************)

LEMMA ReadNextIsElectionStep ==
    ASSUME ReadInv, [ReadNext]_readVars
    PROVE  ElectionStep /\ ReadInv'
<1>1. ElectionStep /\ RpcInv' /\ ReadersInv'
  <2>1. CASE UNCHANGED readVars
    BY <2>1, NextIsElectionStep, RpcInvStep DEF readVars, ReadInv, ReadersInv
  <2>2. CASE ReplicationStep /\ UNCHANGED <<read, told>>
    BY <2>2, ReplicationStepIsNext, NextIsElectionStep, RpcInvStep DEF ReadInv, ReadersInv
  <2>3. ASSUME NEW i \in Node, Crash(i), read' = [read EXCEPT ![i] = NoRead]
        PROVE  ElectionStep /\ RpcInv' /\ ReadersInv'
    <3>1. NoRead.todo = {}
      BY DEF NoRead
    <3>2. ReadersInv'
      BY <2>3, <3>1 DEF ReadInv, ReadersInv
    <3>. QED  BY <2>3, <3>2, CrashIsNext, NextIsElectionStep, RpcInvStep DEF ReadInv
  <2>4. ASSUME NEW i \in Node, ReadStep(i)
        PROVE  ElectionStep /\ RpcInv' /\ ReadersInv'
    BY <2>4, ReadStepIsElectionStep, ReadStepKeepsRpcInv, ReadStepKeepsReaders DEF ReadInv
  <2>. QED  BY <2>1, <2>2, <2>3, <2>4 DEF ReadNext
<1>2. ElectionInv'
  BY <1>1, ElectionInvStep DEF ReadInv, Inv
<1>. QED  BY <1>1, <1>2 DEF ReadInv, Inv

LEMMA ReadInvIsInvariant == ReadSpec => []ReadInv
<1>1. ReadInit => ReadInv
  <2>. SUFFICES ASSUME ReadInit PROVE ReadInv
    OBVIOUS
  <2>1. Inv
    BY InvInit, RpcInvInit DEF ReadInit, Init, Inv
  <2>2. NoRead.todo = {}
    BY DEF NoRead
  <2>. QED  BY <2>1, <2>2 DEF ReadInit, ReadInv, ReadersInv
<1>2. ReadInv /\ [ReadNext]_readVars => ReadInv'
  BY ReadNextIsElectionStep
<1>. QED  BY <1>1, <1>2, PTL DEF ReadSpec

\* Requests come from elected leaders and replies from terms that were reached,
\* with two threads, reads, late requests and crashes (replicateToPeer,
\* sendSnapshotToPeer, sendReadIndexHeartbeats).
THEOREM RpcsAreSound == ReadSpec => []RpcInv
<1>1. ReadInv => RpcInv
  BY DEF ReadInv, Inv
<1>. QED  BY <1>1, ReadInvIsInvariant, PTL

\* The whole node implements the election: every step of RaftRead is a step of
\* RaftElection or leaves roles, terms, votes and leaders alone.
THEOREM ReadsRefineElection == ReadSpec => ElectionSpec
<1>1. ReadInit => ElectionInit
  BY DEF ReadInit, Init
<1>2. ReadInv /\ [ReadNext]_readVars => [ElectionNext]_electionVars
  BY ReadNextIsElectionStep DEF ElectionStep
<1>. QED  BY <1>1, <1>2, ReadInvIsInvariant, PTL DEF ReadSpec, ElectionSpec

\* At most one leader per term in the whole node: log, threads, snapshots, reads,
\* late requests and crashes.
THEOREM ReadsElectOneLeader == ReadSpec => []ElectionSafety
  BY ReadsRefineElection, ElectionIsSafe, PTL
=============================================================================
