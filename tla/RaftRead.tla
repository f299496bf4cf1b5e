------------------------------- MODULE RaftRead -------------------------------
(***************************************************************************)
(* Linearizable reads of raftCore/raft_node.cpp (linearizableGet), added   *)
(* to RaftReplication.  A read runs on the server thread of a node that    *)
(* believes to lead: it makes sure an entry of its term is committed,      *)
(* takes the commit index as its read index, has a round of empty          *)
(* AppendEntries confirm its leadership, waits until the read index is     *)
(* applied and reads the state machine.  Every step is a locked section of *)
(* its own; between two of them the other threads may change the role, the *)
(* term and the commit index.                                              *)
(*                                                                         *)
(* A value is not modelled: what a read returns is determined by how far   *)
(* the node has applied the log (StateMachineSafety).                      *)
(***************************************************************************)
EXTENDS RaftReplication

CONSTANT Readers    \* bound: nodes that clients read from

ASSUME ReadAssumption == Readers \subseteq Node

VARIABLES
    read,    \* the locals of linearizableGet and of the functions it calls
    told     \* history: for every finished read, since and seen

readVars == <<vars, read, told>>

\* Where a read is: between two locked sections, or in the replication of the no-op.
Stages == {"none", "check", "append", "noop", "index", "confirm", "wait", "get"}

\* since: how far clients had seen the log when the read began.
NoRead == [stage |-> "none", term |-> 0, index |-> 0, todo |-> {}, acks |-> {},
           since |-> 0]

ReadInit ==
    /\ Init
    /\ read = [i \in Node |-> NoRead]
    /\ told = {}

\* The furthest entry a client knows of: its own write, or one behind a read.
SeenByClients == Max({0} \cup {e.index : e \in acked} \cup {r.seen : r \in told})

\* The steps of a read that change nothing of the log.
ReadOnly == UNCHANGED <<disk, commitIndex, lastApplied, nextIndex, matchIndex, late,
                        committed, applied, acked>>

\* The server thread is busy with the read, but not in a call.
BusyReading == [IdleJob EXCEPT !.pc = "reading"]

At(i, stage) == read[i].stage = stage

GoTo(i, stage) == read' = [read EXCEPT ![i].stage = stage]

\* linearizableGet returns without a value, at the latest when waitAppliedTo gives up.
Fails(i) ==
    /\ read' = [read EXCEPT ![i] = NoRead]
    /\ SetJob(i, "S", IdleJob)
    /\ UNCHANGED <<electionVars, told>>

\* The role and the term the read began with.
StillLeads(i) == state[i] = "Leader" /\ currentTerm[i] = read[i].term

-----------------------------------------------------------------------------
\* Mutant: whatever is committed was committed in this term.
CommittedInTerm_Always(i) == TRUE

\* The last committed entry is in the log and of the current term.
CommittedInTerm(i) ==
    /\ commitIndex[i] > disk[i].snapIndex
    /\ LogTermAt(disk[i], commitIndex[i]) = currentTerm[i]

\* No read is begun that would need a no-op beyond MaxLog.
BeginRead(i) ==
    /\ i \in Readers
    /\ state[i] = "Leader"
    /\ JobIdle(i, "S")
    /\ MayBegin
    /\ LastLogIndex(disk[i]) < MaxLog \/ CommittedInTerm(i)
    /\ read' = [read EXCEPT ![i] = [NoRead EXCEPT !.stage = "check",
                                    !.term = currentTerm[i], !.since = SeenByClients]]
    /\ SetJob(i, "S", BusyReading)
    /\ UNCHANGED <<electionVars, told>>
    /\ ReadOnly

\* ensureCurrentTermCommitted, first section.
CheckTerm(i) ==
    /\ At(i, "check")
    /\ \/ state[i] # "Leader" /\ Fails(i)
       \/ /\ state[i] = "Leader"
          /\ GoTo(i, IF CommittedInTerm(i) THEN "index" ELSE "append")
          /\ UNCHANGED <<electionVars, job, told>>
    /\ ReadOnly

\* Second section: a no-op of the term the node leads by now.
AppendNoop(i) ==
    LET e == [index |-> LastLogIndex(disk[i]) + 1, term |-> currentTerm[i]] IN
    /\ At(i, "append")
    /\ \/ state[i] # "Leader" /\ Fails(i) /\ UNCHANGED disk
       \/ /\ state[i] = "Leader"
          /\ e.index <= MaxLog
          /\ disk' = [disk EXCEPT ![i].log = Append(@, e)]
          /\ SetJob(i, "S", [IdleJob EXCEPT !.pc = "next", !.todo = PeersOf(i),
                                            !.mine = e])
          /\ GoTo(i, "noop")
          /\ UNCHANGED <<electionVars, told>>
    /\ UNCHANGED <<commitIndex, lastApplied, nextIndex, matchIndex, late,
                   committed, applied, acked>>

\* Third section, after a round of replicateToPeer and updateCommitIndex.
NoopResult(i) ==
    LET me == job[i]["S"] IN
    /\ At(i, "noop")
    /\ me.pc = "result"
    /\ IF /\ commitIndex[i] >= me.mine.index
          /\ LogTermAt(disk[i], commitIndex[i]) = currentTerm[i]
       THEN /\ GoTo(i, "index")
            /\ SetJob(i, "S", BusyReading)
            /\ UNCHANGED <<electionVars, told>>
       ELSE Fails(i)
    /\ ReadOnly

TakeReadIndex(i) ==
    /\ At(i, "index")
    /\ \/ ~StillLeads(i) /\ Fails(i)
       \/ /\ StillLeads(i)
          /\ read' = [read EXCEPT ![i].stage = "confirm", ![i].index = commitIndex[i],
                                  ![i].todo = PeersOf(i), ![i].acks = {i}]
          /\ UNCHANGED <<electionVars, job, told>>
    /\ ReadOnly

-----------------------------------------------------------------------------
(***************************************************************************)
(* sendReadIndexHeartbeats.                                                *)
(***************************************************************************)

EmptyAppend(i, j) ==
    [kind |-> "AE", from |-> i, to |-> j, term |-> currentTerm[i],
     prevIndex |-> LastLogIndex(disk[i]), prevTerm |-> LastLogTerm(disk[i]),
     entries |-> <<>>, commit |-> commitIndex[i]]

\* Mutant: the peers that answered are not counted.
Confirmed_Always(i) == TRUE

\* successCount > totalNodes / 2
Confirmed(i) == IsMajority(read[i].acks)

SendHeartbeat(i) ==
    LET j == FirstPeer(read[i].todo) IN
    /\ At(i, "confirm")
    /\ job[i]["S"].pc = "reading"
    /\ read[i].todo # {}
    /\ ~Confirmed(i)
    /\ \/ ~StillLeads(i) /\ Fails(i)
       \/ /\ StillLeads(i)
          /\ read' = [read EXCEPT ![i].todo = @ \ {j}]
          /\ SetJob(i, "S", [BusyReading EXCEPT !.pc = "waiting", !.peer = j,
                                                !.req = EmptyAppend(i, j)])
          /\ UNCHANGED <<electionVars, told>>
    /\ ReadOnly

HeartbeatFails(i) ==
    LET me == job[i]["S"] IN
    /\ At(i, "confirm")
    /\ me.pc \in {"waiting", "answered"}
    /\ SetJob(i, "S", BusyReading)
    /\ \/ late' = late
       \/ me.pc = "waiting" /\ late' = late \cup {me.req}
    /\ UNCHANGED <<electionVars, read, told, disk, commitIndex, lastApplied,
                   nextIndex, matchIndex, committed, applied, acked>>
    /\ BoundStray

\* A higher term is obeyed whatever the node has become; only then its role and
\* its term are looked at.
HeartbeatReply(i) ==
    LET me == job[i]["S"]
        r == me.reply
    IN
    /\ At(i, "confirm")
    /\ me.pc = "answered"
    /\ \/ /\ r.term > currentTerm[i]
          /\ LearnTerm(i, r.term)
          /\ read' = [read EXCEPT ![i] = NoRead]
          /\ SetJob(i, "S", IdleJob)
          /\ UNCHANGED told
       \/ /\ r.term <= currentTerm[i]
          /\ ~StillLeads(i)
          /\ Fails(i)
       \/ /\ r.term <= currentTerm[i]
          /\ StillLeads(i)
          /\ read' = [read EXCEPT ![i].acks = IF r.success THEN @ \cup {me.peer} ELSE @]
          /\ SetJob(i, "S", BusyReading)
          /\ UNCHANGED <<electionVars, told>>
    /\ ReadOnly

\* The loop over the peers ends at the first majority, or at its end.
EndConfirm(i) ==
    /\ At(i, "confirm")
    /\ job[i]["S"].pc = "reading"
    /\ \/ /\ Confirmed(i)
          /\ GoTo(i, "wait")
          /\ UNCHANGED <<electionVars, job, told>>
       \/ ~Confirmed(i) /\ read[i].todo = {} /\ Fails(i)
    /\ ReadOnly

-----------------------------------------------------------------------------
\* waitAppliedTo polls until the read index is applied or its time is up.
WaitApplied(i) ==
    /\ At(i, "wait")
    /\ \/ /\ StillLeads(i)
          /\ lastApplied[i] >= read[i].index
          /\ GoTo(i, "get")
          /\ UNCHANGED <<electionVars, job, told>>
       \/ ~(StillLeads(i) /\ lastApplied[i] >= read[i].index) /\ Fails(i)
    /\ ReadOnly

ReadValue(i) ==
    /\ At(i, "get")
    /\ \/ ~StillLeads(i) /\ Fails(i)
       \/ /\ StillLeads(i)
          /\ told' = told \cup {[since |-> read[i].since, seen |-> lastApplied[i]]}
          /\ read' = [read EXCEPT ![i] = NoRead]
          /\ SetJob(i, "S", IdleJob)
          /\ UNCHANGED electionVars
    /\ ReadOnly

ReadStep(i) ==
    \/ BeginRead(i)
    \/ CheckTerm(i)
    \/ AppendNoop(i)
    \/ NoopResult(i)
    \/ TakeReadIndex(i)
    \/ SendHeartbeat(i)
    \/ HeartbeatFails(i)
    \/ HeartbeatReply(i)
    \/ EndConfirm(i)
    \/ WaitApplied(i)
    \/ ReadValue(i)

\* Steps of RaftReplication, those of the server thread only outside a read or in
\* the replication of its no-op.
ReplicationStep ==
    \/ \E i \in Node : Campaign(i) \/ AskVote(i) \/ LoseVoteCall(i) \/ CountVote(i) \/ Vote(i)
    \/ \E m \in stray : VoteLate(m)
    \/ \E i \in Node : BeginHeartbeat(i) \/ ClientAppend(i)
    \/ \E i \in Node, t \in Threads :
         \/ HandleRequest(i, t)
         \/ /\ t = "H" \/ ~At(i, "confirm")
            /\ \/ CheckPeer(i, t)
               \/ SendRequest(i, t)
               \/ RequestFails(i, t)
               \/ ReceiveReply(i, t)
               \/ EndRound(i, t)
    \/ \E m \in late : HandleLate(m)
    \/ \E i \in Node : At(i, "none") /\ ClientResult(i)

ReadNext ==
    \/ ReplicationStep /\ UNCHANGED <<read, told>>
    \/ \E i \in Node : Crash(i) /\ read' = [read EXCEPT ![i] = NoRead] /\ UNCHANGED told
    \/ \E i \in Node : ReadStep(i)

ReadSpec == ReadInit /\ [][ReadNext]_readVars

-----------------------------------------------------------------------------
\* Type invariant of the read path.
ReadTypeOK ==
    \A i \in Node :
        /\ read[i].stage \in Stages
        /\ read[i].todo \subseteq Node \ {i} /\ read[i].acks \subseteq Node
        /\ read[i].term \in Nat /\ read[i].index \in Nat /\ read[i].since \in Nat
        /\ JobIdle(i, "S") => At(i, "none")
        /\ job[i]["S"].pc = "reading" => ~At(i, "none") /\ ~At(i, "noop")

\* A read returns a state no older than what any client had been told before the
\* read began, by the answer to a write or by another read, on whatever node.
ReadsAreCurrent == \A r \in told : r.since <= r.seen
=============================================================================
