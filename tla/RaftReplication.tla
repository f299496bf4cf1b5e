--------------------------- MODULE RaftReplication ---------------------------
(***************************************************************************)
(* The replicated log of raftCore/raft_node.cpp on top of RaftElection:    *)
(* client writes, AppendEntries, commitment, application, snapshots and    *)
(* InstallSnapshot, with the two threads of a leader that replicate.       *)
(*                                                                         *)
(* The heartbeat thread (H) and the server thread (S, inside leaderPut or  *)
(* leaderDelete) both run replicateToPeer on every peer and then           *)
(* updateCommitIndex.  Each takes the lock for short sections only and     *)
(* blocks in the remote call without it.  The server thread is the only    *)
(* one that answers RPCs: while it runs a client operation its node        *)
(* handles no request at all.                                              *)
(*                                                                         *)
(* An entry is identified by its index and term; its command is left out.  *)
(***************************************************************************)
EXTENDS RaftElection, SequencesExt

CONSTANTS
    SnapshotThreshold, \* snapshotThreshold_
    Starters,          \* bound: nodes whose election timer may fire
    Beaters,           \* bound: nodes whose heartbeat thread is scheduled
    Crashers,          \* bound: nodes that may crash
    MaxLog,            \* bound: no client write is accepted beyond this index
    MaxStray,          \* bound: requests still on the way without a caller
    MaxActive          \* bound: threads at work at once, in the whole cluster

ASSUME ReplicationAssumption ==
    /\ SnapshotThreshold \in Nat \ {0}
    /\ Starters \subseteq Node
    /\ Beaters \subseteq Node
    /\ Crashers \subseteq Node
    /\ MaxLog \in Nat
    /\ MaxStray \in Nat
    /\ MaxActive \in Nat

VARIABLES
    disk,         \* logs_, lastIncludedIndex_, lastIncludedTerm_ (persisted)
    commitIndex,  \* commitIndex_
    lastApplied,  \* lastApplied_
    nextIndex,    \* nextIndex_, by peer
    matchIndex,   \* matchIndex_, by peer
    job,          \* where each replicating thread of each node is
    late,         \* AppendEntries and InstallSnapshot requests without a caller
    committed,    \* history: entries a leader has counted as committed
    applied,      \* history: entries some node has applied
    acked         \* history: entries a client was told are written

logVars == <<disk, commitIndex, lastApplied, nextIndex, matchIndex, job, late,
             committed, applied, acked>>

vars == <<electionVars, logVars>>

Threads == {"H", "S"}

-----------------------------------------------------------------------------
(***************************************************************************)
(* The log: d is the disk of one node.  Positions count from 1 here and    *)
(* from 0 in the code.                                                     *)
(***************************************************************************)

EmptyDisk == [log |-> <<>>, snapIndex |-> 0, snapTerm |-> 0]

PosOf(d, index) == index - d.snapIndex

InLog(d, index) == PosOf(d, index) \in DOMAIN d.log

HasLogAt(d, index) == index = d.snapIndex \/ InLog(d, index)

\* -1: the entry is not there.
LogTermAt(d, index) ==
    CASE index = 0 -> 0
      [] index # 0 /\ index = d.snapIndex -> d.snapTerm
      [] index # 0 /\ index # d.snapIndex /\ InLog(d, index) ->
            d.log[PosOf(d, index)].term
      [] OTHER -> -1

LastLogIndex(d) == IF d.log = <<>> THEN d.snapIndex ELSE Last(d.log).index

LastLogTerm(d) == IF d.log = <<>> THEN d.snapTerm ELSE Last(d.log).term

LastPos(d) == [term |-> LastLogTerm(d), index |-> LastLogIndex(d)]

\* Mutant: the length of the log is not compared.
UpToDate_TermOnly(pos, d) == pos.term >= LastLogTerm(d)

\* isCandidateLogUpToDate
UpToDate(pos, d) ==
    \/ pos.term > LastLogTerm(d)
    \/ pos.term = LastLogTerm(d) /\ pos.index >= LastLogIndex(d)

\* The entries of an AppendEntries request that the local log lacks: beyond its end,
\* or of another term than the entry at their place.
Missing(d, entries) ==
    {k \in DOMAIN entries :
       LET p == PosOf(d, entries[k].index) IN
       /\ entries[k].index > d.snapIndex
       /\ p > Len(d.log) \/ d.log[p].term # entries[k].term}

\* Mutant: the log is cut at the first entry of the request, known or not.
AddEntries_AlwaysCuts(d, entries) ==
    LET above == {k \in DOMAIN entries : entries[k].index > d.snapIndex}
        kept == Min({Len(d.log), PosOf(d, entries[Min(above)].index) - 1})
    IN IF above = {} THEN d
       ELSE [d EXCEPT !.log = SubSeq(@, 1, kept)
                                \o SubSeq(entries, Min(above), Len(entries))]

\* The entries of a request meet the local log: it is cut where the first missing
\* entry goes, and once that one is pushed all later ones are (MCReplication checks
\* this form against the loop of the code).
AddEntries(d, entries) ==
    LET missing == Missing(d, entries)
        first == Min(missing)
        kept == Min({Len(d.log), PosOf(d, entries[first].index) - 1})
    IN IF missing = {} THEN d
       ELSE [d EXCEPT !.log = SubSeq(@, 1, kept) \o SubSeq(entries, first, Len(entries))]

\* Mutant: the last entry of the snapshot stays in the log.
After_KeepsLast(log, index) == SelectSeq(log, LAMBDA e : e.index >= index)

\* The entries that stay when everything up to index becomes a snapshot.
After(log, index) == SelectSeq(log, LAMBDA e : e.index > index)

Compact(d, index, term) ==
    [log |-> After(d.log, index), snapIndex |-> index, snapTerm |-> term]

\* createSnapshot(upto), with the test of maybeCreateSnapshot before it.
MaybeSnapshot(d, upto) ==
    IF upto - d.snapIndex >= SnapshotThreshold /\ LogTermAt(d, upto) >= 0
    THEN Compact(d, upto, LogTermAt(d, upto))
    ELSE d

\* applyCommittedLogs: how far node i gets with disk d and commit index c.  It
\* stops at the first index that is neither in the snapshot nor in the log.
AppliedTo(i, d, c) ==
    LET reached == {k \in lastApplied[i] .. c :
                      \A x \in lastApplied[i] + 1 .. k :
                        x <= d.snapIndex \/ InLog(d, x)}
    IN IF reached = {} THEN lastApplied[i] ELSE Max(reached)

\* Commit up to c on node i with disk d: apply, then maybe take a snapshot.
CommitTo(i, d, c) ==
    LET upto == AppliedTo(i, d, c) IN
    /\ commitIndex' = [commitIndex EXCEPT ![i] = c]
    /\ lastApplied' = [lastApplied EXCEPT ![i] = upto]
    /\ disk' = [disk EXCEPT ![i] = MaybeSnapshot(d, upto)]
    /\ applied' = applied \cup
         {[at |-> x, entry |-> d.log[PosOf(d, x)]] :
            x \in {y \in lastApplied[i] + 1 .. upto : y > d.snapIndex}}

-----------------------------------------------------------------------------
(***************************************************************************)
(* Threads.  pc is where a thread is in replicateToPeer: "next" between    *)
(* two peers, "send" between the two locked sections before the call (R1   *)
(* and R2), "waiting" and "answered" in the call, "result" in the client   *)
(* operation after updateCommitIndex.  mine is the client's own entry.     *)
(***************************************************************************)

NoRequest == [kind |-> "none"]

NoReply == [term |-> 0, success |-> FALSE]

NoEntry == [index |-> 0, term |-> 0]

IdleJob == [pc |-> "idle", todo |-> {}, peer |-> Nil, kind |-> "none",
            req |-> NoRequest, reply |-> NoReply, mine |-> NoEntry]

JobIdle(i, t) == job[i][t].pc = "idle"

\* The server thread answers requests only between two client operations.
ServerFree(j) == JobIdle(j, "S")

\* Threads at work, bounded by MaxActive.
Active == {p \in Node \X Threads : ~JobIdle(p[1], p[2])}
            \cup {<<i, "E">> : i \in {k \in Node : ~ElectionIdle(k)}}

MayBegin == Cardinality(Active) < MaxActive

\* Every node lists its peers in the order of cluster.conf, whichever that is.
FirstPeer(S) == CHOOSE j \in S : TRUE

SetJob(i, t, j) == job' = [job EXCEPT ![i][t] = j]

\* replicateToPeer returns: on to the next peer.
NextPeer(i, t) == SetJob(i, t, [IdleJob EXCEPT !.pc = "next", !.todo = job[i][t].todo,
                                               !.mine = job[i][t].mine])

AppendRequest(i, j) ==
    LET d == disk[i]
        next == nextIndex[i][j]
    IN [kind |-> "AE", from |-> i, to |-> j, term |-> currentTerm[i],
        prevIndex |-> next - 1, prevTerm |-> LogTermAt(d, next - 1),
        entries |-> SubSeq(d.log, Max({1, PosOf(d, next)}),
                           Min({Len(d.log), PosOf(d, LastLogIndex(d))})),
        commit |-> commitIndex[i]]

SnapshotRequest(i, j) ==
    [kind |-> "IS", from |-> i, to |-> j, term |-> currentTerm[i],
     snapIndex |-> disk[i].snapIndex, snapTerm |-> disk[i].snapTerm]

ReplicationInit ==
    /\ disk = [i \in Node |-> EmptyDisk]
    /\ commitIndex = [i \in Node |-> 0]
    /\ lastApplied = [i \in Node |-> 0]
    /\ nextIndex = [i \in Node |-> [j \in Node |-> 1]]
    /\ matchIndex = [i \in Node |-> [j \in Node |-> 0]]
    /\ job = [i \in Node |-> [t \in Threads |-> IdleJob]]
    /\ late = {}
    /\ committed = {}
    /\ applied = {}
    /\ acked = {}

Init == ElectionInit /\ ReplicationInit

-----------------------------------------------------------------------------
(***************************************************************************)
(* Elections, now with the log the votes depend on.                        *)
(***************************************************************************)

BoundStray == Cardinality(stray') + Cardinality(late') <= MaxStray

\* LogPos holds every position a log can reach within the other bounds.
Campaign(i) ==
    /\ i \in Starters
    /\ MayBegin
    /\ LastPos(disk[i]) \in LogPos
    /\ StartElection(i, LastPos(disk[i]))
    /\ UNCHANGED logVars

AskVote(i) ==
    /\ round[i].todo # {}
    /\ CallRequestVote(i, FirstPeer(round[i].todo))
    /\ UNCHANGED logVars

LoseVoteCall(i) == VoteCallFails(i) /\ UNCHANGED logVars /\ BoundStray

\* initLeaderState when the vote makes i leader.
CountVote(i) ==
    /\ ReceiveVote(i)
    /\ IF state'[i] = "Leader" /\ state[i] # "Leader"
       THEN /\ nextIndex' = [nextIndex EXCEPT ![i] =
                               [j \in Node |-> LastLogIndex(disk[i]) + 1]]
            /\ matchIndex' = [matchIndex EXCEPT ![i] = [j \in Node |-> 0]]
       ELSE UNCHANGED <<nextIndex, matchIndex>>
    /\ UNCHANGED <<disk, commitIndex, lastApplied, job, late,
                   committed, applied, acked>>

Vote(i) ==
    LET j == call[i].peer IN
    /\ call[i].status = "sent"
    /\ ServerFree(j)
    /\ HandleVoteCall(i, UpToDate(round[i].pos, disk[j]))
    /\ UNCHANGED logVars

VoteLate(m) ==
    /\ ServerFree(m.to)
    /\ HandleStrayVote(m, UpToDate(m.pos, disk[m.to]))
    /\ UNCHANGED logVars

-----------------------------------------------------------------------------
(***************************************************************************)
(* The leader: replicateToPeer and its callers.                            *)
(***************************************************************************)

\* heartbeatLoop, sendHeartbeats.
BeginHeartbeat(i) ==
    /\ i \in Beaters
    /\ state[i] = "Leader"
    /\ JobIdle(i, "H")
    /\ MayBegin
    /\ SetJob(i, "H", [IdleJob EXCEPT !.pc = "next", !.todo = PeersOf(i)])
    /\ UNCHANGED <<electionVars, disk, commitIndex, lastApplied, nextIndex,
                   matchIndex, late, committed, applied, acked>>

\* leaderPut and leaderDelete: the entry is appended and persisted before anything
\* is sent.
ClientAppend(i) ==
    LET e == [index |-> LastLogIndex(disk[i]) + 1, term |-> currentTerm[i]] IN
    /\ state[i] = "Leader"
    /\ JobIdle(i, "S")
    /\ MayBegin
    /\ e.index <= MaxLog
    /\ disk' = [disk EXCEPT ![i].log = Append(@, e)]
    /\ SetJob(i, "S", [IdleJob EXCEPT !.pc = "next", !.todo = PeersOf(i),
                                      !.mine = e])
    /\ UNCHANGED <<electionVars, commitIndex, lastApplied, nextIndex, matchIndex,
                   late, committed, applied, acked>>

\* R1: leader still? snapshot or entries?
CheckPeer(i, t) ==
    LET me == job[i][t]
        j == FirstPeer(me.todo)
    IN
    /\ me.pc = "next"
    /\ me.todo # {}
    /\ SetJob(i, t,
         IF state[i] # "Leader"
         THEN [me EXCEPT !.todo = @ \ {j}]
         ELSE [me EXCEPT !.pc = "send", !.todo = @ \ {j}, !.peer = j, !.kind =
                 IF nextIndex[i][j] <= disk[i].snapIndex THEN "IS" ELSE "AE"])
    /\ UNCHANGED <<electionVars, disk, commitIndex, lastApplied, nextIndex,
                   matchIndex, late, committed, applied, acked>>

\* Mutant: the role is not looked at again before the request is built.
MaySend_Always(i) == TRUE

MaySend(i) == state[i] = "Leader"

\* R2: the second locked section builds the request from the state it finds, but
\* keeps the choice of R1.
SendRequest(i, t) ==
    LET me == job[i][t] IN
    /\ me.pc = "send"
    /\ IF ~MaySend(i) THEN NextPeer(i, t)
       ELSE SetJob(i, t, [me EXCEPT !.pc = "waiting", !.req =
              IF me.kind = "IS" THEN SnapshotRequest(i, me.peer)
                                ELSE AppendRequest(i, me.peer)])
    /\ UNCHANGED <<electionVars, disk, commitIndex, lastApplied, nextIndex,
                   matchIndex, late, committed, applied, acked>>

RequestFails(i, t) ==
    LET me == job[i][t] IN
    /\ me.pc \in {"waiting", "answered"}
    /\ NextPeer(i, t)
    /\ \/ late' = late
       \/ me.pc = "waiting" /\ late' = late \cup {me.req}
    /\ UNCHANGED <<electionVars, disk, commitIndex, lastApplied, nextIndex,
                   matchIndex, committed, applied, acked>>
    /\ BoundStray

\* R3: the reply, for a leader that has not changed term since it sent.
ReceiveReply(i, t) ==
    LET me == job[i][t]
        j == me.peer
        r == me.reply
        sent == me.req.prevIndex + Len(me.req.entries)
        current == state[i] = "Leader" /\ currentTerm[i] = me.req.term
        match(k) == matchIndex' = [matchIndex EXCEPT ![i][j] = k]
        next(k) == nextIndex' = [nextIndex EXCEPT ![i][j] = k]
        snap == disk[i].snapIndex
    IN
    /\ me.pc = "answered"
    /\ NextPeer(i, t)
    /\ \/ /\ ~current
          /\ UNCHANGED <<electionVars, nextIndex, matchIndex>>
       \/ /\ current /\ r.term > currentTerm[i]
          /\ LearnTerm(i, r.term)
          /\ UNCHANGED <<nextIndex, matchIndex>>
       \/ /\ current /\ r.term <= currentTerm[i]
          /\ me.req.kind = "AE" /\ r.success
          /\ match(Max({matchIndex[i][j], sent}))
          /\ next(Max({matchIndex[i][j], sent}) + 1)
          /\ UNCHANGED electionVars
       \/ /\ current /\ r.term <= currentTerm[i]
          /\ me.req.kind = "AE" /\ ~r.success
          /\ next(IF nextIndex[i][j] > snap + 1 THEN nextIndex[i][j] - 1 ELSE snap)
          /\ UNCHANGED <<electionVars, matchIndex>>
       \/ /\ current /\ r.term <= currentTerm[i]
          /\ me.req.kind = "IS"
          /\ match(Max({matchIndex[i][j], snap}))
          /\ next(snap + 1)
          /\ UNCHANGED electionVars
    /\ UNCHANGED <<disk, commitIndex, lastApplied, late, committed, applied, acked>>

\* Mutant: a peer that stores the entry before counts.
MajorityMatched_OffByOne(i, index) ==
    IsMajority({j \in Node : IF j = i THEN LastLogIndex(disk[i]) >= index
                                      ELSE matchIndex[i][j] >= index - 1})

\* A majority is known to store everything up to index.
MajorityMatched(i, index) ==
    IsMajority({j \in Node : IF j = i THEN LastLogIndex(disk[i]) >= index
                                      ELSE matchIndex[i][j] >= index})

\* Mutant: entries of older terms are counted too.
Committable_AnyTerm(i) ==
    {n \in commitIndex[i] + 1 .. LastLogIndex(disk[i]) :
       InLog(disk[i], n) /\ MajorityMatched(i, n)}

\* What updateCommitIndex may commit: only entries of the leader's own term.
Committable(i) ==
    {n \in commitIndex[i] + 1 .. LastLogIndex(disk[i]) :
       /\ InLog(disk[i], n)
       /\ LogTermAt(disk[i], n) = currentTerm[i]
       /\ MajorityMatched(i, n)}

\* updateCommitIndex at the end of a round; a client operation still has to look
\* at the result.
EndRound(i, t) ==
    LET me == job[i][t]
        c == Max(Committable(i))
    IN
    /\ me.pc = "next"
    /\ me.todo = {}
    /\ SetJob(i, t, IF t = "S" THEN [me EXCEPT !.pc = "result"] ELSE IdleJob)
    /\ IF state[i] = "Leader" /\ Committable(i) # {}
       THEN /\ CommitTo(i, disk[i], c)
            /\ committed' = committed \cup
                 {[entry |-> disk[i].log[PosOf(disk[i], x)], in |-> currentTerm[i]] :
                    x \in {y \in commitIndex[i] + 1 .. c : InLog(disk[i], y)}}
       ELSE UNCHANGED <<disk, commitIndex, lastApplied, committed, applied>>
    /\ UNCHANGED <<electionVars, nextIndex, matchIndex, late, acked>>

\* Mutant: the last entry need not be committed.
Written_OffByOne(i) == commitIndex[i] >= LastLogIndex(disk[i]) - 1

\* leaderPut asks whether everything in its log is committed by now.
Written(i) == commitIndex[i] >= LastLogIndex(disk[i])

\* leaderDelete asks for its own entry only.
Deleted(i) == commitIndex[i] >= job[i]["S"].mine.index

ClientResult(i) ==
    LET me == job[i]["S"] IN
    /\ me.pc = "result"
    /\ SetJob(i, "S", IdleJob)
    /\ acked' \in {IF done THEN acked \cup {me.mine} ELSE acked :
                    done \in {Written(i), Deleted(i)}}
    /\ UNCHANGED <<electionVars, disk, commitIndex, lastApplied, nextIndex,
                   matchIndex, late, committed, applied>>

-----------------------------------------------------------------------------
(***************************************************************************)
(* The follower: handleAppendEntries and handleInstallSnapshot.            *)
(***************************************************************************)

\* Mutant: no request is ever too old.
Stale_Never(m) == FALSE

\* The request comes from a term this node has left: refused, nothing changes.
Stale(m) == m.term < currentTerm[m.to]

Refuse(m) ==
    /\ Stale(m)
    /\ UNCHANGED <<electionVars, disk, commitIndex, lastApplied, applied>>

Accept(m) ==
    /\ ~Stale(m)
    /\ FollowLeader(m.to, m.term, m.from)
    /\ UNCHANGED <<round, call, stray, elected>>

\* Mutant: and so is the last entry of the snapshot.
BelowSnapshot_OrAt(m) == m.prevIndex <= disk[m.to].snapIndex

\* The leader's previous entry is taken for granted below the snapshot: success is
\* reported and the entries of the request are ignored.
BelowSnapshot(m) == m.prevIndex < disk[m.to].snapIndex

\* Mutant: the term of the previous entry is not compared.
Matches_AnyTerm(m) == HasLogAt(disk[m.to], m.prevIndex)

Matches(m) ==
    LET d == disk[m.to] IN
    HasLogAt(d, m.prevIndex) /\ LogTermAt(d, m.prevIndex) = m.prevTerm

\* Mutant: the commit position follows the request in both directions.
Advances_AnyWay(j, m) == m.commit # commitIndex[j]

Advances(j, m) == m.commit > commitIndex[j]

HandleAppendEntries(m) ==
    LET j == m.to
        new == AddEntries(disk[j], m.entries)
    IN
    /\ m.kind = "AE"
    /\ \/ Refuse(m)
       \/ /\ Accept(m)
          /\ BelowSnapshot(m) \/ ~Matches(m)
          /\ UNCHANGED <<disk, commitIndex, lastApplied, applied>>
       \/ /\ Accept(m)
          /\ ~BelowSnapshot(m) /\ Matches(m)
          /\ IF Advances(j, m)
             THEN CommitTo(j, new, Min({m.commit, LastLogIndex(new)}))
             ELSE /\ disk' = [disk EXCEPT ![j] = new]
                  /\ UNCHANGED <<commitIndex, lastApplied, applied>>

\* Every entry beyond the snapshot is kept, whatever its term.
HandleInstallSnapshot(m) ==
    LET j == m.to IN
    /\ m.kind = "IS"
    /\ \/ Refuse(m)
       \/ /\ Accept(m)
          /\ m.snapIndex <= disk[j].snapIndex
          /\ UNCHANGED <<disk, commitIndex, lastApplied, applied>>
       \/ /\ Accept(m)
          /\ m.snapIndex > disk[j].snapIndex
          /\ disk' = [disk EXCEPT ![j] = Compact(@, m.snapIndex, m.snapTerm)]
          /\ commitIndex' = [commitIndex EXCEPT ![j] = Max({@, m.snapIndex})]
          /\ lastApplied' = [lastApplied EXCEPT ![j] = Max({@, m.snapIndex})]
          /\ UNCHANGED applied

\* An accepted request that fails the log check still reports the term from
\* before becomeFollower.
ReplyTo(m) ==
    LET success == ~Stale(m) /\ (m.kind = "IS" \/ BelowSnapshot(m) \/ Matches(m))
    IN [term |-> IF success THEN m.term ELSE currentTerm[m.to], success |-> success]

Handle(m) ==
    /\ ServerFree(m.to)
    /\ HandleAppendEntries(m) \/ HandleInstallSnapshot(m)
    /\ UNCHANGED <<nextIndex, matchIndex, committed, acked>>

HandleRequest(i, t) ==
    LET me == job[i][t] IN
    /\ me.pc = "waiting"
    /\ Handle(me.req)
    /\ SetJob(i, t, [me EXCEPT !.pc = "answered", !.reply = ReplyTo(me.req)])
    /\ UNCHANGED late

\* Nobody waits for the reply any more.
HandleLate(m) ==
    /\ Handle(m)
    /\ late' = late \ {m}
    /\ UNCHANGED job

-----------------------------------------------------------------------------
\* The process dies with all its threads and comes back: loadPersistentState takes
\* the snapshot index for the commit and apply positions.
Crash(i) ==
    LET sent == {job[i][t].req : t \in {x \in Threads : job[i][x].pc = "waiting"}} IN
    /\ i \in Crashers
    /\ Restart(i)
    /\ commitIndex' = [commitIndex EXCEPT ![i] = disk[i].snapIndex]
    /\ lastApplied' = [lastApplied EXCEPT ![i] = disk[i].snapIndex]
    /\ nextIndex' = [nextIndex EXCEPT ![i] = [j \in Node |-> 1]]
    /\ matchIndex' = [matchIndex EXCEPT ![i] = [j \in Node |-> 0]]
    /\ job' = [job EXCEPT ![i] = [t \in Threads |-> IdleJob]]
    /\ \E kept \in SUBSET sent : late' = late \cup kept
    /\ BoundStray
    /\ UNCHANGED <<disk, committed, applied, acked>>

Next ==
    \/ \E i \in Node : Campaign(i)
    \/ \E i \in Node : AskVote(i)
    \/ \E i \in Node : LoseVoteCall(i)
    \/ \E i \in Node : CountVote(i)
    \/ \E i \in Node : Vote(i)
    \/ \E m \in stray : VoteLate(m)
    \/ \E i \in Node : BeginHeartbeat(i)
    \/ \E i \in Node : ClientAppend(i)
    \/ \E i \in Node, t \in Threads : CheckPeer(i, t)
    \/ \E i \in Node, t \in Threads : SendRequest(i, t)
    \/ \E i \in Node, t \in Threads : RequestFails(i, t)
    \/ \E i \in Node, t \in Threads : HandleRequest(i, t)
    \/ \E m \in late : HandleLate(m)
    \/ \E i \in Node, t \in Threads : ReceiveReply(i, t)
    \/ \E i \in Node, t \in Threads : EndRound(i, t)
    \/ \E i \in Node : ClientResult(i)
    \/ \E i \in Node : Crash(i)

Spec == Init /\ [][Next]_vars

-----------------------------------------------------------------------------
(***************************************************************************)
(* Properties.                                                             *)
(***************************************************************************)

Entries == [index : Nat, term : Nat]

\* Type invariant of the log and of the replicating threads.
TypeOK ==
    /\ ElectionTypeOK
    /\ \A i \in Node : /\ disk[i].log \in Seq(Entries)
                       /\ disk[i].snapIndex \in Nat /\ disk[i].snapTerm \in Nat
    /\ commitIndex \in [Node -> Nat]
    /\ lastApplied \in [Node -> Nat]
    /\ nextIndex \in [Node -> [Node -> Nat]]
    /\ matchIndex \in [Node -> [Node -> Nat]]
    /\ \A i \in Node, t \in Threads :
         /\ job[i][t].pc \in {"idle", "next", "send", "waiting", "answered", "result"}
         /\ job[i][t].todo \subseteq Node \ {i}
         /\ job[i][t].pc \in {"waiting", "answered"} =>
              job[i][t].req.from = i /\ job[i][t].req.kind \in {"AE", "IS"}
         /\ job[i][t].mine \in Entries
    /\ \A m \in late : m.kind \in {"AE", "IS"} /\ m.from # m.to
    /\ \A c \in committed : c.entry \in Entries /\ c.in \in Nat
    /\ \A a \in applied : a.entry \in Entries /\ a.at \in Nat
    /\ acked \subseteq Entries

\* Node data d holds entry e: in its log, or behind its snapshot.
Holds(d, e) == e.index <= d.snapIndex \/
    (InLog(d, e.index) /\ d.log[PosOf(d, e.index)] = e)

\* Two logs with the same entry at an index agree on everything before it.
LogMatching ==
    \A i, j \in Node :
        \A p \in DOMAIN disk[i].log, q \in DOMAIN disk[j].log :
            disk[i].log[p] = disk[j].log[q] =>
                \A k \in 1 .. Min({p, q}) - 1 :
                    disk[i].log[p - k] = disk[j].log[q - k]

\* The entry at position p of logs_ is the one logIndexToPos finds there.
LogIsContiguous ==
    \A i \in Node : \A p \in DOMAIN disk[i].log :
        disk[i].log[p].index = disk[i].snapIndex + p

\* A leader elected after an entry was committed has it.
LeaderCompleteness ==
    \A c \in committed, i \in Node :
        state[i] = "Leader" /\ currentTerm[i] >= c.in => Holds(disk[i], c.entry)

\* A committed entry is stored by a majority, whatever crashes, truncations and
\* snapshots follow.
MajorityStored ==
    \A c \in committed : IsMajority({j \in Node : Holds(disk[j], c.entry)})

\* No two nodes ever apply different entries at one index, and none is applied out
\* of place.
StateMachineSafety ==
    \A a, b \in applied :
        /\ a.entry.index = a.at
        /\ a.at = b.at => a.entry = b.entry

\* What a leader believes of a follower is true as long as that follower has not
\* moved to another term: it stores all of the leader's log up to matchIndex_.
MatchIndexIsTrue ==
    \A i, j \in Node :
        i # j /\ state[i] = "Leader" /\ currentTerm[j] = currentTerm[i] =>
            \A p \in DOMAIN disk[i].log :
                disk[i].log[p].index <= matchIndex[i][j]
                    => Holds(disk[j], disk[i].log[p])

\* A client that was told OK wrote an entry that is committed.
AckedIsCommitted ==
    \A e \in acked : \E c \in committed : c.entry = e

\* A node never drops or overwrites an entry it knows to be committed.
CommittedStays ==
    [][\A i \in Node : \A p \in DOMAIN disk[i].log :
         disk[i].log[p].index <= commitIndex[i] => Holds(disk'[i], disk[i].log[p])]_vars

\* The commit and apply positions of a running node never go back.
CommitNeverRegresses ==
    [][\A i \in Node : \/ commitIndex'[i] >= commitIndex[i]
                          /\ lastApplied'[i] >= lastApplied[i]
                       \/ Crash(i)]_vars

-----------------------------------------------------------------------------
(***************************************************************************)
(* What makes a step of this module one of RaftElection.                   *)
(***************************************************************************)

\* Request m comes from the leader elected in its term, and goes to a peer of it.
NamesLeader(m) ==
    /\ m.from \in Node
    /\ m.to \in Node \ {m.from}
    /\ \E e \in elected : e.leader = m.from /\ e.term = m.term

JobsInv ==
    /\ DOMAIN job = Node
    /\ \A i \in Node : DOMAIN job[i] = Threads
    /\ \A i \in Node, t \in Threads :
         /\ DOMAIN job[i][t] = DOMAIN IdleJob
         /\ job[i][t].todo \subseteq Node \ {i}
         /\ job[i][t].pc = "send" => job[i][t].peer \in Node \ {i}

\* No node sends in a term it was not elected in, however late its thread gets to
\* build the request and however long the request travels.
RequestsInv ==
    /\ \A i \in Node, t \in Threads :
         job[i][t].pc \in {"waiting", "answered"} => NamesLeader(job[i][t].req)
    /\ \A m \in late : NamesLeader(m)

\* The term of a reply is one its sender has reached.
RepliesInv ==
    \A i \in Node, t \in Threads : job[i][t].pc = "answered" =>
        /\ job[i][t].reply.term \in Nat
        /\ job[i][t].reply.term <= currentTerm[job[i][t].req.to]

\* Requests come from elected leaders and replies from terms that were reached:
\* a node that obeys either one stays within the election protocol.
RpcInv == JobsInv /\ RequestsInv /\ RepliesInv
=============================================================================
