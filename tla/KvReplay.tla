------------------------------ MODULE KvReplay ------------------------------
(***************************************************************************)
(* The databases of the nodes: committed entries are applied to a LevelDB  *)
(* that survives a crash while lastApplied_ does not, so entries are       *)
(* applied again; InstallSnapshot replaces a database by the leader's      *)
(* present one although it speaks for an older index; and reads are        *)
(* answered from the result (raftCore/raft_node.cpp, stateMachine).        *)
(*                                                                         *)
(* The log is seen from the newest leader: log is its log, len[i] how much *)
(* of it node i stores. That a node elected has every committed entry is   *)
(* taken over from RaftReplication, as is the confirmation of a read from  *)
(* RaftRead: a read begins at the newest leader. An older leader only      *)
(* finishes reads; its requests on the way are in "late".                  *)
(***************************************************************************)
EXTENDS KvStore, FiniteSets

CONSTANTS
    Node,
    Nil,
    Thread,      \* the leader's threads that replicate
    Threshold,   \* snapshotThreshold_
    Starts,      \* bound: the terms in which each node may be elected
    Input,       \* bound: what may be written at each index
    Readers,     \* bound: nodes that may be asked to read
    MaxLate,     \* bound: requests on the way whose caller gave up
    Unsteady     \* bound: nodes that may crash, and that may hear of requests late

ASSUME ReplayAssumption ==
    /\ IsFiniteSet(Node)
    /\ Nil \notin Node
    /\ Threshold \in Nat \ {0}
    /\ Starts \in [Node -> SUBSET Nat]
    /\ Input \in Seq(SUBSET Command)
    /\ Readers \subseteq Node
    /\ MaxLate \in Nat
    /\ Unsteady \subseteq Node

VARIABLES
    log,      \* the newest leader's log
    len,      \* how many entries of log a node stores
    term,     \* the newest leader's term
    leader,   \* the newest leader, Nil if it has crashed
    start,    \* the first index of that leader's own term
    seen,     \* currentTerm_
    next,     \* nextIndex_ of the newest leader
    match,    \* matchIndex_ of the newest leader
    commit,   \* the highest commitIndex_ of any leader so far
    applied,  \* lastApplied_, and commitIndex_
    snap,     \* lastIncludedIndex_
    db,       \* kvStore_
    reach,    \* history: the last entry the contents of db may come from
    job,      \* what each thread of the newest leader is doing
    late,     \* requests on the way without a caller
    reading,  \* the read on each node's server thread
    answer    \* the last value returned to a client

logVars == <<log, len, term, leader, start, seen, commit>>
peerVars == <<next, match, job, late>>
dbVars == <<applied, snap, db, reach>>
readVars == <<reading, answer>>
vars == <<logVars, peerVars, dbVars, readVars>>

Larger(a, b) == IF a > b THEN a ELSE b
Smaller(a, b) == IF a < b THEN a ELSE b

NoRead == [key |-> NoKey, from |-> 0]

NoAnswer == [key |-> NoKey, value |-> Absent]

AppendRequest(j) ==
    [kind |-> "append", to |-> j, term |-> term, prev |-> next[j] - 1,
     last |-> Len(log), commit |-> applied[leader]]

\* The snapshot holds the database as it is now, whatever its index says. (base
\* and reach, for the properties: how far the leader had applied, and db's reach.)
SnapshotRequest(j) ==
    [kind |-> "snapshot", to |-> j, term |-> term, index |-> snap[leader],
     data |-> db[leader], base |-> applied[leader], reach |-> reach[leader]]

NoCall == [kind |-> "none"]

Idle == [stage |-> "idle", msg |-> NoCall, ok |-> FALSE]

ReplayInit ==
    /\ log = <<>>
    /\ len = [i \in Node |-> 0]
    /\ term = 0
    /\ leader = Nil
    /\ start = 1
    /\ seen = [i \in Node |-> 0]
    /\ next = [i \in Node |-> 1]
    /\ match = [i \in Node |-> 0]
    /\ commit = 0
    /\ applied = [i \in Node |-> 0]
    /\ snap = [i \in Node |-> 0]
    /\ db = [i \in Node |-> Empty]
    /\ reach = [i \in Node |-> 0]
    /\ job = [t \in Thread |-> Idle]
    /\ late = {}
    /\ reading = [i \in Node |-> NoRead]
    /\ answer = NoAnswer

-----------------------------------------------------------------------------
(***************************************************************************)
(* Leaders.                                                                *)
(***************************************************************************)

Majority(S) == 2 * Cardinality(S) > Cardinality(Node)

MayBeLate(S) == Cardinality(S) <= MaxLate /\ \A m \in S : m.to \in Unsteady

\* The calls the threads wait in lose their caller; some of them never arrive.
CallersGone(cut) ==
    /\ job' = [t \in Thread |-> Idle]
    /\ \E S \in SUBSET {job[t].msg : t \in {u \in Thread : job[u].stage = "sent"}} :
        /\ MayBeLate(late \cup S)
        /\ late' = {cut[m] : m \in late \cup S}

\* A request for entries, as far as they are those of the next leader.
Shorten(n) ==
    [m \in late \cup {job[t].msg : t \in Thread} |->
        IF m.kind = "append" THEN [m EXCEPT !.last = Smaller(@, n)] ELSE m]

\* Mutant: what the last leader's peers stored is taken for theirs.
InitLeaderState_KeepsMatch(n) ==
    /\ next' = [i \in Node |-> n + 1]
    /\ match' = match

InitLeaderState(n) ==
    /\ next' = [i \in Node |-> n + 1]
    /\ match' = [i \in Node |-> 0]

\* Node l is elected by Q. Entries that l does not have are gone; entries only
\* l has count as written now.
Elect(l, Q) ==
    /\ term + 1 \in Starts[l]
    /\ l # leader
    /\ l \in Q /\ Majority(Q)
    /\ len[l] >= commit
    /\ term' = term + 1
    /\ leader' = l
    /\ seen' = [i \in Node |-> IF i \in Q THEN term + 1 ELSE seen[i]]
    /\ log' = SubSeq(log, 1, len[l])
    /\ len' = [i \in Node |-> Smaller(len[i], len[l])]
    /\ start' = len[l] + 1
    /\ InitLeaderState(len[l])
    /\ CallersGone(Shorten(len[l]))
    /\ reading' = [i \in Node |-> IF i \in Q THEN NoRead ELSE reading[i]]
    /\ UNCHANGED <<commit, dbVars, answer>>

\* A client's write, or a no-op, up to persist().
Write(c) ==
    /\ leader # Nil
    /\ Len(log) < Len(Input)
    /\ c \in Input[Len(log) + 1]
    /\ log' = Append(log, c)
    /\ len' = [len EXCEPT ![leader] = Len(log) + 1]
    /\ UNCHANGED <<term, leader, start, seen, commit, peerVars, dbVars, readVars>>

\* applyCommittedLogs up to index n on node i, with the compaction that follows.
ApplyTo(i, n) ==
    /\ applied' = [applied EXCEPT ![i] = n]
    /\ db' = [db EXCEPT ![i] = Apply(@, log, applied[i], n)]
    /\ reach' = [reach EXCEPT ![i] = Larger(@, n)]
    /\ snap' = [snap EXCEPT ![i] = IF n - @ >= Threshold THEN n ELSE @]

\* updateCommitIndex: the last entry of this term that a majority stores.
Commit(n) ==
    /\ leader # Nil
    /\ n \in Larger(start, applied[leader] + 1) .. Len(log)
    /\ Majority({leader} \cup {j \in Node : match[j] >= n})
    /\ \A x \in n + 1 .. Len(log) :
          ~Majority({leader} \cup {j \in Node : match[j] >= x})
    /\ commit' = n
    /\ ApplyTo(leader, n)
    /\ UNCHANGED <<log, len, term, leader, start, seen, peerVars, readVars>>

-----------------------------------------------------------------------------
(***************************************************************************)
(* Replication.                                                            *)
(***************************************************************************)

\* replicateToPeer: a snapshot if the next entry is compacted, else entries.
Call(t, j) ==
    /\ leader # Nil
    /\ j # leader
    /\ job[t] = Idle
    /\ job' = [job EXCEPT ![t] =
         [stage |-> "sent", ok |-> FALSE,
          msg |-> IF next[j] <= snap[leader] THEN SnapshotRequest(j)
                  ELSE AppendRequest(j)]]
    /\ UNCHANGED <<logVars, next, match, late, dbVars, readVars>>

\* The call fails; the request may still arrive.
CallFails(t) ==
    /\ job[t].stage # "idle"
    /\ job' = [job EXCEPT ![t] = Idle]
    /\ \/ late' = late
       \/ /\ job[t].stage = "sent"
          /\ MayBeLate(late \cup {job[t].msg})
          /\ late' = late \cup {job[t].msg}
    /\ UNCHANGED <<logVars, next, match, dbVars, readVars>>

\* Mutant: a leader that hears of a newer one goes on with its read.
Follow_KeepsRead(m) ==
    /\ seen' = [seen EXCEPT ![m.to] = m.term]
    /\ UNCHANGED reading

\* The receiver is in the sender's term from now on; what it did as a leader of
\* an older one ends.
Follow(m) ==
    /\ seen' = [seen EXCEPT ![m.to] = m.term]
    /\ reading' = [reading EXCEPT ![m.to] = IF seen[m.to] < m.term THEN NoRead ELSE @]

\* handleAppendEntries answers success without a look at the entries.
Ignored(m) == m.prev < snap[m.to]

Success(m) == m.kind = "snapshot" \/ Ignored(m) \/ m.prev <= len[m.to]

\* handleAppendEntries, the part that stores and applies.
TakeEntries(m) ==
    /\ len' = [len EXCEPT ![m.to] = Larger(@, m.last)]
    /\ IF m.commit > applied[m.to] THEN ApplyTo(m.to, m.commit)
       ELSE UNCHANGED dbVars

\* Mutant: the early return for a snapshot that is not newer is missing.
NewSnapshot_Always(m) == TRUE

\* Only the index is compared, not lastApplied_.
NewSnapshot(m) == m.index > snap[m.to]

\* handleInstallSnapshot, the part that installs.
Install(m) ==
    /\ db' = [db EXCEPT ![m.to] = Load(@, m.data)]
    /\ reach' = [reach EXCEPT ![m.to] = m.reach]
    /\ len' = [len EXCEPT ![m.to] = Larger(@, m.index)]
    /\ snap' = [snap EXCEPT ![m.to] = m.index]
    /\ applied' = [applied EXCEPT ![m.to] = Larger(@, m.index)]

\* The whole handler of request m, which is not from an older term.
Accept(m) ==
    /\ Follow(m)
    /\ \/ /\ m.kind = "append" /\ ~Ignored(m) /\ Success(m)
          /\ TakeEntries(m)
       \/ /\ m.kind = "snapshot" /\ NewSnapshot(m)
          /\ Install(m)
       \/ /\ IF m.kind = "append" THEN Ignored(m) \/ ~Success(m) ELSE ~NewSnapshot(m)
          /\ UNCHANGED <<len, dbVars>>
    /\ UNCHANGED <<log, term, leader, start, commit, next, match, answer>>

Handle(t) ==
    /\ job[t].stage = "sent"
    /\ Accept(job[t].msg)
    /\ job' = [job EXCEPT ![t].stage = "answered", ![t].ok = Success(job[t].msg)]
    /\ UNCHANGED late

HandleLate(m) ==
    /\ m \in late
    /\ m.term >= seen[m.to]
    /\ Accept(m)
    /\ late' = late \ {m}
    /\ UNCHANGED job

\* Requests of an older term are refused; nobody waits for the answer.
RefuseLate(m) ==
    /\ m \in late
    /\ m.term < seen[m.to]
    /\ late' = late \ {m}
    /\ UNCHANGED <<logVars, next, match, job, dbVars, readVars>>

\* Back in replicateToPeer or sendSnapshotToPeer.
Receive(t) ==
    LET m == job[t].msg
        stored == IF m.kind = "append" THEN m.last ELSE snap[leader]
    IN
    /\ job[t].stage = "answered"
    /\ IF job[t].ok
       THEN /\ match' = [match EXCEPT ![m.to] = Larger(@, stored)]
            /\ next' = [next EXCEPT ![m.to] =
                 IF m.kind = "append" THEN Larger(match[m.to], stored) + 1
                 ELSE stored + 1]
       ELSE /\ next' = [next EXCEPT ![m.to] =
                 IF @ > snap[leader] + 1 THEN @ - 1 ELSE snap[leader]]
            /\ UNCHANGED match
    /\ job' = [job EXCEPT ![t] = Idle]
    /\ UNCHANGED <<logVars, late, dbVars, readVars>>

-----------------------------------------------------------------------------
(***************************************************************************)
(* Crashes.                                                                *)
(***************************************************************************)

\* Node i dies and restarts: the database, the log and lastIncludedIndex_ stay.
Die(i) ==
    /\ i \in Unsteady
    /\ applied' = [applied EXCEPT ![i] = snap[i]]
    /\ reading' = [reading EXCEPT ![i] = NoRead]
    /\ UNCHANGED <<log, len, term, start, commit, next, match, snap, answer>>

Crash(i) ==
    /\ Die(i)
    /\ IF i = leader
       THEN /\ leader' = Nil
            /\ CallersGone([m \in late \cup {job[t].msg : t \in Thread} |-> m])
       ELSE UNCHANGED <<leader, job, late>>
    /\ UNCHANGED <<seen, db, reach>>

\* It dies in handleInstallSnapshot, after the batch is written and before the
\* state file is.
CrashInInstall(m) ==
    /\ m.kind = "snapshot" /\ m.term >= seen[m.to] /\ NewSnapshot(m)
    /\ Die(m.to)
    /\ seen' = [seen EXCEPT ![m.to] = m.term]
    /\ db' = [db EXCEPT ![m.to] = Load(@, m.data)]
    /\ reach' = [reach EXCEPT ![m.to] = m.reach]
    /\ UNCHANGED leader

CrashInCall(t) ==
    /\ job[t].stage = "sent"
    /\ CrashInInstall(job[t].msg)
    /\ job' = [job EXCEPT ![t] = Idle]
    /\ UNCHANGED late

CrashInLate(m) ==
    /\ m \in late
    /\ CrashInInstall(m)
    /\ late' = late \ {m}
    /\ UNCHANGED job

-----------------------------------------------------------------------------
(***************************************************************************)
(* linearizableGet.                                                        *)
(***************************************************************************)

\* Mutant: an entry of the leader's own term need not be committed.
MayRead_AnyTerm == leader # Nil

\* ensureCurrentTermCommitted
MayRead == leader # Nil /\ applied[leader] >= start

\* The read index is taken: commitIndex_ of a leader whose majority then confirms.
BeginRead(k) ==
    /\ MayRead
    /\ leader \in Readers
    /\ reading[leader] = NoRead
    /\ reading' = [reading EXCEPT ![leader] = [key |-> k, from |-> applied[leader]]]
    /\ answer' = NoAnswer
    /\ UNCHANGED <<logVars, peerVars, dbVars>>

\* The last locked section: still a leader, the database is read.
EndRead(i) ==
    /\ reading[i] # NoRead
    /\ answer' = [key |-> reading[i].key, value |-> db[i][reading[i].key]]
    /\ reading' = [reading EXCEPT ![i] = NoRead]
    /\ UNCHANGED <<logVars, peerVars, dbVars>>

ReplayNext ==
    \/ \E l \in Node, Q \in SUBSET Node : Elect(l, Q)
    \/ \E c \in Command : Write(c)
    \/ \E n \in 1 .. Len(log) : Commit(n)
    \/ \E t \in Thread, j \in Node : Call(t, j)
    \/ \E t \in Thread : CallFails(t)
    \/ \E t \in Thread : Handle(t)
    \/ \E m \in late : HandleLate(m)
    \/ \E m \in late : RefuseLate(m)
    \/ \E t \in Thread : Receive(t)
    \/ \E i \in Node : Crash(i)
    \/ \E t \in Thread : CrashInCall(t)
    \/ \E m \in late : CrashInLate(m)
    \/ \E k \in Key : BeginRead(k)
    \/ \E i \in Node : EndRead(i)

ReplaySpec == ReplayInit /\ [][ReplayNext]_vars

-----------------------------------------------------------------------------
(***************************************************************************)
(* Properties.                                                             *)
(***************************************************************************)

Requests == late \cup {job[t].msg : t \in {u \in Thread : job[u].stage = "sent"}}

SnapshotRequests == {m \in Requests : m.kind = "snapshot"}

Appends == [kind : {"append"}, to : Node, term : Nat, prev : Nat, last : Nat, commit : Nat]

Snapshots == [kind : {"snapshot"}, to : Node, term : Nat, index : Nat,
              data : [Key -> Nat], base : Nat, reach : Nat]

\* Type invariant of the database model.
KvTypeOK ==
    /\ log \in Seq(Command)
    /\ len \in [Node -> Nat]
    /\ term \in Nat /\ start \in Nat \ {0} /\ commit \in Nat
    /\ leader \in Node \cup {Nil}
    /\ seen \in [Node -> Nat]
    /\ next \in [Node -> 0 .. Len(log) + 1]
    /\ match \in [Node -> 0 .. Len(log)]
    /\ applied \in [Node -> Nat]
    /\ snap \in [Node -> Nat]
    /\ db \in [Node -> [Key -> Nat]]
    /\ reach \in [Node -> Nat]
    /\ job \in [Thread -> [stage : {"idle", "sent", "answered"}, ok : BOOLEAN,
                           msg : Appends \cup Snapshots \cup {NoCall}]]
    /\ late \subseteq Appends \cup Snapshots
    /\ reading \in [Node -> [key : Key \cup {NoKey}, from : Nat]]
    /\ answer \in [key : Key \cup {NoKey}, value : Nat]

\* The contents d are those of the first a entries, except for keys that one of
\* the entries a + 1 .. r will set once more.
Reflects(lg, d, a, r) ==
    \A k \in Key : d[k] = Contents(lg, a)[k] \/ Touches(lg, k, a, r)

\* A database is what the applied entries make of it, or ahead of that by entries
\* that are still to be applied: no write is lost and none comes back.
DatabasesReflectLog ==
    \A i \in Node :
        /\ snap[i] <= applied[i] /\ applied[i] <= reach[i] /\ reach[i] <= commit
        /\ Reflects(log, db[i], applied[i], reach[i])

\* The receiver of snapshot m would install it.
IsNews(m) == m.term >= seen[m.to] /\ NewSnapshot(m)

\* A snapshot that will be installed does not take the receiver's database back
\* behind what the receiver has applied.
SnapshotsAreNews ==
    \A m \in SnapshotRequests : IsNews(m) => applied[m.to] <= m.base

-----------------------------------------------------------------------------
(***************************************************************************)
(* The inductive invariant, for a leader that replicates with one thread.  *)
(***************************************************************************)

OneThread == \A t, u \in Thread : t = u

\* A leader has committed an entry of its own, and then everything that ever
\* was, or what was committed precedes its own entries.
PositionsInv ==
    /\ commit <= Len(log)
    /\ \A i \in Node : applied[i] <= len[i] /\ len[i] <= Len(log) /\ seen[i] <= term
    /\ leader # Nil =>
         /\ seen[leader] = term /\ len[leader] = Len(log) /\ start <= Len(log) + 1
         /\ IF applied[leader] >= start THEN applied[leader] = commit ELSE commit < start

\* A leader behind a node does not count it as further behind; one that has not
\* heard of the leader is still taken to be level with it.
NextInv ==
    leader # Nil => \A j \in Node :
        /\ applied[j] <= applied[leader] \/ applied[j] < next[j]
        /\ seen[j] = term \/ next[j] = start

\* Requests carry committed positions and contents that reflect the log.
RequestsInv ==
    \A m \in Requests :
        /\ m.term <= term
        /\ m.kind = "append" =>
             m.commit <= m.last /\ m.commit <= commit /\ m.last <= Len(log)
        /\ m.kind = "snapshot" =>
             /\ m.index <= m.base /\ m.base <= m.reach /\ m.reach <= commit
             /\ Reflects(log, m.data, m.base, m.reach)
        /\ leader # Nil /\ m.term = term =>
             /\ m.to # leader
             /\ m.kind = "append" => m.commit <= applied[leader]
             /\ m.kind = "snapshot" => m.index <= snap[leader] /\ m.base <= applied[leader]

\* What a thread of the leader relies on during a call.
JobInv ==
    \A t \in Thread : job[t].stage # "idle" =>
        LET m == job[t].msg IN
        /\ leader # Nil /\ m # NoCall /\ m.term = term /\ m.to # leader
        /\ m.kind = "append" =>
             m.prev = next[m.to] - 1 /\ start <= m.last + 1 /\ m.last <= Len(log)
        /\ m.kind = "snapshot" =>
             next[m.to] <= snap[leader] /\ applied[m.to] <= applied[leader]
        /\ job[t].stage = "answered" => seen[m.to] = term
        /\ job[t].stage = "answered" /\ ~job[t].ok =>
             m.kind = "append" /\ (applied[m.to] <= applied[leader] \/ applied[m.to] < m.prev)

\* As long as a snapshot would be installed, its receiver is sent nothing but
\* snapshots that are at least as new.
NewsInv ==
    \A m \in SnapshotRequests : leader # Nil /\ m.term = term /\ IsNews(m) =>
        /\ next[m.to] <= snap[leader]
        /\ m \in late => \A t \in Thread :
             job[t].stage # "idle" /\ job[t].msg.to = m.to =>
                 /\ job[t].stage = "sent" /\ job[t].msg.kind = "snapshot"
                 /\ m.index <= job[t].msg.index

\* Entries on their way to the receiver of such a snapshot do not bring it beyond
\* the snapshot.
OvertakenInv ==
    \A m \in SnapshotRequests, a \in Requests :
        a.kind = "append" /\ a.to = m.to /\ a.term <= m.term /\ a.term >= seen[a.to]
              /\ NewSnapshot(m)
            => a.commit <= m.base

\* A node that serves a read has nothing in its database that it has not applied,
\* and no request of its own term comes to it.
ReadingInv ==
    \A i \in Node : reading[i] # NoRead =>
        /\ reading[i].key \in Key
        /\ reading[i].from <= applied[i] /\ reach[i] <= applied[i]
        /\ seen[i] = term => i = leader
        /\ \A m \in Requests : m.to = i => m.term # seen[i]

\* The inductive invariant: everything above. What the nodes have applied, the
\* leader's picture of them, requests of every age, what a waiting thread relies
\* on, and the reads fit together.
ReplayInv ==
    /\ KvTypeOK /\ DatabasesReflectLog /\ SnapshotsAreNews
    /\ PositionsInv /\ NextInv /\ RequestsInv /\ JobInv /\ NewsInv /\ OvertakenInv
    /\ ReadingInv

Register == INSTANCE KvRegister WITH
    Reader <- Node, history <- SubSeq(log, 1, commit), pending <- reading

\* RegisterSpec: clients see one history of writes, and every read a value the
\* key had between the read's beginning and its end.
ImplementsRegister == Register!RegisterSpec
=============================================================================
