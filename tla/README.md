# RaftKV in TLA+

TLA+ specifications, TLC instances and TLAPS proofs for RaftKV, a key-value store
replicated with Raft (C++, `src/`). Paths and line numbers below are relative to
`src/src/`; `raft_node.cpp` is `src/src/raftCore/raft_node.cpp`.

## 1. The system

| part | code | state it keeps | operations |
|---|---|---|---|
| election | `raft_node.cpp` 68-254, 283-332 | `state_`, `currentTerm_`, `votedFor_`, `leaderId_`; locals of `startElection` | `electionLoop`/`startElection` (one thread), `handleRequestVote`, `becomeFollower/Candidate/Leader` |
| replication | 256-281, 587-734, 910-1082, 2034-2075 | `logs_`, `commitIndex_`, `lastApplied_`, `nextIndex_`, `matchIndex_` | `heartbeatLoop` (one thread), `leaderPut`, `leaderDelete`, `replicateToPeer`, `handleAppendEntries`, `updateCommitIndex`, `applyCommittedLogs` |
| compaction | 1084-1299 | `lastIncludedIndex_`, `lastIncludedTerm_` | `createSnapshot`, `sendSnapshotToPeer`, `handleInstallSnapshot` |
| reads | 1363-1566 | locals of `linearizableGet` | `ensureCurrentTermCommitted`, `sendReadIndexHeartbeats`, `waitAppliedTo` |
| membership | 1599-1995 | `configState_`, `currentConfig_`, `oldConfig_`, `newConfig_`, `peers_`, `votingMember_`, `leaving_`, `removed_` | `addNode`, `removeNode`, `applyConfigEntry`, `rebuildPeers*` |
| state file | `persistence/storage.cpp` | one text file, rewritten in place | `save`, `load` |
| state machine | `stateMachine/kv_store.cpp` | a LevelDB, which survives crashes | `apply`, `get`, `dump`, `loadFromSnapshot` |
| transport | `rpc/` | connections and buffers | a single-threaded server that calls `handleRpcText`; a blocking client without timeout |
| client library | `client/clerk.cpp` | `servers_`, `leaderHint_` | `put`, `get`, `del`, `addNode`, `removeNode`, each trying server after server |
| front ends | `node_main.cpp`, `client_main.cpp` | - | configuration file, console |

**Threads.** A node has three: the election thread, the heartbeat thread and the
server thread. They share everything under `mu_`, but no lock is held during a remote
call: `startElection`, `replicateToPeer`, `sendSnapshotToPeer` and the read path are
sequences of short locked sections. The server thread handles RPCs *and* runs client
operations (put, delete, get) to their end, remote calls included; while it does, its
node answers nobody.

**Calls.** `TcpClient::sendMessage` opens a connection, sends one request and waits for
one reply, without timeout or retry. A request is therefore handled at most once, but
possibly after its caller gave up or crashed, and any call may fail.

**Crashes.** The term, the vote, the log and the snapshot boundary come back from the
state file; `commitIndex_` and `lastApplied_` restart at the snapshot boundary.

What makes the system hard: two threads of a leader that replicate the same log to the
same peers; state read in one locked section and used in the next; requests handled
late; `becomeFollower` run within the same term; snapshots that move the log's origin
under a thread, and whose data is newer than their index; crashes between the database
and the state file; reads while another node is being elected; configurations that take
effect at different times on different nodes; servers that wait for one another; clients
that send a write again to the next server.

What makes each part correct:

* election: one leader per term over the whole run; a vote for another node is final;
  terms do not go back; `leaderId_` names a leader of the present term;
* replication: committed means stored by a majority, for ever; later leaders have it;
  all nodes apply the same entries; OK to a client means committed;
* compaction: an index still finds its entry; the leader's picture of a follower stays
  true across InstallSnapshot;
* reads: no value older than what clients knew when the read began;
* membership: terms have one leader and nodes apply the same entries although each counts
  majorities in the configuration it has applied; a change starts from the one before it
  and completes;
* state file: what a node promised survives a crash (what comes back is part of every
  model; a file cut off in the middle is not, see section 5);
* state machine: replay and installed snapshots give the state of the log's prefix, and
  clients see one history of writes;
* client library: every operation returns; one that returned true stays. A put may be
  executed twice, as nothing identifies it, but never twice by one leader and never behind
  a later put of its client.

The list of everything in this code that tests would hardly reach, with its lines and
the properties that watch it, is `PROJECT.json`, "hazards".

## 2. The modules

| module | models | status |
|---|---|---|
| `RaftElection` | terms, votes and roles; election thread, vote handling, the term handling common to all leader RPCs, restarts | checked, proved |
| `RaftElectionProofs` | its type invariant, inductive invariant and five properties, for every instance | proved |
| `RaftReplication` | EXTENDS `RaftElection`: log, both replicating threads, commit, apply, snapshots, late requests, crashes | checked, refinement and log safety proved |
| `RaftRead` | EXTENDS `RaftReplication`: linearizable reads on the server thread | checked, refinement and current reads proved |
| `RaftReplicationProofs`, `RaftReadProofs` | both implement `RaftElection`, for every instance | proved |
| `RaftLogProofs` | the log of `RaftReplication`: log matching, leader completeness, commitment and application, without compaction | proved |
| `RaftReadLogProofs` | the same log under the steps of `RaftRead`, and its reads | proved |
| `RaftMembership` | joint consensus: `addNode`, `removeNode`, `applyConfigEntry`, and what a configuration decides | checked, safety proved where majorities meet |
| `RaftMembershipProofs` | its inductive invariants, types and four safety properties | proved |
| `KvStore` | contents of a LevelDB under put, delete, and a snapshot that replaces them | proved with `KvReplay` |
| `KvRegister` | abstract: one history of writes, reads that are current | - |
| `KvReplay` | EXTENDS `KvStore`: databases, replay after a crash, snapshots with newer data, reads; implements `KvRegister` | checked, proved |
| `KvReplayProofs` | its inductive invariant and the refinement, for every instance with one replicating thread | proved |
| `ClientService` | clerks, server threads and heartbeat threads that wait for one another; retries | checked, with liveness; safety proved |
| `ClientServiceProofs` | what clients get: its type invariant and three properties, for every instance | proved |
| `MCElection`, `MCReplication`, `MCOldTerms`, `MCRead`, `MCMembership`, `MCKv`, `MCService` | instances for TLC | |

The election, the log and the reads are composed (`RaftRead` contains everything below
it). The other three look at one question each with the parts below reduced to what the
question needs; each names at its head what it takes over from which module.

### RaftElection

One function per field of `RaftNode`, indexed by node. `round` holds the locals of
`startElection` (term, request, peers not yet asked, votes) and `call` the vote request
its thread is blocked in; `stray` holds vote requests whose caller no longer waits.
`elected` is a history of who became leader, when and by whose votes: election safety is
stated over it, so it speaks about the whole run and not only about leaders that coexist.

| action | code |
|---|---|
| `StartElection` | first section of `startElection` with `becomeCandidate` |
| `CallRequestVote`, `VoteCallFails`, `ReceiveVote` | one turn of its loop over the peers |
| `HandleVoteCall`, `HandleStrayVote` | `handleRequestVote`, for a caller that waits or one that is gone |
| `HandleLeaderRpc` | lines 601-610, the same in `handleInstallSnapshot`: refuse, or follow |
| `LearnTerm` | a reply with a higher term |
| `Restart` | crash and `loadPersistentState` |

The election timeout is not a clock: `StartElection` may happen whenever the thread is
idle and the node is no leader, which includes every order timeouts can produce. The log
enters through the position a request carries (`LogPos`) and the outcome of the
comparison (`logOk`), which is left open; `RaftReplication` fills both in. A crash
between the two saves of one `handleRequestVote` leaves the new term and no vote, which
is the state of a refused request followed by `Restart`.

### RaftReplication

`disk[i]` is the persistent log of node i (`log`, `snapIndex`, `snapTerm`). `job[i][t]`
is the state of thread t ("H" heartbeat, "S" server) in its loop over the peers. The three
locked sections of `replicateToPeer` are `CheckPeer` (does the peer need a snapshot?),
`SendRequest` (build the request) and `ReceiveReply`; `EndRound` is `updateCommitIndex`
with application and compaction; `ClientAppend` and `ClientResult` are the two ends of
`leaderPut` and `leaderDelete`. `HandleRequest` runs the whole of `handleAppendEntries` or
`handleInstallSnapshot` on the receiver, provided its server thread is free
(`ServerFree`); `HandleLate` does so for a request nobody waits for. `Crash` kills all
threads of a node; each request in flight stays or is lost. `committed`, `applied` and
`acked` are histories: what leaders counted as committed, what nodes applied and at which
index, what clients were told.

An entry is a pair of index and term: a leader writes at most one entry at an index in a
term, so the pair identifies the entry and its command adds nothing to these properties.
Peers are visited in one fixed order, as in `cluster.conf`; `FirstPeer` picks one.

`AddEntries` states the effect of the loop over a request's entries at once: the log is cut
at the first entry it lacks and everything from there on is appended. `MCReplication` has
the loop itself, one turn an operator (`AddEntry`), and the assumption `AddEntriesIsTheLoop`
that both agree on small logs, also for requests that start inside the snapshot or leave a
gap; TLC evaluates it before the runs of that module.

### RaftRead

`read[i]` is the position in `linearizableGet` and its helpers; the no-op of
`ensureCurrentTermCommitted` is replicated by the actions of `RaftReplication`. A
confirmation request is an ordinary AppendEntries without entries and is handled by the
same `HandleRequest`. `told` records for each finished read how far clients had seen the
log when it began (`since`) and how far the serving node had applied it (`seen`).

### RaftMembership

| variable | code |
|---|---|
| `config[i]` | `configState_`, `currentConfig_`, `oldConfig_`, `newConfig_`, as sets of nodes |
| `standing[i]` | `votingMember_`, `leaving_`, `removed_`: voter, learner, leaving or removed |
| `log`, `commitIndex`, `matchIndex` | the fields of that name; `lastApplied_` equals `commitIndex_` |
| `round[i]`, `reply[i]` | locals of `startElection`; the answer to the one call a node waits for |
| `admin[i]` | where `addNode` or `removeNode` is on the server thread |
| `restarts[i]` | whether the node may be restarted, once |
| `elected`, `applied`, `finished` | histories: leaders, entries applied (with the term in which), changes reported done |

| action | code |
|---|---|
| `StartElection`, `HandleRequestVote`, `ReceiveVote` | the election thread and the vote handler, with who may campaign, who is heard and which majorities count |
| `HandleAppendEntries`, `ReceiveAppend` | `replicateToPeer` on both sides, with `applyConfigEntry` on the receiver |
| `UpdateCommitIndex` | `updateCommitIndex` with `isMajorityMatchedForEntry` and `applyConfigEntry` |
| `ClientPut` | `leaderPut` |
| `AddNode`, `RemoveNode` | the checks and the begin of `addNode` and `removeNode` |
| `AppendConfigJoint`, `AppendConfigNew`, `FinishChange`, `AbandonChange` | their waits (`waitConfigState`), appends, ends and timeouts |
| `Restart` | restart into `cluster.conf`, with the log of the state file |

Simplified against the modules above: a call is handled at the moment it is sent, a node
has one call under way, `nextIndex_` may have any value (so a request may start anywhere),
nothing is compacted. A configuration takes effect on a node when its entry is *applied*
there, and only CONFIG_JOINT itself is counted with the configurations it carries; whether
that is enough is what the module is about.

### KvStore, KvRegister, KvReplay

A value is the index of the entry that wrote it, so two writes of a key are always told
apart. `Apply(d, lg, a, n)` is `KVStore::apply` of the entries a+1..n: a key holds what
the last of them about it says. `KvReplay` sees the log from the newest leader: `log` is
its log and `len[i]` how much of it node i stores; its own fields are `next`, `match`,
`start` (the first index of its term), and `job`, what its threads do. `applied`, `snap`
and `db` are `lastApplied_` (and `commitIndex_`), `lastIncludedIndex_` and `kvStore_`;
`late` holds requests of callers that are gone, of any leader. `reach[i]` is a history:
the last entry whose effect may already be in the database, beyond `applied[i]` after a
crash or after a snapshot whose data is newer than its index.

| action | code |
|---|---|
| `Elect`, `Write` | a leader with all committed entries (taken over from `RaftElection` and `RaftReplication`); `leaderPut`, `leaderDelete`, the no-op |
| `Commit` | `updateCommitIndex`, with application and compaction |
| `Call`, `CallFails`, `Receive` | `replicateToPeer` and `sendSnapshotToPeer` on the leader |
| `Handle`, `HandleLate`, `RefuseLate` | `handleAppendEntries` and `handleInstallSnapshot`, for a caller that waits or one that is gone |
| `Crash` | process death; `lastApplied_` comes back as `lastIncludedIndex_`, the database stays |
| `CrashInCall`, `CrashInLate` | death in `handleInstallSnapshot`, after `loadFromSnapshot` and before the state file |
| `BeginRead`, `EndRead` | `linearizableGet` (its confirmation is in `RaftRead`) |

`KvRegister` is what clients may rely on: writes take effect in one order (`Extend`), a read
returns what this history said of the key at a moment between its begin and its end
(`Begin`, `End`), or fails (`Fail`). `KvReplay` implements it with the committed part of
the log as history and `reading` as pending reads (`Register`, `ImplementsRegister`).

### ClientService

`clerk[c]` is the loop of `Clerk` (`leaderHint_`, tries, the operation); `queue` holds
requests no server thread has taken yet; `work[s]` is the operation on the server thread
and the peers it still has to ask; `call[s]` is what the server thread ("op") or the
heartbeat thread ("beat") waits for in a blocking call. Logs, terms and indexes are those
of `RaftReplication` without snapshots; an election is one step.

| actions | code |
|---|---|
| `Start`, `Ask`, `GiveUp`, `HangUp` | `Clerk::put`, `del`, `get`: ask server after server; a server that died ends the call |
| `Refuse`, `Begin`, `CallPeer`, `Finish` | a client operation on the server thread: not the leader; append; one peer after the other; the answer |
| `Handle`, `CallFails`, `Receive` | a peer's request, handled when the server thread is free; a peer that died; the reply |
| `Beat`, `BeatCommit` | the heartbeat thread |
| `Elect`, `Crash`, `Restart` | a new leader; process death; start |

## 3. What TLC checks

| run | instance | properties |
|---|---|---|
| `election` | 3 nodes, terms 0-2, any node crashes at any time, any number of stray requests, symmetry; 2.0 M states | `ElectionTypeOK`, `ElectionSafety`, `LeaderIdIsElected`, `ElectionInv`; `VoteStable`, `LeaderYieldsToHigherTerm`, `TermNeverRegresses` |
| `replication` | 3 nodes, 2 entries, one thread at a time; two terms from nothing, or terms 3-4 over two conflicting entries of terms 1 and 2; 2.0 M | `TypeOK`, `LeaderCompleteness`, `LogMatching`, `MajorityStored`, `StateMachineSafety` |
| `snapshots` | 3 nodes, 2 terms, 2 entries, compaction after each entry, a leader that crashes, a late request; 2.2 M | `MatchIndexIsTrue`, `LogIsContiguous` |
| `threads` | 2 nodes, 2 terms, 2 entries, two threads at once, reads, a late request, crashes; 1.2 M | `AckedIsCommitted`, `RpcInv`; `CommittedStays`, `CommitNeverRegresses`, `ElectionSpec` |
| `reads` | 3 nodes, 2 terms, 2 entries, two threads at once without heartbeats; 1.0 M | `ReadTypeOK`, `ReadsAreCurrent` |
| `membership` | a pair that takes in a learner and whose leader may be restarted, or three nodes that let one go; 2 terms, 3 entries; 1.1 M | `MembershipTypeOK`, `OneLeaderPerTerm`, `AppliedAgree`, `LeaderHasApplied`, `ChainedUntilRestart` |
| `databases` | 3 nodes, 2 terms, a put, a delete and a no-op on one key, compaction after each entry, one replicating thread, a late request, one node that crashes, reads; 1.1 M | `KvTypeOK`, `DatabasesReflectLog`, `SnapshotsAreNews`, `ReplayInv`; `ImplementsRegister` |
| `service` | 2 clients (two puts; one get), 3 servers, a leader that may crash and its successor; 0.2 M | `ServiceTypeOK`, `ClientOrder`, `OncePerTerm`, `DoneStays`; `OperationsReturn` |

What each property says is written above it in its module. Two of them are refinements:

* `ElectionSpec`: every step of the composed system (`ReadSpec`, which contains
  `RaftReplication`) is a step of `RaftElection` or leaves its variables alone;
* `ImplementsRegister`: `KvReplay` implements `KvRegister`, so the nodes, databases and
  snapshots look to clients like one register per key.

Both are proved for every instance too (section 4).

**Bounds.** `MaxTerm`, `MaxLog`, `MaxStray` and `MaxLate` (requests on the way without a
caller), `MaxActive` (threads at work in the whole cluster), `Starters`, `Starts`,
`Beaters`, `Crashers`, `Unsteady`, `Readers`, `Joining`, `Leaving` (who may be elected and
in which terms, heartbeat, crash, serve reads, be added, be removed), `PutAt`, `Input`,
`Program` (what is written where, what clients do). Each guards the action that would
exceed it, or limits what it may choose.

Two terms give a leader and its successor; three nodes give a majority that misses one of
them; two entries give a log of which one entry is committed and one is not. The case that
needs more terms, an entry of an old term overwritten after it reached a majority, starts
in `MCOldTerms` from a state two elections in, whose history the module gives, and
continues to term 4. `threads` has two nodes, because with two threads of a leader the
third node multiplies the state space by more than thirty; two nodes are enough for a late
request to meet a newer log, and for a deposed leader to go on reading. In `membership`
three entries are CONFIG_JOINT, CONFIG_NEW and one after them: a put, which is counted in
the new configuration, or the CONFIG_JOINT of the next change. From two nodes to three and
back the majorities of the old and of the new configuration differ most. In `databases` a put, a delete and a no-op of one key tell every order and every
omission apart, and threshold 1 puts each boundary between them; in `service` the
three servers give a majority without the dead leader, and two puts of one client an order
to keep. Bounds only remove behaviours; the runs without a deadlock check are those in
which a bound stops the system.

**Fairness** is assumed in two specifications, where the code's loops give it; all others
are about safety only.

* `FairServiceSpec`: the threads run. A client's or a server thread's operation is a
  bounded number of steps, so one weak-fairness condition for them, and one for the
  heartbeat threads, says that none is suspended for ever. Nothing is assumed of
  elections and crashes, and nothing of a call: it ends when its callee handles it
  or dies, and only then.
* `FairMembershipSpec`: threads run (weak fairness of each node's local steps), and of the
  calls a leader or candidate repeats for ever some get through (strong fairness of a call
  that brings a node forward).

`OperationsReturn` holds under `[]OneServes`, that no two servers serve clients at once.
The condition is not the code's; `circular_wait` shows what happens without it.

**Mutants.** Each property has a mutant of a definition, written next to it and named
`<definition>_<bug>`: a vote given twice, the quorum off by one, the old-term check
missing, the log cut by an old request, CONFIG_NEW that leaves `oldConfig_` behind, and so
on. With the mutant in place TLC finds the property violated in the same instance.

### Where code and documentation part

Four runs are expected to fail; each shows one finding.

| run | what happens |
|---|---|
| `below_snapshot` | `handleAppendEntries` answers success without appending when the request starts below its snapshot (`raft_node.cpp:614`). The leader counts the entries and commits what no majority stores. One thread at a time, no crash. |
| `snapshot_race` | `handleInstallSnapshot` (`raft_node.cpp:1259`) compares a snapshot with `lastIncludedIndex_`, not with `lastApplied_`. Entries sent by the leader's other thread overtake a snapshot on its way; it then replaces the newer database, and the entries in between are not applied again. The run starts after a failover (`AfterFailover`), whose history `MCKv` gives. |
| `circular_wait` | A deposed leader and the new one each serve a put on their only server thread and call each other (`TcpConnection.cpp:79`): neither returns, and neither server answers anybody again. |
| `remove_leader` | A leader that removes itself steps down when CONFIG_JOINT is applied (`raft_node.cpp:1633`); CONFIG_NEW is never appended and the next leader stays in the joint configuration, in which every further change is refused. |

Seen while modelling and not turned into a run:

* both threads of a leader may be refused with the same `nextIndex_` and lower it twice
  (`raft_node.cpp:996`); the next request starts at -1 and is answered with success
  without being looked at;
* the log may be compacted between the first and the second locked section of
  `replicateToPeer` (`raft_node.cpp:933`), which then counts from the wrong origin;
* `votedFor_` is described as the vote of the current term (`README.md:483`), but an RPC of
  that term clears it. This is harmless: `ElectionSafety` holds and is proved;
* the state file is truncated before it is rewritten (`storage.cpp:16`), so a crash in
  between loses the term, the vote and the log that `README.md:33` calls persistent;
* a restarted leader starts the next change from the configuration in `cluster.conf`, not
  from the one the last change has left (`raft_node.cpp:1138`): `ChangesAreChained` holds
  only until the first restart, hence `ChainedUntilRestart`;
* for the same reason restarts can make two majorities that do not meet, although
  `README.md:177` calls `cluster.conf` an address book only. Of five nodes, n4 and then n5
  are removed, and the file still names all five, which `README.md:413` permits. n1 and n2
  commit an entry as a majority of the remaining three; n3, n4 and n5 are restarted, are
  voters of the file's configuration again, elect n3 as a majority of five and commit
  another entry at the same index. `RaftMembership` has this history (five nodes,
  `Leaving = {n4, n5}`, `LaterConf` all five, 16 steps after the removals), so
  `AppliedAgree` does not hold of all its instances; section 4 has the condition under
  which it does.

For the same reasons `MatchIndexIsTrue`, `MajorityStored` and the properties of
`databases` are checked with one replicating thread at a time, or without snapshots: the
passing runs say under which conditions they hold, the failing ones what breaks them.

## 4. What is proved

### Elections

`RaftElectionProofs`, for every finite set of nodes, any `LogPos` and any `MaxTerm`,
from `ElectionAssumption` alone (finite `Node`, `Nil` outside it, `LogPos` not empty):

| theorem | property |
|---|---|
| `ElectionTypes` | `ElectionTypeOK` |
| `ElectionInvariant` | `ElectionInv` |
| `ElectionIsSafe` | `ElectionSafety` |
| `LeaderIdIsSound` | `LeaderIdIsElected` |
| `VotesAreStable` | `VoteStable` |
| `TermsNeverRegress` | `TermNeverRegresses` |
| `LeadersYieldOnlyToHigherTerms` | `LeaderYieldsToHigherTerm` |

**Argument.** `ElectionSafety` is not inductive: it says nothing of votes. `ElectionInv`
adds them. `VoteSpent(v, c, t)` says that v can vote for nobody but c in term t: its term
is higher, or it is t and its vote is c's. `VotesInv`: every vote a candidate holds,
counted or still on its way in a reply, is spent. `RivalsInv`: two candidates of a term
share no voter. `HistoryInv`: the voters of a past election are a majority, are spent, and
none of them is among the votes of a candidate still running in that term. Then a
candidate that reaches a majority in a term that already had a leader would share a voter
with it (`MajoritiesIntersect`, from the cardinality theorems).

The delicate step is `becomeFollower` within a term, which clears `votedFor_` and so
seems to free a vote. It runs only for a node that is a candidate or a leader, whose vote
is its own (`CampaignInv`, `LeaderInv`); and its own vote is lost only for an election it
is leaving: the RPC comes from a leader of that very term. For a leader the case is
impossible, because the sender would be a second leader of the term
(`LeadersYieldOnlyToHigherTerms`).
For a candidate, the rounds it takes part in end with its role (`RoundIsStale`), and the
term's leader already holds a majority of spent votes that the freed vote cannot change;
`SpentForever` carries this over every step. `PastInv` bounds the terms of requests still
on their way.

Each invariant part has a lemma with one step per action (`CampaignStep`, `LeaderStep`,
`PastStep`, `VotesStep`, `RivalsStep`, `HistoryStep`, `SafetyStep`); the `Facts*` lemmas
state once per action what it leaves unchanged.

### The composed node implements the election

`RaftReplicationProofs` and `RaftReadProofs`, for every value of the constants, from the
assumption of `RaftElection`:

| theorem | property |
|---|---|
| `ReplicationRefinesElection` | `Spec` implements `ElectionSpec` |
| `ReplicationRpcsAreSound`, `RpcsAreSound` | `RpcInv`, of `Spec` and of `ReadSpec` |
| `ReadsRefineElection` | `ReadSpec` implements `ElectionSpec` |
| `ReplicationElectsOneLeader`, `ReadsElectOneLeader` | `ElectionSafety`, of `Spec` and of `ReadSpec` |

**Argument.** `RaftElection` lets a node follow only a leader that was elected
(`HandleLeaderRpc` takes an element of `elected`) and learn only a term some node has
reached (`LearnTerm`). In the code both arrive in messages, built and handled in separate
locked sections, perhaps after the sender was deposed or died. The refinement therefore
needs `RpcInv`: every request in a job or in `late` names the leader elected in its term
(`RequestsInv`), and the term of every answer is one its sender has reached
(`RepliesInv`). A request is right when it is built, because the section that builds it
has just tested the role (`SendRequestStep`, `SendHeartbeatStep`), and stays right because
`elected` and the terms only grow (`Grows`). `NextIsElectionStep` and
`ReadNextIsElectionStep` then have one step per action. The contents of the log do not
matter: the outcome of the log comparison is a parameter of `RaftElection`. `Campaign`
has the guard that the last log position is in `LogPos`; with
`LogPos = [term : Nat, index : Nat]` or with the positions of an instance's bounds it
excludes nothing.

### The replicated log

`RaftLogProofs`, for every finite set of nodes and all bounds, with crashes, lost and late
requests and both replicating threads:

| theorem | property |
|---|---|
| `LeadersAreComplete` | `LeaderCompleteness` |
| `NodesApplyTheSame` | `StateMachineSafety` |
| `MajorityKeepsCommitted` | `MajorityStored` |
| `LogsMatch` | `LogMatching` |
| `NodesKeepCommitted` | `CommittedStays` |
| `CommitOnlyAdvances` | `CommitNeverRegresses` |
| `ClientsHearOfCommittedOnly` | `AckedIsCommitted` |
| `MatchIndexIsNeverAhead` | `MatchIndexIsTrue` |
| `LogStaysContiguous` | `LogIsContiguous` |
| `LogTypesAreKept` | `TypeOK` |
| `TurnsKeepRequestsInLog` | `[]ThreadsTakeTurns` implies `[]AppendsFromStart` |

Each but the last has the form `Spec /\ []AppendsFromStart => []P`, for constants with
`NoCompaction`. The two hypotheses exclude the two ways a request can name a previous entry
below the receiver's snapshot index, where `handleAppendEntries` answers success without a
look at the entries (`raft_node.cpp:614`):

* `NoCompaction` is `MaxLog < SnapshotThreshold`: no log gets as long as the threshold, so
  the snapshot index stays 0. Beyond it `MajorityStored` is false; that is the run
  `below_snapshot`. The instances of `replication` and `threads` satisfy it, that of
  `snapshots` does not, and there the properties are checked only.
* `AppendsFromStart` says that no request is built with a `prevLogIndex` of -1. One can be:
  `replicateToPeer` chooses AppendEntries in one locked section and builds the request in
  the next, and after a refusal each of two threads may take one off `nextIndex_` for the
  same position (`raft_node.cpp:996`), the second of them after the first has chosen. It
  takes two threads of one leader to do so. `ThreadsTakeTurns` says that a node never has
  both at work; `TurnsKeepRequestsInLog` shows that this is enough. A node whose heartbeats
  and client operations do not overlap keeps all the theorems.

Everything else the code does is covered, leaders that keep replicating after they were
deposed included.

**Argument.** None of the properties is inductive, and the logs of one state do not say
who wrote what. The invariant `LogInv(tl)` therefore speaks of a ledger: `tl[t]` is the log
the leader of term t had when it last led. `LogIsSound` says that some ledger exists, so
that it need not be a variable of the model. A step extends the ledger by the entry a
leader appends, or by the log of a node that is elected.

* `LedgerInv`, `DiskInv`: every log is made of pieces of the ledger (`Rooted`: each entry
  was written by the leader of its term after the same entries). Log matching is a
  consequence.
* `MessageInv`: every AppendEntries request, in a call or late, is a piece of the ledger of
  its term, and its commit position is covered by commitments.
* `MatchInv`: what a leader counts for a follower, or has a success for that it has not
  counted yet, is stored there while the follower is in that term (`Stored`). A truncation
  by a late request of the same term cannot undo it, as both are pieces of one ledger.
* `ChoosableInv`: take any majority of which everyone either has told the leader that it
  stores the entries up to n (`AckedBy`), or has not left the leader's term behind. Then all
  later leaders, all members in later terms and all candidates they vote for hold entry n
  (`Held`). It is the heart of the proof: whatever a leader may still come to commit is
  already safe from every election. A vote keeps it because of `isCandidateLogUpToDate`
  (`UpToDateHas`), and the entry must be of the leader's own term, which is the term test of
  `updateCommitIndex`.
* `CommittedInv`, `CommitIndexInv`: an entry is committed when it is chosen (`Chosen`, a
  majority that stores and holds it), it remains so, and `commitIndex_` is backed by such
  entries on every node.
* `TermCommitInv`: the commit index of a leader covers what it has committed in its term.
* `HistInv`, `WorkInv`: applied and acknowledged entries are committed ones; the entry of a
  running client operation is still in the log of its node when the operation ends, even
  if the node no longer leads: its server thread handles no request in the meantime.
  `WorkInv` stands beside `LogInv`, because it does not hold of a server thread that reads.

For every action one lemma (`CampaignFacts` to `CrashFacts`) states what it does to the
logs, the votes, the answers, the requests and the commitments (`LogChange`) and to the
client operations (`WorkFacts`); `LogInvStep` and `WorkStep` derive the invariant from these
facts alone.

### The reads

`RaftReadLogProofs`, for every finite set of nodes, any number of reads by any nodes at any
time, and everything `RaftReplication` does in between:

| theorem | property |
|---|---|
| `ReadsReturnCurrentState` | `ReadsAreCurrent` |
| `ReadTypesAreKept` | `ReadTypeOK` |
| `ReadsKeepAcksCommitted`, `ReadsKeepLogsMatching`, `ReadersAreComplete`, `ReadsSeeOneState` | `AckedIsCommitted`, `LogMatching`, `LeaderCompleteness`, `StateMachineSafety` of the whole node |

They have the form `ReadSpec /\ []AppendsFromStart => []P` with `NoCompaction`, as those of
the log; the instance of `reads` satisfies both.

**Argument.** First the log: the no-op of `ensureCurrentTermCommitted` is an append like
another, a confirmation request is one more piece of the leader's ledger, and every other
step of a read leaves the log alone (`ReadStepChange`). So `LogInv` holds of `ReadSpec`.

`ReadsAreCurrent` relates a read that ends to what clients knew when it began, and in
between the node may be deposed, others elected, and writes committed and answered
elsewhere. `SinceOK` is the alternative that survives all of it. Until the read index is
taken, either what clients knew is covered by a commitment of the read's term or an earlier
one (`Covered`), or the read is `Overtaken`: there is a majority all of whose members are
in later terms, and none of which has confirmed the read. From then on, either the read
index covers it, or the read is overtaken.

* When a read begins, the last entry a client knows of is committed (`SeenIsCommitted`). If
  it was committed in a later term than the reader believes to lead, the majority that
  stores it is the one that has moved on (`CoveredOrOvertaken`).
* When the read index is taken, the last committed entry of the leader is of its own term;
  that is what `ensureCurrentTermCommitted` is for (`TermIsCommitted`). Then the commit index
  covers everything that was committed in this term or before (`CommitIndexCovers`).
* An overtaken read stays so (`OvertakenKept`): terms only grow, and a node answers success
  only to a request of a term it has not left (`Answers`).
* A confirmed read was not overtaken: two majorities intersect (`ConfirmedNotOvertaken`).
  The read index is then what counts, and `waitAppliedTo` sees that it is applied.

The section that takes the index, the one that sends each heartbeat and the one that reads
the value test the role again, but not all of those tests are needed: the proof uses the
role in the first two. The read is safe because of its order, index first and round after.

`StageOK`, `PlaceOK` and `OperationOK` carry what the sections so far have established, and
where the server thread is, over the steps of others (`ReadKept`), crashes excepted, which
end the read. Each section has a lemma (`BeginReadKeeps` to `ReadValueKeeps`).

### The databases implement the register

`KvReplayProofs`, for every finite set of nodes, all keys, logs, thresholds, crashes, late
requests and reads, from `ReplayAssumption`, `KeyAssumption` and `OneThread`, that the
leader replicates with one thread:

| theorem | property |
|---|---|
| `ReplayInvHolds` | `ReplayInv`, the inductive invariant |
| `KvTypeHolds` | `KvTypeOK` |
| `DatabasesHold` | `DatabasesReflectLog` |
| `SnapshotsHold` | `SnapshotsAreNews` |
| `ReplayImplementsRegister` | `ImplementsRegister` |

`OneThread` is an assumption about the program that the program does not keep: its
heartbeat and its server thread both replicate. `snapshot_race` shows that the theorems
fail without it. What they show is that nothing else can break the databases: not replay,
not the newer data in a snapshot, not a crash between LevelDB and the state file, not a
request that arrives late.

**Argument.** Contents first. `Reflects(lg, d, a, r)` says that d is what the first a
entries make, except at the keys some entry of a+1..r touches, which may hold a later
outcome. It is established by exact contents, kept by applying the next entries, by
going back to an earlier position (a restart) and by a longer log, and it is exact once the
position reaches r (`ReflectsExactly`, `ReflectsPrefix`, `ReflectsBack`, `ReflectsApply`).
The entry that decides a key is the last one that touches it, so no induction over logs is
needed: the least element of a set of naturals is enough (`NatMin`, `LastTouchExists`).

`DatabasesReflectLog` is not inductive, since a snapshot on its way replaces a database.
`SnapshotsAreNews` says that one that would be installed contains all its receiver has
applied; it holds because of the other parts of `ReplayInv`:

* `PositionsInv`: a leader that has committed an entry of its own has applied all that was
  ever committed;
* `NextInv`: the leader does not place a peer that is ahead of it below its own position;
* `RequestsInv`: requests of every age carry committed positions and contents that reflect
  the log;
* `JobInv`: what the leader's thread assumes when the answer comes back;
* `NewsInv`, `OvertakenInv`: while a snapshot would be installed, its receiver is sent
  nothing but snapshots at least as new, and entries on their way do not bring it beyond;
* `ReadingInv`: the database of a node that serves a read is not ahead of what it has
  applied.

Each action has a lemma; handlers and crashes share `ReceiverStep`, which collects what
follows from changing one receiver only. The refinement maps `Commit` to `Extend`,
`BeginRead` to `Begin`, `EndRead` to `End` with the serving node's `applied` as the moment
(its database is then exactly that prefix, by `ReadingInv`), `Elect`, the handlers and
crashes to `Fail` or a stutter, and everything else to a stutter.

### The clients

`ClientServiceProofs`, for every cluster and every set of clients, operations, elections and
crashes, from `ServiceAssumption` alone (the address file names each of the servers once,
and there is one: without a server the clerk returns at once, `clerk.cpp:57`):

| theorem | property |
|---|---|
| `DonePutsStay` | `DoneStays` |
| `PutsOncePerTerm` | `OncePerTerm` |
| `ClientsKeepTheirOrder` | `ClientOrder` |
| `ServiceTypes` | `ServiceTypeOK` |

**Argument.** The same idea as for the replicated log, in a model with another grain:
elections are one step, there are no snapshots, a request carries the whole log.
`ServiceInv(el, tl)` speaks of who was elected when (`el`) and of the ledger (`tl`);
`ServiceSound` says that both exist. `RaftInv`, the servers' part, has the parts of `LogInv`
that remain; its `ChoosableInv` again says that whatever a leader may come to commit is
out of reach of every later election. Each action's `...Facts` lemma gives `RaftStep`, from
which `RaftInvStep` derives the invariant.

`ClientInv`, the clients' part, follows a request from the clerk into the log:

* `QueueInv`, `WorkInv`: a request in a queue and an operation on a server thread are the
  ones their client waits for, at that server, and never both. A call without timeout ends
  with an answer or the death of the server, and a server that dies takes its queue with
  it; so no request outlives the client's interest in it, and a clerk's next operation
  finds nothing of the last one.
* `OrderInv`: entries of a client are in the order of its operations in every log of the
  ledger, and none is newer than what its clerk is at.
* `OnceInv`: the leader of a term has appended an operation only if it will not get it
  again (`Taken`): the clerk is past the operation, past that server in its loop, or waits
  for that server with no request in a queue. The loop comes to a server once because the
  addresses are all different (`TargetsDiffer`).
* `DoneInv`: what a client was told is done is below an entry that is chosen. It is when
  `Finish` answers: the commit index then covers the whole log of the leader, which still
  has the entry although the leader may have been deposed in the meantime, as its server
  thread handled nothing else since `Begin`.

`DoneStays` is about a leader whose term no server has exceeded (`Newest`). A deposed
leader that has not noticed yet may lack the put, also when the newer leader has crashed.

### Membership change

`RaftMembershipProofs`, for every finite set of nodes, all clusters and files, any number of
changes, elections, timeouts and restarts within the bounds of the instance, each from
`MembershipAssumption` and the hypothesis `QuorumsMeet`:

| theorem | property |
|---|---|
| `MembershipIsSound` | `MembershipSound`, the inductive invariant |
| `MembershipTypesAreKept` | `MembershipTypeOK` |
| `OneLeaderPerTermWhileChanging` | `OneLeaderPerTerm` |
| `AppliedAgreeWhileChanging` | `AppliedAgree` |
| `LeaderHasAppliedWhileChanging` | `LeaderHasApplied` |
| `ChangesAreChainedUntilRestart` | `ChainedUntilRestart` |
| `OneNodeKeepsQuorums` | `OneComesOrGoes` implies `QuorumsMeet` |

**The hypothesis.** `Confs` are the configurations the files, `Joining` and `Leaving`
allow; `QuorumsMeet` says that majorities of any two of them intersect. Raft needs this
only of configurations next to each other in the log. The code needs more, as a restart
puts a node back into its file's configuration, however many changes ago that was
written. Without the hypothesis `AppliedAgree` is false: section 3 has the history of five
nodes, two of them removed and restarted. `OneNodeKeepsQuorums` shows
that it is met when one node comes or goes, as often as the administrator likes and with
restarts into either configuration: a majority of C and one of C with one more node always
intersect (by cardinalities). The instances of `membership` and
`remove_leader` are of this kind (`OneNodeChanges`, which TLC evaluates). Several changes of different nodes
*without* a restart in between are covered neither by the theorems nor by the runs.

**Argument.** Nodes disagree on the configuration, so no part of the invariant asks who is
a member: a `Quorum` is a majority of any member of `Confs`. The vote counted in the joint
phase and the copies counted for CONFIG_JOINT contain one (`WinnersAreQuorum`,
`MatchedIsQuorum`); that is all the proof uses of the two-majority rule, and it is why a
leader may begin a change, give it up or apply it at any moment. The rest is the argument
of the replicated log in this model's grain. `MembershipInv(tl)` has the ledger `tl`, the
log each term's leader had when it last led, and

* `CampaignInv`, `RivalsInv`, `ElectedInv`: the votes of a round are `Spent`, two
  candidates of a term share no voter, each leader is `Backed` by a quorum;
* `LedgerInv`, `LogsInv`: every log is made of pieces of the ledger (`Rooted`), and a
  leader's log is the ledger of its term;
* `AnswersInv`, `MatchInv`: what a leader was told or counts is stored while the peer is
  in its term; a leader that applies a configuration forgets it, which loses nothing;
* `ChoosableInv`: what a leader may still come to commit is held by every later leader,
  voter and candidate (`Held`);
* `CommitInv`, `AppliedInv`: commit positions and applied entries lie below entries that
  are `Chosen`, by a leader of the term in which they were applied, or an earlier one.

Each action has a lemma that gives `StepFacts`, what it does to votes, logs, answers and
commit positions; `InvStep` derives the invariant from these facts alone. `AppliedAgree` and
`LeaderHasApplied` follow because chosen entries are on one chain (`ChosenChain`).
`LeaderHasApplied` speaks of the term in which an entry was applied, which `applied`
records: a deposed leader that has not noticed lacks what was applied since.

**Changes follow each other.** `ChainedUntilRestart` needs a second invariant, `ChainInv`,
about the order of the CONFIG entries in each log (`InOrder`), proved over the first:

* `Makes`: a node is in the joint phase if and only if the committed part of its log ends
  in a CONFIG_JOINT without its CONFIG_NEW, and its current configuration is that of the
  last committed CONFIG_NEW (`ApplyingMakes`, over the loop of `applyCommittedLogs`);
* `Announced`: a CONFIG_NEW comes after a CONFIG_JOINT that its writer had committed, as
  `waitConfigState` saw the joint phase. A stable configuration therefore means that
  every CONFIG_NEW of the log is committed (`StableIsDone`);
* `Chained`: the old part of a CONFIG_JOINT is what the last CONFIG_NEW before it left;
* `Undisturbed`: while a command keeps the only server thread, nobody else's CONFIG_NEW
  gets into the node's log, so what `addNode` read before it let go of the lock is still
  true when `appendConfigJoint` writes it;
* `FinishedInv`: what was reported done is the last CONFIG_NEW of a committed prefix.

Prefixes that two nodes have committed are the same (`CommittedAgree`), and a step does
not take them back (`CommittedKept`), which is where the first invariant is used. A restart
resets the configuration and the commit position and so ends the argument; after it the
property is false (section 3). `ChangesAreChained` speaks of *committed* changes: a deposed
leader that has not noticed may write, and never commit, a CONFIG_JOINT that starts from a
configuration others have left.

### Only model-checked

The log safety of `RaftReplication` once snapshots are taken, and where two threads build a
request with `prevLogIndex` -1 (the theorems exclude both, see above). All liveness
(`OperationsReturn`), which with ENABLED is beyond the prover. That `AddEntries` does what
the loop does is a statement about recursion over data and is checked on small logs.

## 5. Plan

Done: elections, replication, reads and membership with their proofs; databases with
snapshots and reads, their proofs and the register they implement; the threads that serve
clients, with liveness, and the proofs of what clients get. Next, in this order:

1. `RaftMembership` without restarts, with several changes: whether it is enough that
   majorities of neighbouring configurations meet.
2. `KvReplay` with two threads and a comparison with `lastApplied_` in
   `handleInstallSnapshot`, to show that this is all `OneThread` is needed for.
3. A module for the state file with torn and failed saves.

**Not modelled**, and why:

* the text protocol (`build*Rpc`, `parse*Rpc`, `encodeConfig`): the models carry the fields.
  Values are single words when they are stored, so what is formatted can be parsed;
* framing and buffers of the event loop, logging, console: I/O without effect on the
  protocol's state;
* a state file cut off in the middle of a save, and a save that fails: no safety property
  holds across it, for one and the same reason (above);
* writes LevelDB refuses: only printed, the database misses the entry;
* `peers_` rebuilt while another thread iterates over it: undefined behaviour.
  `RaftMembership` indexes peers by node;
* a cluster of one node, which never elects a leader (`raft_node.cpp:103`): `RaftMembership`
  has the code as it is, but its instances keep two voters;
* `replicateLogEntry` (736-820): never called.
