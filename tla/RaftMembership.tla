--------------------------- MODULE RaftMembership ---------------------------
(***************************************************************************)
(* Membership change of raftCore/raft_node.cpp: the administrator's add    *)
(* and remove, the entries CONFIG_JOINT and CONFIG_NEW, and what the       *)
(* configuration of each node decides: who may campaign, whose requests    *)
(* are heard, and which majorities elect and commit.                       *)
(*                                                                         *)
(* A configuration takes effect on a node when its entry is APPLIED there, *)
(* and CONFIG_JOINT alone is counted with the configurations it carries.   *)
(*                                                                         *)
(* Log and election are those of RaftReplication and RaftElection with     *)
(* less detail: a call is handled at the moment it is sent, a node has one *)
(* call under way at a time, nextIndex_ may have any value (so a request   *)
(* may start anywhere), nothing is compacted, and lastApplied_ always      *)
(* equals commitIndex_.  Configurations are sets: the order of peers_, on  *)
(* which the positions of nextIndex_ and matchIndex_ depend, is left out.  *)
(***************************************************************************)
EXTENDS Integers, FiniteSets, SequencesExt

CONSTANTS
    Node,
    Nil,          \* "no node": the code's -1
    Clusters,     \* the clusters to begin with: what each node reads in
                  \* cluster.conf at its first start, which nodes are started
                  \* with --learner, and (a bound) which may be restarted, once
    LaterConf,    \* cluster.conf as each node reads it when it is restarted
    Joining,      \* bound: nodes the administrator may add
    Leaving,      \* bound: nodes the administrator may remove
    Starts,       \* bound: the terms in which each node may campaign
    MaxLog,       \* bound: no entry beyond this index
    PutAt,        \* bound: the indexes at which a client may write
    MayTimeOut    \* bound: FALSE leaves out waits of more than 3000 ms

ASSUME MembershipAssumption ==
    /\ IsFiniteSet(Node)
    /\ Nil \notin Node
    /\ Clusters \subseteq [conf : [Node -> SUBSET Node], learners : SUBSET Node,
                            restarting : SUBSET Node]
    /\ LaterConf \in [Node -> SUBSET Node]
    /\ \A c \in Clusters, i \in Node : i \in c.conf[i] /\ i \in LaterConf[i]
    /\ Joining \subseteq Node
    /\ Leaving \subseteq Node
    /\ Starts \in [Node -> SUBSET (Nat \ {0})]
    /\ MaxLog \in Nat /\ PutAt \subseteq 1 .. MaxLog /\ MayTimeOut \in BOOLEAN

VARIABLES
    state,        \* state_
    currentTerm,  \* currentTerm_ (persisted)
    votedFor,     \* votedFor_ (persisted)
    log,          \* logs_ (persisted)
    commitIndex,  \* commitIndex_, and lastApplied_
    matchIndex,   \* matchIndex_, by peer
    config,       \* configState_, currentConfig_, oldConfig_, newConfig_
    standing,     \* votingMember_, leaving_, removed_
    round,        \* the locals of startElection
    reply,        \* the answer to the call a node waits for
    admin,        \* where addNode or removeNode is on the server thread
    restarts,     \* "never", "once" or "done"
    elected,      \* history: who became leader, in which term
    applied,      \* history: entries applied by some node, with their index and
                  \* the term in which it applied them
    finished      \* history: configurations whose change was reported done

protocol == <<state, currentTerm, votedFor, round, reply, elected>>
data == <<log, commitIndex, matchIndex, config, standing, applied>>
vars == <<protocol, data, admin, restarts, finished>>

Stable(nodes) == [phase |-> "STABLE", current |-> nodes, old |-> {}, new |-> {}]

NoEntry == [term |-> 0, op |-> "NONE", old |-> {}, new |-> {}]

NoReply == [kind |-> "none", from |-> Nil, asked |-> 0, term |-> 0,
            ok |-> FALSE, match |-> 0]

NoRound == [term |-> 0, lastTerm |-> 0, lastIndex |-> 0, todo |-> {}, granted |-> {}]

NoChange == [stage |-> "idle", old |-> {}, new |-> {}]

MembershipInit ==
    /\ state = [i \in Node |-> "Follower"]
    /\ currentTerm = [i \in Node |-> 0]
    /\ votedFor = [i \in Node |-> Nil]
    /\ log = [i \in Node |-> <<>>]
    /\ commitIndex = [i \in Node |-> 0]
    /\ matchIndex = [i \in Node |-> [j \in Node |-> 0]]
    /\ \E c \in Clusters :
        /\ config = [i \in Node |-> Stable(c.conf[i])]
        /\ standing = [i \in Node |-> IF i \in c.learners THEN "learner" ELSE "voter"]
        /\ restarts = [i \in Node |-> IF i \in c.restarting THEN "once" ELSE "never"]
    /\ round = [i \in Node |-> NoRound]
    /\ reply = [i \in Node |-> NoReply]
    /\ admin = [i \in Node |-> NoChange]
    /\ elected = {}
    /\ applied = {}
    /\ finished = {}

-----------------------------------------------------------------------------
(***************************************************************************)
(* Configurations.                                                         *)
(***************************************************************************)

\* Whom the configuration names: isNodeInCurrentVotingConfig, and peers_ with
\* the node itself.
Members(c) == IF c.phase = "STABLE" THEN c.current ELSE c.old \cup c.new

PeersOf(i) == Members(config[i]) \ {i}

\* Mutant: half of an even number is enough.
IsMajorityOf_Half(S, nodes) == 2 * Cardinality(S \cap nodes) >= Cardinality(nodes)

\* hasMajorityInConfigByIds
IsMajorityOf(S, nodes) == Cardinality(S \cap nodes) > Cardinality(nodes) \div 2

\* hasElectionMajority: S counts in configuration c.
WinsIn(c, S) ==
    IF c.phase = "STABLE" THEN IsMajorityOf(S, c.current)
    ELSE IsMajorityOf(S, c.old) /\ IsMajorityOf(S, c.new)

\* The nodes leader i knows to store its log up to index n. Only peers have a
\* matchIndex_.
Stored(i, n) == {i} \cup {j \in PeersOf(i) : matchIndex[i][j] >= n}

\* isMajorityMatchedForEntry: CONFIG_JOINT is counted with what it carries.
MajorityMatched(i, n) ==
    LET e == log[i][n] IN
    IF e.op = "JOINT"
    THEN IsMajorityOf(Stored(i, n), e.old) /\ IsMajorityOf(Stored(i, n), e.new)
    ELSE WinsIn(config[i], Stored(i, n))

Joint(c, e) == [c EXCEPT !.phase = "JOINT", !.old = e.old, !.new = e.new]

\* Mutant: CONFIG_NEW leaves oldConfig_ and newConfig_ as they are.
ConfigAfter_KeepsSets(c, e) ==
    IF e.op = "JOINT" THEN Joint(c, e)
    ELSE [c EXCEPT !.phase = "STABLE", !.current = e.new]

ConfigAfter(c, e) == IF e.op = "JOINT" THEN Joint(c, e) ELSE Stable(e.new)

\* applyConfigEntry on node i, whose state so far is s. A leader that applies a
\* configuration forgets what its peers store; one the entry leaves out becomes
\* a follower, in the same term.
ApplyConfig(i, s, e) ==
    LET leaves == i \notin e.new /\ (e.op = "NEW" \/ i \in e.old)
    IN [config |-> ConfigAfter(s.config, e),
        match |-> IF s.state = "Leader" THEN [j \in Node |-> 0] ELSE s.match,
        state |-> IF leaves THEN "Follower" ELSE s.state,
        standing |-> CASE e.op = "JOINT" /\ leaves -> "leaving"
                       [] e.op = "NEW" /\ leaves -> "removed"
                       [] e.op = "NEW" /\ ~leaves -> "voter"
                       [] OTHER -> s.standing]

\* The loop of applyCommittedLogs on node i, in role st: its state after each
\* entry of lg, from commitIndex_ to n.
Applying(i, st, lg, n) ==
    LET after[k \in commitIndex[i] .. n] ==
            IF k = commitIndex[i]
            THEN [config |-> config[i], match |-> matchIndex[i],
                  state |-> st, standing |-> standing[i]]
            ELSE IF lg[k].op \in {"JOINT", "NEW"}
            THEN ApplyConfig(i, after[k - 1], lg[k])
            ELSE after[k - 1]
    IN after

\* applyCommittedLogs: the entries from commitIndex_ + 1 to n are applied.
ApplyUpTo(i, st, lg, n) ==
    LET end == Applying(i, st, lg, n)[n] IN
    /\ commitIndex' = [commitIndex EXCEPT ![i] = n]
    /\ config' = [config EXCEPT ![i] = end.config]
    /\ matchIndex' = [matchIndex EXCEPT ![i] = end.match]
    /\ state' = [state EXCEPT ![i] = end.state]
    /\ standing' = [standing EXCEPT ![i] = end.standing]
    /\ applied' = applied \cup {[index |-> k, entry |-> lg[k], term |-> currentTerm'[i]] :
                                  k \in commitIndex[i] + 1 .. n}

-----------------------------------------------------------------------------
(***************************************************************************)
(* Elections.                                                              *)
(***************************************************************************)

LastTerm(lg) == IF lg = <<>> THEN 0 ELSE Last(lg).term

\* addNode and removeNode keep the only server thread: nothing else is handled.
ServerFree(j) == admin[j].stage = "idle"

\* The answer r to i's call arrives, or the call fails after it was handled. One
\* that would change nothing at i is not kept.
Answer(i, r, matters) ==
    IF matters THEN reply' \in {reply, [reply EXCEPT ![i] = r]} ELSE reply' = reply

\* becomeFollower
BecomeFollower(i, term) ==
    /\ state' = [state EXCEPT ![i] = "Follower"]
    /\ currentTerm' = [currentTerm EXCEPT ![i] = term]
    /\ votedFor' = [votedFor EXCEPT ![i] = Nil]

\* Only voting members of the node's own configuration campaign.
MayCampaign(i) == standing[i] = "voter" /\ i \in Members(config[i])

\* The timer fires; the calls of an earlier round that have not been answered
\* have failed.
StartElection(i) ==
    /\ currentTerm[i] + 1 \in Starts[i]
    /\ MayCampaign(i)
    /\ state[i] # "Leader"
    /\ reply[i] = NoReply
    /\ state' = [state EXCEPT ![i] = "Candidate"]
    /\ currentTerm' = [currentTerm EXCEPT ![i] = @ + 1]
    /\ votedFor' = [votedFor EXCEPT ![i] = i]
    /\ round' = [round EXCEPT ![i] = [term |-> currentTerm[i] + 1,
                    lastTerm |-> LastTerm(log[i]), lastIndex |-> Len(log[i]),
                    todo |-> PeersOf(i), granted |-> {i}]]
    /\ UNCHANGED <<reply, elected, data, admin, restarts, finished>>

UpToDate(r, lg) ==
    \/ r.lastTerm > LastTerm(lg)
    \/ r.lastTerm = LastTerm(lg) /\ r.lastIndex >= Len(lg)

\* A voter outside the configuration, or asked by a candidate outside of it,
\* refuses before it looks at the term.
Hears(j, i) == standing[j] = "voter" /\ i \in Members(config[j])

\* Mutant: a vote is given once more in the same term.
GrantsVote_Again(j, i) ==
    Hears(j, i) /\ round[i].term >= currentTerm[j] /\ UpToDate(round[i], log[j])

GrantsVote(j, i) ==
    /\ Hears(j, i)
    /\ round[i].term >= currentTerm[j]
    /\ round[i].term > currentTerm[j] \/ votedFor[j] \in {Nil, i}
    /\ UpToDate(round[i], log[j])

\* handleRequestVote on j for the round of i; the answer waits at i.
HandleRequestVote(i, j) ==
    LET r == round[i]
        newer == r.term > currentTerm[j]
        grants == GrantsVote(j, i)
    IN
    /\ reply[i] = NoReply
    /\ j \in r.todo
    /\ ServerFree(j)
    /\ round' = [round EXCEPT ![i].todo = @ \ {j}]
    /\ IF Hears(j, i) /\ newer
       THEN /\ state' = [state EXCEPT ![j] = "Follower"]
            /\ currentTerm' = [currentTerm EXCEPT ![j] = r.term]
            /\ votedFor' = [votedFor EXCEPT ![j] = IF grants THEN i ELSE Nil]
       ELSE /\ votedFor' = [votedFor EXCEPT ![j] = IF grants THEN i ELSE @]
            /\ UNCHANGED <<state, currentTerm>>
    /\ Answer(i, [NoReply EXCEPT !.kind = "vote", !.from = j, !.asked = r.term,
                      !.ok = grants, !.term = IF grants THEN r.term ELSE currentTerm[j]],
              grants \/ currentTerm[j] > currentTerm[i])
    /\ UNCHANGED <<elected, data, admin, restarts, finished>>

\* Back in startElection. The votes are counted in the configuration of this
\* moment, not of the round's start.
ReceiveVote(i) ==
    LET m == reply[i]
        stale == state[i] # "Candidate" \/ currentTerm[i] # m.asked
        voters == round[i].granted \cup (IF m.ok THEN {m.from} ELSE {})
        wins == m.ok /\ WinsIn(config[i], voters)
    IN
    /\ m.kind = "vote"
    /\ reply' = [reply EXCEPT ![i] = NoReply]
    /\ round' = [round EXCEPT ![i] =
                   IF stale \/ m.term > currentTerm[i] \/ wins THEN NoRound
                   ELSE [@ EXCEPT !.granted = voters]]
    /\ \/ /\ ~stale /\ m.term > currentTerm[i]
          /\ BecomeFollower(i, m.term)
          /\ UNCHANGED <<elected, matchIndex>>
       \/ /\ ~stale /\ m.term <= currentTerm[i] /\ wins
          /\ state' = [state EXCEPT ![i] = "Leader"]
          /\ matchIndex' = [matchIndex EXCEPT ![i] = [j \in Node |-> 0]]
          /\ elected' = elected \cup {[term |-> currentTerm[i], leader |-> i]}
          /\ UNCHANGED <<currentTerm, votedFor>>
       \/ /\ stale \/ (m.term <= currentTerm[i] /\ ~wins)
          /\ UNCHANGED <<state, currentTerm, votedFor, elected, matchIndex>>
    /\ UNCHANGED <<log, commitIndex, config, standing, applied, admin, restarts, finished>>

-----------------------------------------------------------------------------
(***************************************************************************)
(* Replication.                                                            *)
(***************************************************************************)

\* Node j's log after a request whose entries are lg from index p + 1.
Merge(own, lg, p) ==
    LET clash == {k \in p + 1 .. Min({Len(own), Len(lg)}) :
                    own[k].term # lg[k].term}
    IN CASE clash # {} -> lg
         [] clash = {} /\ Len(own) >= Len(lg) -> own
         [] OTHER -> own \o SubSeq(lg, Len(own) + 1, Len(lg))

\* The log check of handleAppendEntries for a request that starts after p.
Matches(own, lg, p) == p = 0 \/ (p <= Len(own) /\ own[p].term = lg[p].term)

\* handleAppendEntries on j for leader i, starting after index p. A leader that
\* is not in j's configuration is refused before the term is looked at.
HandleAppendEntries(i, j, p) ==
    LET lg == log[i]
        new == Merge(log[j], lg, p)
        commit == Min({commitIndex[i], Len(new)})
        refused == i \notin Members(config[j]) \/ currentTerm[i] < currentTerm[j]
        success == ~refused /\ Matches(log[j], lg, p)
    IN
    /\ state[i] = "Leader"
    /\ j \in PeersOf(i)
    /\ reply[i] = NoReply
    /\ ServerFree(j)
    /\ IF ~refused /\ (currentTerm[i] > currentTerm[j] \/ state[j] # "Follower")
       THEN /\ currentTerm' = [currentTerm EXCEPT ![j] = currentTerm[i]]
            /\ votedFor' = [votedFor EXCEPT ![j] = Nil]
       ELSE UNCHANGED <<currentTerm, votedFor>>
    /\ log' = [log EXCEPT ![j] = IF success THEN new ELSE @]
    /\ IF success /\ commitIndex[i] > commitIndex[j]
       THEN ApplyUpTo(j, "Follower", new, commit)
       ELSE /\ state' = [state EXCEPT ![j] = IF refused THEN @ ELSE "Follower"]
            /\ UNCHANGED <<commitIndex, matchIndex, config, standing, applied>>
    /\ Answer(i, [kind |-> "append", from |-> j, asked |-> currentTerm[i],
                  ok |-> success, match |-> Len(lg),
                  term |-> IF success THEN currentTerm[i] ELSE currentTerm[j]],
              \/ success /\ Len(lg) > matchIndex[i][j]
              \/ ~success /\ currentTerm[j] > currentTerm[i])
    /\ UNCHANGED <<round, elected, admin, restarts, finished>>

\* Back in replicateToPeer.
ReceiveAppend(i) ==
    LET m == reply[i]
        stale == state[i] # "Leader" \/ currentTerm[i] # m.asked
    IN
    /\ m.kind = "append"
    /\ reply' = [reply EXCEPT ![i] = NoReply]
    /\ \/ /\ ~stale /\ m.term > currentTerm[i]
          /\ BecomeFollower(i, m.term)
          /\ UNCHANGED matchIndex
       \/ /\ ~stale /\ m.term <= currentTerm[i] /\ m.ok /\ m.from \in PeersOf(i)
          /\ matchIndex' = [matchIndex EXCEPT ![i][m.from] = Max({@, m.match})]
          /\ UNCHANGED <<state, currentTerm, votedFor>>
       \/ /\ stale \/ (m.term <= currentTerm[i] /\ ~(m.ok /\ m.from \in PeersOf(i)))
          /\ UNCHANGED <<state, currentTerm, votedFor, matchIndex>>
    /\ UNCHANGED <<round, elected, log, commitIndex, config, standing, applied,
                   admin, restarts, finished>>

\* updateCommitIndex: the highest entry of this term that enough nodes store.
UpdateCommitIndex(i) ==
    LET ready == {n \in commitIndex[i] + 1 .. Len(log[i]) :
                    log[i][n].term = currentTerm[i] /\ MajorityMatched(i, n)}
    IN
    /\ state[i] = "Leader"
    /\ ready # {}
    /\ UNCHANGED <<currentTerm, votedFor, round, reply, elected, log, admin,
                   restarts, finished>>
    /\ ApplyUpTo(i, "Leader", log[i], Max(ready))

AppendEntry(i, e) == log' = [log EXCEPT ![i] = Append(@, e)]

\* leaderPut up to its persist(); RaftReplication has the rest.
ClientPut(i) ==
    /\ state[i] = "Leader"
    /\ ServerFree(i)
    /\ Len(log[i]) + 1 \in PutAt
    /\ AppendEntry(i, [NoEntry EXCEPT !.term = currentTerm[i], !.op = "PUT"])
    /\ UNCHANGED <<protocol, commitIndex, matchIndex, config, standing, applied,
                   admin, restarts, finished>>

-----------------------------------------------------------------------------
(***************************************************************************)
(* addNode and removeNode, on the server thread.                           *)
(***************************************************************************)

SetAdmin(i, a) == admin' = [admin EXCEPT ![i] = a]

\* Mutant: a change is accepted while another one is in progress.
AcceptsChange_Always(i) == state[i] = "Leader"

AcceptsChange(i) == state[i] = "Leader" /\ config[i].phase = "STABLE"

\* The first locked section: the configuration is read.
BeginChange(i, newConf) ==
    /\ ServerFree(i)
    /\ AcceptsChange(i)
    /\ Len(log[i]) < MaxLog
    /\ SetAdmin(i, [stage |-> "begun", old |-> config[i].current, new |-> newConf])
    /\ UNCHANGED <<protocol, data, restarts, finished>>

AddNode(i, n) ==
    /\ n \in Joining \ config[i].current
    /\ BeginChange(i, config[i].current \cup {n})

RemoveNode(i, n) ==
    /\ n \in Leaving \cap config[i].current
    /\ config[i].current # {n}
    /\ BeginChange(i, config[i].current \ {n})

\* appendConfigJoint: only the role is looked at again.
AppendConfigJoint(i) ==
    /\ admin[i].stage = "begun"
    /\ state[i] = "Leader"
    /\ Len(log[i]) < MaxLog
    /\ AppendEntry(i, [term |-> currentTerm[i], op |-> "JOINT",
                       old |-> admin[i].old, new |-> admin[i].new])
    /\ SetAdmin(i, [admin[i] EXCEPT !.stage = "joint"])
    /\ UNCHANGED <<protocol, commitIndex, matchIndex, config, standing, applied,
                   restarts, finished>>

\* waitConfigState has seen JOINT; appendConfigNew.
AppendConfigNew(i) ==
    /\ admin[i].stage = "joint"
    /\ state[i] = "Leader"
    /\ config[i].phase = "JOINT"
    /\ Len(log[i]) < MaxLog
    /\ AppendEntry(i, [NoEntry EXCEPT !.term = currentTerm[i], !.op = "NEW",
                                      !.new = admin[i].new])
    /\ SetAdmin(i, [admin[i] EXCEPT !.stage = "new"])
    /\ UNCHANGED <<protocol, commitIndex, matchIndex, config, standing, applied,
                   restarts, finished>>

\* waitConfigState has seen STABLE: the administrator is told OK.
FinishChange(i) ==
    /\ admin[i].stage = "new"
    /\ state[i] = "Leader"
    /\ config[i].phase = "STABLE"
    /\ SetAdmin(i, NoChange)
    /\ finished' = finished \cup {[conf |-> admin[i].new, at |-> commitIndex[i]]}
    /\ UNCHANGED <<protocol, data, restarts>>

\* The role is lost, or waitConfigState gives up after 3000 ms: FAIL.
AbandonChange(i) ==
    /\ \/ admin[i].stage # "idle" /\ state[i] # "Leader"
       \/ admin[i].stage \in {"joint", "new"} /\ MayTimeOut
    /\ SetAdmin(i, NoChange)
    /\ UNCHANGED <<protocol, data, restarts, finished>>

-----------------------------------------------------------------------------
\* The process dies and is started again: what it knew of the configuration and
\* of the commit position is gone, cluster.conf is read anew.
Restart(i) ==
    /\ restarts[i] = "once"
    /\ restarts' = [restarts EXCEPT ![i] = "done"]
    /\ state' = [state EXCEPT ![i] = "Follower"]
    /\ round' = [round EXCEPT ![i] = NoRound]
    /\ reply' = [reply EXCEPT ![i] = NoReply]
    /\ commitIndex' = [commitIndex EXCEPT ![i] = 0]
    /\ matchIndex' = [matchIndex EXCEPT ![i] = [j \in Node |-> 0]]
    /\ config' = [config EXCEPT ![i] = Stable(LaterConf[i])]
    /\ \E s \in {"voter", "learner"} : standing' = [standing EXCEPT ![i] = s]
    /\ SetAdmin(i, NoChange)
    /\ UNCHANGED <<currentTerm, votedFor, log, elected, applied, finished>>

Next ==
    \/ \E i \in Node : StartElection(i)
    \/ \E i, j \in Node : HandleRequestVote(i, j)
    \/ \E i \in Node : ReceiveVote(i)
    \/ \E i, j \in Node, p \in 0 .. MaxLog :
           p <= Len(log[i]) /\ HandleAppendEntries(i, j, p)
    \/ \E i \in Node : ReceiveAppend(i)
    \/ \E i \in Node : UpdateCommitIndex(i)
    \/ \E i \in Node : ClientPut(i)
    \/ \E i, n \in Node : AddNode(i, n)
    \/ \E i, n \in Node : RemoveNode(i, n)
    \/ \E i \in Node : AppendConfigJoint(i)
    \/ \E i \in Node : AppendConfigNew(i)
    \/ \E i \in Node : FinishChange(i)
    \/ \E i \in Node : AbandonChange(i)
    \/ \E i \in Node : Restart(i)

MembershipSpec == MembershipInit /\ [][Next]_vars

\* A thread calls every peer again and again, and of calls made for ever some are
\* answered: a call that brings a node forward is not put off for ever. What a
\* thread does between two calls, and an administrator's command on the server
\* thread, goes on to its end.
MembershipFairness ==
    \A i \in Node :
        /\ SF_vars(\E j \in Node : /\ HandleAppendEntries(i, j, 0)
                                  /\ \/ reply'[i] # reply[i]
                                     \/ commitIndex'[j] # commitIndex[j])
        /\ SF_vars(\E j \in Node : HandleRequestVote(i, j) /\ reply'[i] # reply[i])
        /\ WF_vars(StartElection(i))
        /\ WF_vars(ReceiveVote(i) \/ ReceiveAppend(i))
        /\ WF_vars(UpdateCommitIndex(i))
        /\ WF_vars(AppendConfigJoint(i) \/ AppendConfigNew(i) \/ FinishChange(i)
                   \/ (state[i] # "Leader" /\ AbandonChange(i)))

FairMembershipSpec == MembershipSpec /\ MembershipFairness

-----------------------------------------------------------------------------
(***************************************************************************)
(* Properties.                                                             *)
(***************************************************************************)

\* The configurations there may ever be: those of cluster.conf, with some of the
\* nodes that may be added and without some of those that may be removed.
Confs ==
    LET Files == {c.conf[i] : c \in Clusters, i \in Node} \cup Range(LaterConf)
    IN {X \in SUBSET Node : \E F \in Files : F \ Leaving \subseteq X /\ X \subseteq F \cup Joining}

\* Any two majorities, of whichever configurations, have a node in common.
QuorumsMeet ==
    \A C, D \in Confs : \A S, T \in SUBSET Node :
        IsMajorityOf(S, C) /\ IsMajorityOf(T, D) => S \cap T # {}

\* The clusters and the administrator's bounds let one node come or go.
OneComesOrGoes ==
    \E C \in SUBSET Node, n \in Node : \A X \in Confs : X = C \/ X = C \cup {n}

\* Type invariant of the membership model.
MembershipTypeOK ==
    LET Entries == [term : Nat, op : {"PUT", "JOINT", "NEW"},
                    old : SUBSET Node, new : SUBSET Node]
    IN
    /\ state \in [Node -> {"Follower", "Candidate", "Leader"}]
    /\ currentTerm \in [Node -> Nat]
    /\ votedFor \in [Node -> Node \cup {Nil}]
    /\ \A i \in Node : log[i] \in Seq(Entries)
    /\ commitIndex \in [Node -> Nat]
    /\ \A i \in Node : commitIndex[i] <= Len(log[i])
    /\ matchIndex \in [Node -> [Node -> Nat]]
    /\ config \in [Node -> [phase : {"STABLE", "JOINT"}, current : SUBSET Node,
                            old : SUBSET Node, new : SUBSET Node]]
    /\ \A i \in Node : config[i].phase = "STABLE" <=> config[i].new = {}
    /\ standing \in [Node -> {"voter", "learner", "leaving", "removed"}]
    /\ round \in [Node -> [term : Nat, lastTerm : Nat, lastIndex : Nat,
                           todo : SUBSET Node, granted : SUBSET Node]]
    /\ reply \in [Node -> [kind : {"none", "vote", "append"}, from : Node \cup {Nil},
                           asked : Nat, term : Nat, ok : BOOLEAN, match : Nat]]
    /\ admin \in [Node -> [stage : {"idle", "begun", "joint", "new"},
                           old : SUBSET Node, new : SUBSET Node]]
    /\ restarts \in [Node -> {"never", "once", "done"}]
    /\ elected \subseteq [term : Nat, leader : Node]
    /\ \A a \in applied : a.index \in Nat /\ a.entry \in Entries /\ a.term \in Nat
    /\ finished \subseteq [conf : SUBSET Node, at : Nat]

\* One leader per term, although the nodes count votes in different
\* configurations.
OneLeaderPerTerm ==
    \A e1, e2 \in elected : e1.term = e2.term => e1.leader = e2.leader

\* No two nodes ever apply different entries at one index, although the entries
\* before and after a change are counted in different configurations.
AppliedAgree ==
    \A a, b \in applied : a.index = b.index => a.entry = b.entry

\* A leader has every entry that was applied in a term before its own, or in its
\* own.
LeaderHasApplied ==
    \A a \in applied, e \in elected :
        state[e.leader] = "Leader" /\ currentTerm[e.leader] = e.term
              /\ a.term <= e.term
            => a.index \in DOMAIN log[e.leader] /\ log[e.leader][a.index] = a.entry

\* A change starts from the configuration the one before it has left: what one
\* administrator was told is done is not taken back by the next change that is
\* committed.
ChangesAreChained ==
    \A f \in finished : \A i \in Node : \A n \in 1 .. commitIndex[i] :
        /\ f.at < n /\ log[i][n].op = "JOINT"
        /\ \A k \in f.at + 1 .. n - 1 : log[i][k].op = "PUT"
        => log[i][n].old = f.conf

\* The same for as long as no process has been restarted.
ChainedUntilRestart ==
    (\A i \in Node : restarts[i] # "done") => ChangesAreChained

\* The second half of a change follows the first: a leader in the joint
\* configuration does not stay in it.
JointEnds ==
    \A i \in Node : state[i] = "Leader" /\ config[i].phase = "JOINT"
                    ~> state[i] # "Leader" \/ config[i].phase = "STABLE"
=============================================================================
