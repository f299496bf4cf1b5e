---------------------------- MODULE RaftElection ----------------------------
(***************************************************************************)
(* Leader election of raftCore/raft_node.cpp: terms, votes and the role of *)
(* every node, the election thread that asks its peers one at a time, and  *)
(* the term handling every RPC performs before it looks at the log.        *)
(*                                                                         *)
(* A remote call (TcpClient::sendMessage) blocks its thread, opens a       *)
(* connection of its own and has no timeout and no retry: the request is   *)
(* handled at most once, the call may fail at any moment, and a request    *)
(* whose caller has given up or crashed may still be handled (stray).      *)
(*                                                                         *)
(* The log is left to RaftReplication: here a request carries the opaque   *)
(* position of the candidate's last entry and the comparison made by the   *)
(* voter may have either outcome.                                          *)
(***************************************************************************)
EXTENDS Integers, FiniteSets

CONSTANTS
    Node,      \* the members of the (static) configuration
    Nil,       \* "no node": the code's -1
    LogPos,    \* positions of a last log entry, carried by a vote request
    MaxTerm    \* bound: no node starts an election beyond this term

ASSUME ElectionAssumption ==
    /\ IsFiniteSet(Node)
    /\ Nil \notin Node
    /\ LogPos # {}
    /\ MaxTerm \in Nat

VARIABLES
    state,        \* state_: the role of each node
    currentTerm,  \* currentTerm_ (persisted)
    votedFor,     \* votedFor_ (persisted)
    leaderId,     \* leaderId_
    round,        \* the locals of startElection on each node's election thread
    call,         \* the vote request that thread is blocked in
    stray,        \* vote requests whose caller no longer waits for them
    elected       \* history: who became leader, in which term, by whose votes

electionVars ==
    <<state, currentTerm, votedFor, leaderId, round, call, stray, elected>>

Roles == {"Follower", "Candidate", "Leader"}

Rounds == [term : Nat, pos : LogPos, todo : SUBSET Node, granted : SUBSET Node]

Calls == [status : {"none", "sent", "answered"}, peer : Node \cup {Nil},
          term : Nat, voteGranted : BOOLEAN]

Requests == [from : Node, to : Node, term : Nat, pos : LogPos]

Elections == [term : Nat, leader : Node, voters : SUBSET Node]

NoCall == [status |-> "none", peer |-> Nil, term |-> 0, voteGranted |-> FALSE]

NoRound == [term |-> 0, pos |-> CHOOSE p \in LogPos : TRUE,
            todo |-> {}, granted |-> {}]

IsMajority(S) == Cardinality(S) > Cardinality(Node) \div 2

\* Mutant: a node lists itself among its peers.
PeersOf_All(i) == Node

\* peers_: the configured nodes but oneself.
PeersOf(i) == Node \ {i}

ElectionInit ==
    /\ state = [i \in Node |-> "Follower"]
    /\ currentTerm = [i \in Node |-> 0]
    /\ votedFor = [i \in Node |-> Nil]
    /\ leaderId = [i \in Node |-> Nil]
    /\ round = [i \in Node |-> NoRound]
    /\ call = [i \in Node |-> NoCall]
    /\ stray = {}
    /\ elected = {}

-----------------------------------------------------------------------------
(***************************************************************************)
(* Steps shared by the handlers.                                           *)
(***************************************************************************)

\* Mutant: leaderId_ survives the change of term.
BecomeFollower_KeepsLeader(i, newTerm, leader) ==
    /\ state' = [state EXCEPT ![i] = "Follower"]
    /\ currentTerm' = [currentTerm EXCEPT ![i] = newTerm]
    /\ votedFor' = [votedFor EXCEPT ![i] = Nil]
    /\ UNCHANGED leaderId

\* becomeFollower forgets the vote even when newTerm is the current term.
\* leader is the leaderId_ the calling handler leaves behind.
BecomeFollower(i, newTerm, leader) ==
    /\ state' = [state EXCEPT ![i] = "Follower"]
    /\ currentTerm' = [currentTerm EXCEPT ![i] = newTerm]
    /\ votedFor' = [votedFor EXCEPT ![i] = Nil]
    /\ leaderId' = [leaderId EXCEPT ![i] = leader]

RequestOf(i) == [from |-> i, to |-> call[i].peer,
                 term |-> round[i].term, pos |-> round[i].pos]

\* The caller stops waiting; what it sent may or may not still arrive.
AbandonCall(i) ==
    /\ call' = [call EXCEPT ![i] = NoCall]
    /\ \/ stray' = stray
       \/ /\ call[i].status = "sent"
          /\ stray' = stray \cup {RequestOf(i)}

\* startElection returns: its locals are gone.
EndElection(i) == round' = [round EXCEPT ![i] = NoRound]

-----------------------------------------------------------------------------
(***************************************************************************)
(* The election thread: startElection.                                     *)
(***************************************************************************)

ElectionIdle(i) == call[i].status = "none" /\ round[i].todo = {}

\* The timeout may strike at any time; becomeCandidate is inlined here.
StartElection(i, pos) ==
    /\ ElectionIdle(i)
    /\ state[i] # "Leader"
    /\ currentTerm[i] < MaxTerm
    /\ state' = [state EXCEPT ![i] = "Candidate"]
    /\ currentTerm' = [currentTerm EXCEPT ![i] = @ + 1]
    /\ votedFor' = [votedFor EXCEPT ![i] = i]
    /\ leaderId' = [leaderId EXCEPT ![i] = Nil]
    /\ round' = [round EXCEPT ![i] = [term |-> currentTerm[i] + 1, pos |-> pos,
                                      todo |-> PeersOf(i), granted |-> {i}]]
    /\ UNCHANGED <<call, stray, elected>>

\* The next request goes out without the lock: nothing about the node's role
\* is checked, even if it has stepped down meanwhile.
CallRequestVote(i, j) ==
    /\ call[i].status = "none"
    /\ j \in round[i].todo
    /\ round' = [round EXCEPT ![i].todo = @ \ {j}]
    /\ call' = [call EXCEPT ![i] = [NoCall EXCEPT !.status = "sent", !.peer = j]]
    /\ UNCHANGED <<state, currentTerm, votedFor, leaderId, stray, elected>>

VoteCallFails(i) ==
    /\ call[i].status # "none"
    /\ AbandonCall(i)
    /\ UNCHANGED <<state, currentTerm, votedFor, leaderId, round, elected>>

BecomeLeader(i, voters) ==
    /\ state' = [state EXCEPT ![i] = "Leader"]
    /\ leaderId' = [leaderId EXCEPT ![i] = i]
    /\ elected' = elected \cup
         {[term |-> currentTerm[i], leader |-> i, voters |-> voters]}
    /\ UNCHANGED <<currentTerm, votedFor>>

\* The round is over if the node is no candidate of this round's term any more.
RoundIsStale(i) == state[i] # "Candidate" \/ currentTerm[i] # round[i].term

ReceiveVote(i) ==
    LET reply == call[i]
        voters == round[i].granted \cup {reply.peer}
    IN
    /\ reply.status = "answered"
    /\ call' = [call EXCEPT ![i] = NoCall]
    /\ UNCHANGED stray
    /\ \/ /\ RoundIsStale(i)
          /\ EndElection(i)
          /\ UNCHANGED <<state, currentTerm, votedFor, leaderId, elected>>
       \/ /\ ~RoundIsStale(i)
          /\ reply.term > currentTerm[i]
          /\ BecomeFollower(i, reply.term, Nil)
          /\ EndElection(i)
          /\ UNCHANGED elected
       \/ /\ ~RoundIsStale(i)
          /\ reply.term <= currentTerm[i]
          /\ reply.voteGranted
          /\ IsMajority(voters)
          /\ BecomeLeader(i, voters)
          /\ EndElection(i)
       \/ /\ ~RoundIsStale(i)
          /\ reply.term <= currentTerm[i]
          /\ reply.voteGranted
          /\ ~IsMajority(voters)
          /\ round' = [round EXCEPT ![i].granted = voters]
          /\ UNCHANGED <<state, currentTerm, votedFor, leaderId, elected>>
       \/ /\ ~RoundIsStale(i)
          /\ reply.term <= currentTerm[i]
          /\ ~reply.voteGranted
          /\ UNCHANGED <<state, currentTerm, votedFor, leaderId, round, elected>>

-----------------------------------------------------------------------------
(***************************************************************************)
(* The server thread.                                                      *)
(***************************************************************************)

\* The vote the node holds once it has seen term t.
VoteIn(j, t) == IF t > currentTerm[j] THEN Nil ELSE votedFor[j]

\* Mutant: the vote already given is not looked at.
GrantsVote_Again(j, m, logOk) == m.term >= currentTerm[j] /\ logOk

GrantsVote(j, m, logOk) ==
    /\ m.term >= currentTerm[j]
    /\ VoteIn(j, m.term) \in {Nil, m.from}
    /\ logOk

\* handleRequestVote up to its reply. A node that has moved to a higher term and
\* then refuses still reports the term it had before.
HandleRequestVote(j, m, logOk) ==
    LET newer == m.term > currentTerm[j] IN
    /\ state' = [state EXCEPT ![j] = IF newer THEN "Follower" ELSE @]
    /\ currentTerm' = [currentTerm EXCEPT ![j] = IF newer THEN m.term ELSE @]
    /\ leaderId' = [leaderId EXCEPT ![j] = IF newer THEN Nil ELSE @]
    /\ votedFor' = [votedFor EXCEPT ![j] =
                      IF GrantsVote(j, m, logOk) THEN m.from ELSE VoteIn(j, m.term)]

HandleVoteCall(i, logOk) ==
    LET j == call[i].peer
        granted == GrantsVote(j, RequestOf(i), logOk)
    IN
    /\ call[i].status = "sent"
    /\ HandleRequestVote(j, RequestOf(i), logOk)
    /\ call' = [call EXCEPT ![i].status = "answered",
                            ![i].term = IF granted THEN round[i].term ELSE currentTerm[j],
                            ![i].voteGranted = granted]
    /\ UNCHANGED <<round, stray, elected>>

\* A request whose caller is gone is handled all the same; the reply is lost.
HandleStrayVote(m, logOk) ==
    /\ m \in stray
    /\ HandleRequestVote(m.to, m, logOk)
    /\ stray' = stray \ {m}
    /\ UNCHANGED <<round, call, elected>>

\* Mutant: becomeFollower runs on every RPC of a leader.
FollowLeader_Always(j, term, leader) == BecomeFollower(j, term, leader)

\* What handleAppendEntries and handleInstallSnapshot share: j follows the leader
\* of a term no older than its own. A leader or candidate of that very term goes
\* through becomeFollower as well.
FollowLeader(j, term, leader) ==
    \/ /\ term > currentTerm[j] \/ state[j] # "Follower"
       /\ BecomeFollower(j, term, leader)
    \/ /\ term <= currentTerm[j] /\ state[j] = "Follower"
       /\ leaderId' = [leaderId EXCEPT ![j] = leader]
       /\ UNCHANGED <<state, currentTerm, votedFor>>

\* Mutant: the term of the RPC is not compared.
HandleLeaderRpc_AnyTerm(j, e) ==
    /\ e.leader # j
    /\ FollowLeader(j, e.term, e.leader)
    /\ UNCHANGED <<round, call, stray, elected>>

\* An RPC of the leader elected in e reaches j. One of an older term is refused
\* and changes nothing.
HandleLeaderRpc(j, e) ==
    /\ e.leader # j
    /\ e.term >= currentTerm[j]
    /\ FollowLeader(j, e.term, e.leader)
    /\ UNCHANGED <<round, call, stray, elected>>

\* The reply to an RPC sent as a leader carries a higher term. The node may have
\* lost that role since (sendReadIndexHeartbeats does not look).
LearnTerm(i, newTerm) ==
    /\ newTerm > currentTerm[i]
    /\ BecomeFollower(i, newTerm, Nil)
    /\ UNCHANGED <<round, call, stray, elected>>

\* The process dies and is started again: loadPersistentState restores the term
\* and the vote, the constructor resets the rest.
Restart(i) ==
    /\ state' = [state EXCEPT ![i] = "Follower"]
    /\ leaderId' = [leaderId EXCEPT ![i] = Nil]
    /\ EndElection(i)
    /\ AbandonCall(i)
    /\ UNCHANGED <<currentTerm, votedFor, elected>>

-----------------------------------------------------------------------------
ElectionNext ==
    \/ \E i \in Node, pos \in LogPos : StartElection(i, pos)
    \/ \E i, j \in Node : CallRequestVote(i, j)
    \/ \E i \in Node : VoteCallFails(i)
    \/ \E i \in Node : ReceiveVote(i)
    \/ \E i \in Node, logOk \in BOOLEAN : HandleVoteCall(i, logOk)
    \/ \E m \in stray, logOk \in BOOLEAN : HandleStrayVote(m, logOk)
    \/ \E j \in Node, e \in elected : HandleLeaderRpc(j, e)
    \/ \E i, j \in Node : \E t \in 0 .. currentTerm[j] : LearnTerm(i, t)
    \/ \E i \in Node : Restart(i)

ElectionSpec == ElectionInit /\ [][ElectionNext]_electionVars

-----------------------------------------------------------------------------
(***************************************************************************)
(* Properties.                                                             *)
(***************************************************************************)

\* Type invariant of the election state.
ElectionTypeOK ==
    /\ state \in [Node -> Roles]
    /\ currentTerm \in [Node -> Nat]
    /\ votedFor \in [Node -> Node \cup {Nil}]
    /\ leaderId \in [Node -> Node \cup {Nil}]
    /\ round \in [Node -> Rounds]
    /\ \A i \in Node : i \notin round[i].todo
    /\ call \in [Node -> Calls]
    /\ \A i \in Node : call[i].status # "none" => call[i].peer \in Node \ {i}
    /\ stray \subseteq Requests
    /\ elected \subseteq Elections

\* At most one node ever becomes leader in a term, over the whole run: through
\* crashes, late requests and the votes becomeFollower throws away.
ElectionSafety ==
    \A e1, e2 \in elected : e1.term = e2.term => e1.leader = e2.leader

\* A node that names a leader (leaderId_, the address clients are sent to) names
\* the one that was elected in the very term the node is in.
LeaderIdIsElected ==
    \A j \in Node : leaderId[j] # Nil =>
        \E e \in elected : e.term = currentTerm[j] /\ e.leader = leaderId[j]

\* A vote given to another node is never withdrawn or changed while the voter
\* stays in that term, restarts included.
VoteStable ==
    [][\A j \in Node :
         votedFor[j] \notin {Nil, j} /\ currentTerm'[j] = currentTerm[j]
            => votedFor'[j] = votedFor[j]]_electionVars

\* A running leader gives up its role only for a higher term. handleAppendEntries
\* demotes on "state_ != FOLLOWER" alone, so this rests on election safety.
LeaderYieldsToHigherTerm ==
    [][\A i \in Node :
         state[i] = "Leader" /\ state'[i] # "Leader"
            => currentTerm'[i] > currentTerm[i] \/ Restart(i)]_electionVars

\* A node's term never decreases.
TermNeverRegresses ==
    [][\A i \in Node : currentTerm'[i] >= currentTerm[i]]_electionVars

-----------------------------------------------------------------------------
(***************************************************************************)
(* The inductive invariant behind the properties.                          *)
(***************************************************************************)

\* The votes a node holds, the one still waiting to be counted included.
Votes(c) == round[c].granted \cup
    {v \in {call[c].peer} : call[c].status = "answered" /\ call[c].voteGranted}

\* v cannot vote for anyone but c in term t.
VoteSpent(v, c, t) ==
    currentTerm[v] > t \/ (currentTerm[v] = t /\ votedFor[v] = c)

CampaignInv ==
    \A i \in Node : state[i] = "Candidate" =>
        /\ votedFor[i] = i
        /\ round[i].term = currentTerm[i]
        /\ i \in round[i].granted
        /\ \A e \in elected : e.leader = i => e.term < currentTerm[i]

LeaderInv ==
    \A i \in Node : state[i] = "Leader" =>
        /\ votedFor[i] = i
        /\ \E e \in elected : e.leader = i /\ e.term = currentTerm[i]

\* What is on its way was sent in a term its sender has reached.
PastInv ==
    /\ \A i \in Node : round[i].term <= currentTerm[i]
    /\ \A m \in stray : m.term <= currentTerm[m.from]

VotesInv ==
    \A c \in Node : state[c] = "Candidate" =>
        \A v \in Votes(c) : VoteSpent(v, c, currentTerm[c])

RivalsInv ==
    \A c, d \in Node :
        c # d /\ state[c] = "Candidate" /\ state[d] = "Candidate"
              /\ currentTerm[c] = currentTerm[d]
            => Votes(c) \cap Votes(d) = {}

\* The voters of a past election are spent, for later requests of its term too.
HistoryInv ==
    \A e \in elected :
        /\ IsMajority(e.voters)
        /\ e.leader \in e.voters
        /\ \A v \in e.voters : VoteSpent(v, e.leader, e.term)
        /\ \A c \in Node :
             state[c] = "Candidate" /\ currentTerm[c] = e.term
                => Votes(c) \cap e.voters = {}

\* Inductive strengthening of ElectionSafety: who has voted for whom, in the
\* rounds still running and in those already won.
ElectionInv ==
    /\ ElectionTypeOK
    /\ CampaignInv
    /\ LeaderInv
    /\ PastInv
    /\ VotesInv
    /\ RivalsInv
    /\ HistoryInv
    /\ ElectionSafety
=============================================================================
