------------------------- MODULE RaftElectionProofs -------------------------
(***************************************************************************)
(* Proofs about RaftElection, for every set of nodes and every bound on    *)
(* the term.                                                               *)
(***************************************************************************)
EXTENDS RaftElection, FiniteSetTheorems, TLAPS

\* Two majorities of the configuration share a node (hasElectionMajority).
LEMMA MajoritiesIntersect ==
    ASSUME NEW S \in SUBSET Node, NEW T \in SUBSET Node,
           IsMajority(S), IsMajority(T)
    PROVE  S \cap T # {}
<1>1. IsFiniteSet(Node) /\ IsFiniteSet(S) /\ IsFiniteSet(T)
  BY ElectionAssumption, FS_Subset
<1>2. /\ Cardinality(Node) \in Nat
      /\ Cardinality(S) \in Nat
      /\ Cardinality(T) \in Nat
  BY <1>1, FS_CardinalityType
<1>3. Cardinality(S) + Cardinality(T) > Cardinality(Node)
  <2>1. /\ Cardinality(S) > Cardinality(Node) \div 2
        /\ Cardinality(T) > Cardinality(Node) \div 2
    BY DEF IsMajority
  <2>. QED  BY <1>2, <2>1
<1>. QED  BY <1>1, <1>3, FS_MajoritiesIntersect

-----------------------------------------------------------------------------
(***************************************************************************)
(* Types.                                                                  *)
(***************************************************************************)

LEMMA NoRoundType == NoRound \in Rounds
  BY ElectionAssumption DEF NoRound, Rounds

LEMMA NoCallType == NoCall \in Calls
  BY DEF NoCall, Calls

\* A request being built from a live call is well-formed.
LEMMA RequestType ==
    ASSUME ElectionTypeOK, NEW i \in Node, call[i].status # "none"
    PROVE  /\ RequestOf(i) \in Requests
           /\ RequestOf(i).from = i
           /\ RequestOf(i).to = call[i].peer
           /\ RequestOf(i).term = round[i].term
           /\ call[i].peer \in Node /\ call[i].peer # i
  BY DEF ElectionTypeOK, RequestOf, Requests, Rounds

\* becomeFollower leaves well-typed variables behind.
LEMMA BecomeFollowerType ==
    ASSUME ElectionTypeOK, NEW i \in Node, NEW t \in Nat,
           NEW l \in Node \cup {Nil}, BecomeFollower(i, t, l)
    PROVE  /\ state' \in [Node -> Roles]
           /\ currentTerm' \in [Node -> Nat]
           /\ votedFor' \in [Node -> Node \cup {Nil}]
           /\ leaderId' \in [Node -> Node \cup {Nil}]
  BY DEF ElectionTypeOK, BecomeFollower, Roles

LEMMA HandleRequestVoteType ==
    ASSUME ElectionTypeOK, NEW m \in Requests, NEW logOk \in BOOLEAN,
           HandleRequestVote(m.to, m, logOk)
    PROVE  /\ state' \in [Node -> Roles]
           /\ currentTerm' \in [Node -> Nat]
           /\ votedFor' \in [Node -> Node \cup {Nil}]
           /\ leaderId' \in [Node -> Node \cup {Nil}]
  BY DEF ElectionTypeOK, HandleRequestVote, VoteIn, Roles, Requests

LEMMA AbandonCallType ==
    ASSUME ElectionTypeOK, NEW i \in Node, AbandonCall(i)
    PROVE  /\ call' \in [Node -> Calls]
           /\ \A k \in Node : call'[k].status # "none" => call'[k].peer \in Node \ {k}
           /\ stray' \subseteq Requests
  <1>1. call' \in [Node -> Calls]
    BY NoCallType DEF ElectionTypeOK, AbandonCall
  <1>2. \A k \in Node : call'[k].status # "none" => call'[k].peer \in Node \ {k}
    BY DEF ElectionTypeOK, AbandonCall, NoCall
  <1>3. stray' \subseteq Requests
    BY RequestType DEF ElectionTypeOK, AbandonCall
  <1>. QED  BY <1>1, <1>2, <1>3

LEMMA TypeInit == ElectionInit => ElectionTypeOK
<1>. SUFFICES ASSUME ElectionInit PROVE ElectionTypeOK
  OBVIOUS
<1>1. /\ state \in [Node -> Roles]
      /\ currentTerm \in [Node -> Nat]
      /\ votedFor \in [Node -> Node \cup {Nil}]
      /\ leaderId \in [Node -> Node \cup {Nil}]
  BY DEF ElectionInit, Roles
<1>2. round \in [Node -> Rounds] /\ \A i \in Node : i \notin round[i].todo
  BY NoRoundType DEF ElectionInit, NoRound
<1>3. call \in [Node -> Calls]
  BY NoCallType DEF ElectionInit
<1>4. \A i \in Node : call[i].status # "none" => call[i].peer \in Node \ {i}
  BY DEF ElectionInit, NoCall
<1>. QED  BY <1>1, <1>2, <1>3, <1>4 DEF ElectionInit, ElectionTypeOK

\* Every step keeps the variables within their types.
LEMMA TypeStep == ElectionTypeOK /\ [ElectionNext]_electionVars => ElectionTypeOK'
<1>. SUFFICES ASSUME ElectionTypeOK, [ElectionNext]_electionVars
              PROVE  ElectionTypeOK'
  OBVIOUS
<1>1. ASSUME NEW i \in Node, NEW pos \in LogPos, StartElection(i, pos)
      PROVE  ElectionTypeOK'
  <2>1. round' \in [Node -> Rounds]
    BY <1>1 DEF ElectionTypeOK, StartElection, PeersOf, Rounds
  <2>2. /\ state' \in [Node -> Roles]
        /\ currentTerm' \in [Node -> Nat]
        /\ votedFor' \in [Node -> Node \cup {Nil}]
        /\ leaderId' \in [Node -> Node \cup {Nil}]
    BY <1>1 DEF ElectionTypeOK, StartElection, Roles
  <2>. QED  BY <1>1, <2>1, <2>2 DEF ElectionTypeOK, StartElection, PeersOf
<1>2. ASSUME NEW i \in Node, NEW j \in Node, CallRequestVote(i, j)
      PROVE  ElectionTypeOK'
  <2>0. [round[i] EXCEPT !.todo = @ \ {j}] \in Rounds
    BY DEF ElectionTypeOK, Rounds
  <2>1. round' \in [Node -> Rounds] /\ \A k \in Node : k \notin round'[k].todo
    <3>1. round' = [round EXCEPT ![i] = [round[i] EXCEPT !.todo = @ \ {j}]]
      BY <1>2 DEF CallRequestVote
    <3>2. round' \in [Node -> Rounds]
      BY <3>1, <2>0 DEF ElectionTypeOK
    <3>3. \A k \in Node : k \notin round'[k].todo
      BY <1>2 DEF ElectionTypeOK, CallRequestVote, Rounds
    <3>. QED  BY <3>2, <3>3
  <2>2. j # i /\ [NoCall EXCEPT !.status = "sent", !.peer = j] \in Calls
    BY <1>2 DEF ElectionTypeOK, CallRequestVote, NoCall, Calls
  <2>3. call' \in [Node -> Calls]
    BY <1>2, <2>2 DEF ElectionTypeOK, CallRequestVote
  <2>. QED  BY <1>2, <2>1, <2>2, <2>3 DEF ElectionTypeOK, CallRequestVote, NoCall
<1>3. ASSUME NEW i \in Node, VoteCallFails(i)
      PROVE  ElectionTypeOK'
  BY <1>3, AbandonCallType DEF ElectionTypeOK, VoteCallFails
<1>4. ASSUME NEW i \in Node, ReceiveVote(i)
      PROVE  ElectionTypeOK'
  <2> DEFINE voters == round[i].granted \cup {call[i].peer}
  <2>1. /\ call[i] \in Calls /\ call[i].term \in Nat /\ call[i].status = "answered"
        /\ round[i] \in Rounds
        /\ voters \in SUBSET Node
    BY <1>4 DEF ElectionTypeOK, ReceiveVote, Calls, Rounds
  <2>2. /\ call' \in [Node -> Calls]
        /\ \A k \in Node : call'[k].status # "none" => call'[k].peer \in Node \ {k}
        /\ stray' = stray
    BY <1>4, NoCallType DEF ElectionTypeOK, ReceiveVote, NoCall
  <2>3. /\ round' \in [Node -> Rounds]
        /\ \A k \in Node : k \notin round'[k].todo
    <3>1. CASE EndElection(i)
      BY <3>1, NoRoundType DEF ElectionTypeOK, EndElection, NoRound
    <3>2. CASE round' = [round EXCEPT ![i].granted = voters]
      BY <3>2, <2>1 DEF ElectionTypeOK, Rounds
    <3>3. CASE round' = round
      BY <3>3 DEF ElectionTypeOK
    <3>. QED  BY <1>4, <3>1, <3>2, <3>3 DEF ReceiveVote
  <2>4. /\ state' \in [Node -> Roles]
        /\ currentTerm' \in [Node -> Nat]
        /\ votedFor' \in [Node -> Node \cup {Nil}]
        /\ leaderId' \in [Node -> Node \cup {Nil}]
        /\ elected' \subseteq Elections
    <3>1. CASE UNCHANGED <<state, currentTerm, votedFor, leaderId, elected>>
      BY <3>1 DEF ElectionTypeOK
    <3>2. CASE BecomeFollower(i, call[i].term, Nil) /\ elected' = elected
      BY <3>2, <2>1, BecomeFollowerType DEF ElectionTypeOK
    <3>3. CASE BecomeLeader(i, voters)
      BY <3>3, <2>1 DEF ElectionTypeOK, BecomeLeader, Roles, Elections
    <3>. QED  BY <1>4, <3>1, <3>2, <3>3 DEF ReceiveVote
  <2>. QED  BY <2>2, <2>3, <2>4 DEF ElectionTypeOK
<1>5. ASSUME NEW i \in Node, NEW logOk \in BOOLEAN, HandleVoteCall(i, logOk)
      PROVE  ElectionTypeOK'
  <2>1. call[i].status # "none"
    BY <1>5 DEF HandleVoteCall
  <2>2. RequestOf(i) \in Requests /\ HandleRequestVote(RequestOf(i).to, RequestOf(i), logOk)
    BY <1>5, <2>1, RequestType DEF HandleVoteCall
  <2>3. /\ call[i].peer \in Node
        /\ currentTerm[call[i].peer] \in Nat /\ round[i].term \in Nat
        /\ GrantsVote(call[i].peer, RequestOf(i), logOk) \in BOOLEAN
    BY <2>1 DEF ElectionTypeOK, Rounds, GrantsVote
  <2>4. call' \in [Node -> Calls]
    <3>1. \A t \in Nat, g \in BOOLEAN :
            [call[i] EXCEPT !.status = "answered", !.term = t, !.voteGranted = g] \in Calls
      <4>1. call[i] \in Calls
        BY DEF ElectionTypeOK
      <4>. QED  BY <4>1 DEF Calls
    <3>2. PICK t \in Nat, g \in BOOLEAN :
            call' = [call EXCEPT ![i] = [call[i] EXCEPT !.status = "answered",
                                           !.term = t, !.voteGranted = g]]
      BY <1>5, <2>3 DEF HandleVoteCall
    <3>. QED  BY <3>1, <3>2 DEF ElectionTypeOK
  <2>5. \A k \in Node : call'[k].status # "none" => call'[k].peer \in Node \ {k}
    BY <1>5, <2>1 DEF ElectionTypeOK, HandleVoteCall, Calls
  <2>. QED  BY <1>5, <2>2, <2>4, <2>5, HandleRequestVoteType
            DEF ElectionTypeOK, HandleVoteCall
<1>6. ASSUME NEW m \in stray, NEW logOk \in BOOLEAN, HandleStrayVote(m, logOk)
      PROVE  ElectionTypeOK'
  BY <1>6, HandleRequestVoteType DEF ElectionTypeOK, HandleStrayVote
<1>7. ASSUME NEW j \in Node, NEW e \in elected, HandleLeaderRpc(j, e)
      PROVE  ElectionTypeOK'
  <2>1. e.term \in Nat /\ e.leader \in Node
    BY DEF ElectionTypeOK, Elections
  <2>. QED  BY <1>7, <2>1, BecomeFollowerType DEF ElectionTypeOK, HandleLeaderRpc, FollowLeader
<1>8. ASSUME NEW i \in Node, NEW t \in Nat, LearnTerm(i, t)
      PROVE  ElectionTypeOK'
  BY <1>8, BecomeFollowerType DEF ElectionTypeOK, LearnTerm
<1>9. ASSUME NEW i \in Node, Restart(i)
      PROVE  ElectionTypeOK'
  <2>1. /\ round' \in [Node -> Rounds]
        /\ \A k \in Node : k \notin round'[k].todo
    BY <1>9, NoRoundType DEF ElectionTypeOK, Restart, EndElection, NoRound
  <2>2. state' \in [Node -> Roles] /\ leaderId' \in [Node -> Node \cup {Nil}]
    BY <1>9 DEF ElectionTypeOK, Restart, Roles
  <2>. QED  BY <1>9, <2>1, <2>2, AbandonCallType DEF ElectionTypeOK, Restart
<1>10. CASE UNCHANGED electionVars
  BY <1>10 DEF ElectionTypeOK, electionVars
<1>11. \A j \in Node : \A t \in 0 .. currentTerm[j] : t \in Nat
  BY DEF ElectionTypeOK
<1>. QED  BY <1>1, <1>2, <1>3, <1>4, <1>5, <1>6, <1>7, <1>8, <1>9, <1>10, <1>11
          DEF ElectionNext

THEOREM ElectionTypes == ElectionSpec => []ElectionTypeOK
  BY TypeInit, TypeStep, PTL DEF ElectionSpec

-----------------------------------------------------------------------------
(***************************************************************************)
(* What one step can do to terms, votes and elections.  The invariant      *)
(* follows from these facts alone.                                         *)
(***************************************************************************)

\* The vote v gives candidate c in this step.
Grants(v, c) ==
    /\ v # c
    /\ currentTerm[v] <= currentTerm[c]
    /\ currentTerm[v] = currentTerm[c] => votedFor[v] \in {Nil, c}
    /\ currentTerm'[v] = currentTerm[c]
    /\ votedFor'[v] = c

\* c starts a round in this step.
Starts(c) ==
    /\ currentTerm'[c] = currentTerm[c] + 1
    /\ votedFor'[c] = c
    /\ round'[c].term = currentTerm'[c]
    /\ round'[c].granted = {c}
    /\ Votes(c)' = {c}

\* c is a candidate before and after this step.
Continues(c) ==
    /\ state[c] = "Candidate"
    /\ currentTerm'[c] = currentTerm[c]
    /\ round'[c].term = round[c].term
    /\ round[c].granted \subseteq round'[c].granted
    /\ \A v \in Votes(c)' : v \in Votes(c) \/ Grants(v, c)

\* i wins the election of its current term in this step.
Wins(i) ==
    /\ state[i] = "Candidate"
    /\ state' = [state EXCEPT ![i] = "Leader"]
    /\ UNCHANGED <<currentTerm, votedFor>>
    /\ \E S \in SUBSET Votes(i) :
         /\ IsMajority(S)
         /\ round[i].granted \subseteq S
         /\ elected' = elected \cup
              {[term |-> currentTerm[i], leader |-> i, voters |-> S]}

StepFacts ==
    /\ \A j \in Node : currentTerm'[j] >= currentTerm[j]
    /\ \A j \in Node :
         votedFor'[j] # votedFor[j] /\ currentTerm'[j] = currentTerm[j]
           => \/ votedFor[j] = Nil
              \/ state[j] = "Candidate" /\ state'[j] = "Follower"
    /\ \A c \in Node : state'[c] = "Candidate" => Starts(c) \/ Continues(c)
    /\ \A i \in Node : state'[i] = "Leader" =>
         \/ /\ state[i] = "Leader"
            /\ currentTerm'[i] = currentTerm[i]
         \/ Wins(i)
    /\ elected' = elected \/ \E i \in Node : Wins(i)
    /\ \A i \in Node : round'[i].term \in {0, round[i].term, currentTerm'[i]}
    /\ \A m \in stray' : m \in stray \/ m.term = round[m.from].term

LEMMA FactsStart ==
    ASSUME ElectionInv, NEW i \in Node, NEW pos \in LogPos, StartElection(i, pos)
    PROVE  StepFacts
  BY DEF ElectionInv, ElectionTypeOK, StartElection, ElectionIdle, StepFacts,
         Starts, Continues, Votes, Rounds, Calls

LEMMA FactsCall ==
    ASSUME ElectionInv, NEW i \in Node, NEW j \in Node, CallRequestVote(i, j)
    PROVE  StepFacts
  BY DEF ElectionInv, ElectionTypeOK, CallRequestVote, StepFacts,
         Starts, Continues, Votes, Rounds, Calls, NoCall

LEMMA FactsCallFails ==
    ASSUME ElectionInv, NEW i \in Node, VoteCallFails(i)
    PROVE  StepFacts
  BY DEF ElectionInv, ElectionTypeOK, VoteCallFails, AbandonCall, StepFacts,
         Starts, Continues, Votes, Rounds, Calls, NoCall, RequestOf

LEMMA FactsReceive ==
    ASSUME ElectionInv, NEW i \in Node, ReceiveVote(i)
    PROVE  StepFacts
<1> DEFINE voters == round[i].granted \cup {call[i].peer}
<1>1. /\ call[i].status = "answered"
      /\ call' = [call EXCEPT ![i] = NoCall]
      /\ stray' = stray
      /\ voters \in SUBSET Node
      /\ call[i].term \in Nat
  BY DEF ReceiveVote, ElectionInv, ElectionTypeOK, Rounds, Calls
<1>2. \A c \in Node : round'[c].granted \subseteq Node /\ round'[c] = round[c] => Votes(c)' \subseteq Votes(c)
  BY <1>1 DEF ElectionInv, ElectionTypeOK, Votes, NoCall
<1>3. CASE /\ EndElection(i)
           /\ UNCHANGED <<state, currentTerm, votedFor, leaderId, elected>>
           /\ RoundIsStale(i)
  BY <1>1, <1>3 DEF ElectionInv, ElectionTypeOK, EndElection, StepFacts, RoundIsStale,
     CampaignInv, Continues, Votes, Rounds, Calls, NoCall, NoRound
<1>4. CASE /\ BecomeFollower(i, call[i].term, Nil)
           /\ call[i].term > currentTerm[i]
           /\ EndElection(i)
           /\ UNCHANGED elected
  BY <1>1, <1>4 DEF ElectionInv, ElectionTypeOK, BecomeFollower, EndElection, StepFacts,
     Continues, Votes, Rounds, Calls, NoCall, NoRound
<1>5. CASE /\ ~RoundIsStale(i)
           /\ call[i].voteGranted
           /\ IsMajority(voters)
           /\ BecomeLeader(i, voters)
           /\ EndElection(i)
  <2>1. Wins(i)
    <3>1. voters \in SUBSET Votes(i)
      BY <1>1, <1>5 DEF Votes
    <3>2. state[i] = "Candidate" /\ state' = [state EXCEPT ![i] = "Leader"]
      BY <1>5 DEF RoundIsStale, BecomeLeader
    <3>. QED  BY <1>5, <3>1, <3>2 DEF Wins, BecomeLeader
  <2>2. \A c \in Node : state'[c] = "Candidate" => Continues(c)
    BY <1>1, <1>5 DEF ElectionInv, ElectionTypeOK, BecomeLeader, EndElection,
       Continues, Votes, Rounds, Calls, NoCall
  <2>. QED  BY <1>1, <1>5, <2>1, <2>2
            DEF ElectionInv, ElectionTypeOK, BecomeLeader, EndElection, StepFacts,
                Rounds, NoRound
<1>6. CASE /\ call[i].voteGranted
           /\ round' = [round EXCEPT ![i].granted = voters]
           /\ UNCHANGED <<state, currentTerm, votedFor, leaderId, elected>>
  BY <1>1, <1>6 DEF ElectionInv, ElectionTypeOK, StepFacts,
     Continues, Votes, Rounds, Calls, NoCall
<1>7. CASE UNCHANGED <<state, currentTerm, votedFor, leaderId, round, elected>>
  BY <1>1, <1>7 DEF ElectionInv, ElectionTypeOK, StepFacts,
     Continues, Votes, Rounds, Calls, NoCall
<1>. QED  BY <1>3, <1>4, <1>5, <1>6, <1>7 DEF ReceiveVote

LEMMA FactsVoteCall ==
    ASSUME ElectionInv, NEW i \in Node, NEW logOk \in BOOLEAN, HandleVoteCall(i, logOk)
    PROVE  StepFacts
<1> DEFINE j == call[i].peer
           m == RequestOf(i)
<1>1. /\ call[i].status = "sent"
      /\ m \in Requests /\ m.from = i /\ m.term = round[i].term
      /\ j \in Node /\ j # i
  BY RequestType DEF HandleVoteCall, ElectionInv
<1>2. /\ HandleRequestVote(j, m, logOk)
      /\ UNCHANGED <<round, stray, elected>>
      /\ \A c \in Node \ {i} : call'[c] = call[c]
      /\ call'[i].peer = j
      /\ call'[i].voteGranted => GrantsVote(j, m, logOk)
  BY <1>1 DEF HandleVoteCall, ElectionInv, ElectionTypeOK
<1>3. \A c \in Node : /\ currentTerm'[c] >= currentTerm[c]
                      /\ state'[c] # "Follower" => state'[c] = state[c] /\ currentTerm'[c] = currentTerm[c]
                      /\ c # j => currentTerm'[c] = currentTerm[c]
  BY <1>1, <1>2 DEF HandleRequestVote, ElectionInv, ElectionTypeOK, Requests, Roles
<1>4. \A k \in Node : votedFor'[k] # votedFor[k] /\ currentTerm'[k] = currentTerm[k]
           => votedFor[k] = Nil
  BY <1>1, <1>2 DEF HandleRequestVote, GrantsVote, VoteIn, ElectionInv, ElectionTypeOK, Requests
<1>5. \A c \in Node \ {i} : Votes(c)' = Votes(c)
  BY <1>2 DEF Votes
<1>6. \A v \in Votes(i)' : v \in Votes(i) \/ (v = j /\ GrantsVote(j, m, logOk))
  <2>1. ASSUME NEW v \in Votes(i)', v \notin Votes(i)
        PROVE  v = call'[i].peer /\ call'[i].voteGranted
    BY <1>2, <2>1 DEF Votes
  <2>. HIDE DEF m, j
  <2>. QED  BY <1>2, <2>1
<1>7. state'[i] = "Candidate" /\ GrantsVote(j, m, logOk) => Grants(j, i)
  <2>1. SUFFICES ASSUME state'[i] = "Candidate", GrantsVote(j, m, logOk)
                 PROVE  Grants(j, i)
    OBVIOUS
  <2>2. m.term = currentTerm[i]
    BY <1>1, <1>3, <2>1 DEF ElectionInv, CampaignInv
  <2>3. /\ currentTerm[j] <= currentTerm[i]
        /\ VoteIn(j, m.term) \in {Nil, i}
    BY <1>1, <2>1, <2>2 DEF GrantsVote
  <2>4. currentTerm'[j] = currentTerm[i] /\ votedFor'[j] = i
    BY <1>1, <1>2, <2>1, <2>2, <2>3 DEF HandleRequestVote, ElectionInv, ElectionTypeOK
  <2>. QED  BY <1>1, <2>2, <2>3, <2>4 DEF Grants, VoteIn, ElectionInv, ElectionTypeOK
<1>8. \A c \in Node : state'[c] = "Candidate" => Continues(c)
  BY <1>2, <1>3, <1>5, <1>6, <1>7 DEF Continues
<1>. QED  BY <1>2, <1>3, <1>4, <1>8 DEF StepFacts

LEMMA FactsStray ==
    ASSUME ElectionInv, NEW m \in stray, NEW logOk \in BOOLEAN, HandleStrayVote(m, logOk)
    PROVE  StepFacts
  BY DEF ElectionInv, ElectionTypeOK, HandleStrayVote, HandleRequestVote, StepFacts,
         GrantsVote, VoteIn, PastInv, CampaignInv, Grants, Requests,
         Starts, Continues, Votes, Rounds, Calls, NoCall, NoRound

LEMMA FactsLeaderRpc ==
    ASSUME ElectionInv, NEW j \in Node, NEW e \in elected, HandleLeaderRpc(j, e)
    PROVE  StepFacts
<1>1. e.term \in Nat /\ e.leader \in Node
  BY DEF ElectionInv, ElectionTypeOK, Elections
<1>2. UNCHANGED <<round, call, stray, elected>>
  BY DEF HandleLeaderRpc
<1>3. state[j] = "Leader" => e.term > currentTerm[j]
  <2>1. e.term >= currentTerm[j] /\ e.leader # j
    BY DEF HandleLeaderRpc
  <2>2. currentTerm[j] \in Nat
    BY DEF ElectionInv, ElectionTypeOK
  <2>3. ASSUME state[j] = "Leader", e.term = currentTerm[j]
        PROVE  FALSE
    <3>1. PICK d \in elected : d.leader = j /\ d.term = currentTerm[j]
      BY <2>3 DEF ElectionInv, LeaderInv
    <3>. QED  BY <2>1, <2>3, <3>1 DEF ElectionInv, ElectionSafety
  <2>. QED  BY <1>1, <2>1, <2>2, <2>3
<1>4. CASE BecomeFollower(j, e.term, e.leader)
  <2>1. \A k \in Node : currentTerm'[k] >= currentTerm[k]
    BY <1>1, <1>4 DEF HandleLeaderRpc, FollowLeader, BecomeFollower, ElectionInv, ElectionTypeOK
  <2>2. \A k \in Node : votedFor'[k] # votedFor[k] /\ currentTerm'[k] = currentTerm[k]
           => state[k] = "Candidate" /\ state'[k] = "Follower"
    BY <1>1, <1>3, <1>4
    DEF HandleLeaderRpc, FollowLeader, BecomeFollower, ElectionInv, ElectionTypeOK, Roles
  <2>3. \A c \in Node \ {j} : /\ state'[c] = state[c]
                              /\ currentTerm'[c] = currentTerm[c]
    BY <1>4 DEF BecomeFollower, ElectionInv, ElectionTypeOK
  <2>4. \A c \in Node : Votes(c)' = Votes(c)
    BY <1>2 DEF Votes
  <2>5. state'[j] = "Follower"
    BY <1>4 DEF BecomeFollower, ElectionInv, ElectionTypeOK
  <2>6. \A c \in Node : state'[c] = "Candidate" => Continues(c)
    BY <1>2, <2>3, <2>4, <2>5 DEF Continues
  <2>. QED  BY <1>2, <2>1, <2>2, <2>3, <2>5, <2>6 DEF StepFacts
<1>5. CASE UNCHANGED <<state, currentTerm, votedFor>>
  <2>1. \A c \in Node : Votes(c)' = Votes(c)
    BY <1>2 DEF Votes
  <2>. QED  BY <1>2, <1>5, <2>1 DEF StepFacts, Continues, ElectionInv, ElectionTypeOK
<1>. QED  BY <1>4, <1>5 DEF HandleLeaderRpc, FollowLeader

LEMMA FactsLearn ==
    ASSUME ElectionInv, NEW i \in Node, NEW t \in Nat, LearnTerm(i, t)
    PROVE  StepFacts
  BY DEF ElectionInv, ElectionTypeOK, LearnTerm, BecomeFollower, StepFacts,
         Starts, Continues, Votes, Rounds, Calls, NoCall, NoRound

LEMMA FactsRestart ==
    ASSUME ElectionInv, NEW i \in Node, Restart(i)
    PROVE  StepFacts
  BY DEF ElectionInv, ElectionTypeOK, Restart, AbandonCall, EndElection, StepFacts,
         RequestOf, Starts, Continues, Votes, Rounds, Calls, NoCall, NoRound

LEMMA FactsNext ==
    ASSUME ElectionInv, [ElectionNext]_electionVars
    PROVE  StepFacts
<1>1. CASE UNCHANGED electionVars
  BY <1>1 DEF electionVars, StepFacts, Continues, Votes, ElectionInv, ElectionTypeOK
<1>2. CASE ElectionNext
  <2>1. \A j \in Node : \A t \in 0 .. currentTerm[j] : t \in Nat
    BY DEF ElectionInv, ElectionTypeOK
  <2>. QED  BY <1>2, <2>1, FactsStart, FactsCall, FactsCallFails, FactsReceive,
               FactsVoteCall, FactsStray, FactsLeaderRpc, FactsLearn, FactsRestart
            DEF ElectionNext
<1>. QED  BY <1>1, <1>2

-----------------------------------------------------------------------------
(***************************************************************************)
(* The invariant is inductive.                                             *)
(***************************************************************************)

LEMMA InvInit == ElectionInit => ElectionInv
<1>. SUFFICES ASSUME ElectionInit PROVE ElectionInv
  OBVIOUS
<1>1. ElectionTypeOK
  BY TypeInit
<1>2. /\ CampaignInv /\ LeaderInv /\ VotesInv /\ RivalsInv
      /\ HistoryInv /\ ElectionSafety
  BY DEF ElectionInit, CampaignInv, LeaderInv, VotesInv, RivalsInv,
         HistoryInv, ElectionSafety
<1>3. PastInv
  BY DEF ElectionInit, PastInv, NoRound
<1>. QED  BY <1>1, <1>2, <1>3 DEF ElectionInv

\* A spent vote stays spent: a voter that is a candidate itself voted for itself,
\* and only a candidate's vote is ever thrown away.
LEMMA SpentForever ==
    ASSUME ElectionInv, StepFacts, ElectionTypeOK',
           NEW v \in Node, NEW c \in Node, NEW t \in Nat,
           VoteSpent(v, c, t),
           v = c => state[v] # "Candidate" \/ t < currentTerm[v] \/ state'[v] # "Follower"
    PROVE  VoteSpent(v, c, t)'
<1>1. /\ currentTerm[v] \in Nat /\ currentTerm'[v] \in Nat
      /\ currentTerm'[v] >= currentTerm[v]
  BY DEF ElectionInv, ElectionTypeOK, StepFacts
<1>2. CASE currentTerm'[v] > t
  BY <1>2 DEF VoteSpent
<1>3. CASE currentTerm'[v] = t
  <2>1. currentTerm[v] = t /\ votedFor[v] = c /\ c # Nil
    BY <1>1, <1>3, ElectionAssumption DEF VoteSpent
  <2>2. state[v] = "Candidate" => v = c
    BY <2>1 DEF ElectionInv, CampaignInv
  <2>3. votedFor'[v] = c
    BY <1>1, <1>3, <2>1, <2>2 DEF StepFacts
  <2>. QED  BY <1>3, <2>3 DEF VoteSpent
<1>. QED  BY <1>1, <1>2, <1>3 DEF VoteSpent

LEMMA ElectionMonotone ==
    ASSUME ElectionInv, StepFacts
    PROVE  /\ elected \subseteq elected'
           /\ \A e \in elected' : e \in elected \/
                /\ Wins(e.leader)
                /\ e.leader \in Node
                /\ e.term = currentTerm[e.leader]
                /\ e.voters \subseteq Votes(e.leader)
                /\ e.leader \in e.voters
                /\ IsMajority(e.voters)
<1>1. CASE elected' = elected
  BY <1>1
<1>2. ASSUME NEW i \in Node, Wins(i)
      PROVE  /\ elected \subseteq elected'
             /\ \A e \in elected' : e \in elected \/
                  /\ e.leader = i
                  /\ e.term = currentTerm[i]
                  /\ e.voters \subseteq Votes(i)
                  /\ i \in e.voters
                  /\ IsMajority(e.voters)
  <2>1. i \in round[i].granted
    BY <1>2 DEF Wins, ElectionInv, CampaignInv
  <2>. QED  BY <1>2, <2>1 DEF Wins
<1>. QED  BY <1>1, <1>2 DEF StepFacts

LEMMA CampaignStep ==
    ASSUME ElectionInv, StepFacts, ElectionTypeOK'
    PROVE  CampaignInv'
<1>. SUFFICES ASSUME NEW i \in Node, state'[i] = "Candidate"
              PROVE  /\ votedFor'[i] = i
                     /\ round'[i].term = currentTerm'[i]
                     /\ i \in round'[i].granted
                     /\ \A e \in elected' : e.leader = i => e.term < currentTerm'[i]
  BY DEF CampaignInv
<1>1. \A e \in elected' : e.leader = i => e \in elected
  BY ElectionMonotone DEF Wins, ElectionInv, ElectionTypeOK
<1>2. CASE Starts(i)
  <2>1. \A e \in elected : e.leader = i => e.term <= currentTerm[i]
    BY DEF ElectionInv, HistoryInv, VoteSpent, ElectionTypeOK, Elections
  <2>. QED  BY <1>1, <1>2, <2>1 DEF Starts, ElectionInv, ElectionTypeOK, Elections
<1>3. CASE Continues(i)
  <2>1. votedFor[i] = i /\ i # Nil
    BY <1>3, ElectionAssumption DEF Continues, ElectionInv, CampaignInv
  <2>2. votedFor'[i] = i
    BY <1>3, <2>1 DEF Continues, StepFacts
  <2>. QED  BY <1>1, <1>3, <2>2 DEF Continues, ElectionInv, CampaignInv
<1>. QED  BY <1>2, <1>3 DEF StepFacts

LEMMA LeaderStep ==
    ASSUME ElectionInv, StepFacts, ElectionTypeOK'
    PROVE  LeaderInv'
<1>. SUFFICES ASSUME NEW i \in Node, state'[i] = "Leader"
              PROVE  /\ votedFor'[i] = i
                     /\ \E e \in elected' : e.leader = i /\ e.term = currentTerm'[i]
  BY DEF LeaderInv
<1>1. CASE state[i] = "Leader" /\ currentTerm'[i] = currentTerm[i]
  <2>1. votedFor[i] = i /\ i # Nil
    BY <1>1, ElectionAssumption DEF ElectionInv, LeaderInv
  <2>2. votedFor'[i] = i
    BY <1>1, <2>1 DEF StepFacts
  <2>3. PICK e \in elected : e.leader = i /\ e.term = currentTerm[i]
    BY <1>1 DEF ElectionInv, LeaderInv
  <2>. QED  BY <1>1, <2>2, <2>3, ElectionMonotone
<1>2. CASE Wins(i)
  <2>1. votedFor'[i] = i
    BY <1>2 DEF Wins, ElectionInv, CampaignInv
  <2>2. PICK S \in SUBSET Votes(i) :
          elected' = elected \cup
            {[term |-> currentTerm[i], leader |-> i, voters |-> S]}
    BY <1>2 DEF Wins
  <2>3. /\ [term |-> currentTerm[i], leader |-> i, voters |-> S] \in elected'
        /\ currentTerm'[i] = currentTerm[i]
    BY <1>2, <2>2 DEF Wins
  <2>. QED  BY <2>1, <2>3
<1>. QED  BY <1>1, <1>2 DEF StepFacts

LEMMA PastStep ==
    ASSUME ElectionInv, StepFacts, ElectionTypeOK'
    PROVE  PastInv'
<1>1. \A i \in Node : round[i].term <= currentTerm'[i]
  BY DEF ElectionInv, PastInv, StepFacts, ElectionTypeOK, Rounds
<1>2. \A i \in Node : round'[i].term <= currentTerm'[i]
  BY <1>1 DEF StepFacts, ElectionTypeOK
<1>3. ASSUME NEW m \in stray' PROVE m.term <= currentTerm'[m.from]
  <2>1. m.from \in Node
    BY <1>3 DEF ElectionTypeOK, Requests
  <2>2. CASE m \in stray
    BY <2>1, <2>2 DEF ElectionInv, PastInv, StepFacts, ElectionTypeOK, Requests
  <2>3. CASE m.term = round[m.from].term
    BY <1>1, <2>1, <2>3
  <2>. QED  BY <1>3, <2>2, <2>3 DEF StepFacts
<1>. QED  BY <1>2, <1>3 DEF PastInv

\* A grant is never made by a voter already spent on somebody else.
LEMMA GrantExcludes ==
    ASSUME ElectionInv, NEW v \in Node, NEW c \in Node, NEW d \in Node,
           Grants(v, c), VoteSpent(v, d, currentTerm[c])
    PROVE  c = d
  BY ElectionAssumption DEF Grants, VoteSpent, ElectionInv, ElectionTypeOK

LEMMA VotesAreNodes ==
    ASSUME ElectionTypeOK, NEW c \in Node
    PROVE  Votes(c) \subseteq Node
  BY DEF ElectionTypeOK, Votes, Rounds

LEMMA VotesStep ==
    ASSUME ElectionInv, StepFacts, ElectionTypeOK'
    PROVE  VotesInv'
<1>. SUFFICES ASSUME NEW c \in Node, state'[c] = "Candidate", NEW v \in Votes(c)'
              PROVE  VoteSpent(v, c, currentTerm[c])'
  BY DEF VotesInv
<1>1. CASE Starts(c)
  BY <1>1 DEF Starts, VoteSpent
<1>2. CASE Continues(c)
  <2>1. CASE v \in Votes(c)
    <3>1. VoteSpent(v, c, currentTerm[c]) /\ currentTerm[c] \in Nat /\ v \in Node
      BY <1>2, <2>1, VotesAreNodes DEF Continues, ElectionInv, VotesInv, ElectionTypeOK
    <3>2. VoteSpent(v, c, currentTerm[c]) /\ currentTerm'[c] = currentTerm[c]
      BY <1>2, <3>1 DEF Continues
    <3>3. currentTerm'[v] > currentTerm[c] \/
            (currentTerm'[v] = currentTerm[c] /\ votedFor'[v] = c)
      BY <3>1, SpentForever DEF VoteSpent
    <3>. QED  BY <3>2, <3>3 DEF VoteSpent
  <2>2. CASE Grants(v, c)
    BY <1>2, <2>2 DEF Grants, Continues, VoteSpent
  <2>. QED  BY <1>2, <2>1, <2>2 DEF Continues
<1>. QED  BY <1>1, <1>2 DEF StepFacts

LEMMA RivalsStep ==
    ASSUME ElectionInv, StepFacts, ElectionTypeOK'
    PROVE  RivalsInv'
<1>1. SUFFICES ASSUME NEW c \in Node, NEW d \in Node, c # d,
                      state'[c] = "Candidate", state'[d] = "Candidate",
                      currentTerm'[c] = currentTerm'[d],
                      NEW v \in Votes(c)' \cap Votes(d)'
               PROVE  FALSE
  BY DEF RivalsInv
<1>2. v \in Node
  BY DEF ElectionTypeOK, Votes, Rounds
<1>3. ASSUME NEW a \in Node, NEW b \in Node, a # b, Starts(a), Continues(b),
             currentTerm'[a] = currentTerm'[b], a \in Votes(b)'
      PROVE  FALSE
  <2>1. CASE a \in Votes(b)
    <3>1. VoteSpent(a, b, currentTerm[b])
      BY <1>3, <2>1 DEF Continues, ElectionInv, VotesInv
    <3>. QED  BY <1>3, <3>1 DEF VoteSpent, Starts, Continues, ElectionInv, ElectionTypeOK
  <2>2. CASE Grants(a, b)
    BY <1>3, <2>2 DEF Grants, Starts
  <2>. QED  BY <1>3, <2>1, <2>2 DEF Continues
<1>4. CASE Starts(c) /\ Starts(d)
  BY <1>1, <1>4 DEF Starts
<1>5. CASE Starts(c) /\ Continues(d)
  BY <1>1, <1>3, <1>5 DEF Starts
<1>6. CASE Continues(c) /\ Starts(d)
  BY <1>1, <1>3, <1>6 DEF Starts
<1>7. CASE Continues(c) /\ Continues(d)
  <2>1. currentTerm[c] = currentTerm[d]
    BY <1>1, <1>7 DEF Continues
  <2>2. ~(v \in Votes(c) /\ v \in Votes(d))
    BY <1>1, <1>7, <2>1 DEF Continues, ElectionInv, RivalsInv
  <2>3. ~(v \in Votes(c) /\ Grants(v, d))
    BY <1>1, <1>2, <1>7, <2>1, GrantExcludes DEF Continues, ElectionInv, VotesInv
  <2>4. ~(Grants(v, c) /\ v \in Votes(d))
    BY <1>1, <1>2, <1>7, <2>1, GrantExcludes DEF Continues, ElectionInv, VotesInv
  <2>5. ~(Grants(v, c) /\ Grants(v, d))
    BY <1>1 DEF Grants
  <2>. QED  BY <1>1, <1>7, <2>2, <2>3, <2>4, <2>5 DEF Continues
<1>. QED  BY <1>1, <1>4, <1>5, <1>6, <1>7 DEF StepFacts

LEMMA HistoryStep ==
    ASSUME ElectionInv, StepFacts, ElectionTypeOK'
    PROVE  HistoryInv'
<1>1. SUFFICES ASSUME NEW e \in elected'
               PROVE  /\ IsMajority(e.voters)
                      /\ e.leader \in e.voters
                      /\ \A v \in e.voters : VoteSpent(v, e.leader, e.term)'
                      /\ \A c \in Node :
                           state'[c] = "Candidate" /\ currentTerm'[c] = e.term
                             => Votes(c)' \cap e.voters = {}
  BY DEF HistoryInv, IsMajority
<1>2. e \in Elections /\ e.leader \in Node /\ e.term \in Nat /\ e.voters \subseteq Node
  BY DEF ElectionTypeOK, Elections
\* The voters are spent and disjoint from the votes of its rivals before the step.
<1>3. /\ IsMajority(e.voters)
      /\ e.leader \in e.voters
      /\ \A v \in e.voters : VoteSpent(v, e.leader, e.term)
      /\ \A c \in Node \ {e.leader} :
           state[c] = "Candidate" /\ currentTerm[c] = e.term
             => Votes(c) \cap e.voters = {}
      /\ state'[e.leader] = "Candidate" => e.term < currentTerm'[e.leader]
      /\ state[e.leader] = "Candidate" =>
           e.term < currentTerm[e.leader] \/ state'[e.leader] # "Follower"
  <2>1. CASE e \in elected
    <3>1. state[e.leader] = "Candidate" => e.term < currentTerm[e.leader]
      BY <1>2, <2>1 DEF ElectionInv, CampaignInv
    <3>2. state'[e.leader] = "Candidate" => e.term < currentTerm'[e.leader]
      BY <1>1, <1>2, CampaignStep DEF CampaignInv
    <3>. QED  BY <2>1, <3>1, <3>2 DEF ElectionInv, HistoryInv
  <2>2. CASE e \notin elected
    <3>1. /\ Wins(e.leader)
          /\ e.term = currentTerm[e.leader]
          /\ e.voters \subseteq Votes(e.leader)
          /\ e.leader \in e.voters
          /\ IsMajority(e.voters)
      BY <1>1, <2>2, ElectionMonotone
    <3>2. state[e.leader] = "Candidate" /\ state'[e.leader] = "Leader"
      BY <1>2, <3>1 DEF Wins, ElectionInv, ElectionTypeOK
    <3>3. \A v \in e.voters : VoteSpent(v, e.leader, e.term)
      BY <1>2, <3>1, <3>2 DEF ElectionInv, VotesInv
    <3>4. \A c \in Node \ {e.leader} :
            state[c] = "Candidate" /\ currentTerm[c] = e.term
              => Votes(c) \cap e.voters = {}
      BY <1>2, <3>1, <3>2 DEF ElectionInv, RivalsInv
    <3>. QED  BY <3>1, <3>2, <3>3, <3>4
  <2>. QED  BY <2>1, <2>2
<1>4. ASSUME NEW v \in e.voters
      PROVE  VoteSpent(v, e.leader, e.term)'
  <2>1. currentTerm'[v] > e.term \/ (currentTerm'[v] = e.term /\ votedFor'[v] = e.leader)
    BY <1>2, <1>3, SpentForever DEF VoteSpent
  <2>. QED  BY <2>1 DEF VoteSpent
<1>5. ASSUME NEW c \in Node, state'[c] = "Candidate", currentTerm'[c] = e.term,
             NEW v \in Votes(c)' \cap e.voters
      PROVE  FALSE
  <2>1. c # e.leader
    BY <1>2, <1>3, <1>5
  <2>2. CASE Starts(c)
    <3>1. v = c
      BY <1>5, <2>2 DEF Starts
    <3>2. VoteSpent(c, e.leader, e.term)
      BY <1>3, <1>5, <3>1
    <3>. QED  BY <1>5, <2>2, <3>2 DEF Starts, VoteSpent, ElectionInv, ElectionTypeOK
  <2>3. CASE Continues(c)
    <3>1. v \notin Votes(c)
      BY <1>3, <1>5, <2>1, <2>3 DEF Continues
    <3>2. Grants(v, c)
      BY <1>5, <2>3, <3>1 DEF Continues
    <3>3. VoteSpent(v, e.leader, currentTerm[c])
      BY <1>3, <1>5, <2>3 DEF Continues
    <3>. QED  BY <1>2, <2>1, <3>2, <3>3, GrantExcludes
  <2>. QED  BY <1>5, <2>2, <2>3 DEF StepFacts
<1>. QED  BY <1>3, <1>4, <1>5

LEMMA SafetyStep ==
    ASSUME ElectionInv, StepFacts, ElectionTypeOK'
    PROVE  ElectionSafety'
<1>1. ASSUME NEW d \in elected, NEW e \in elected', e \notin elected, d.term = e.term
      PROVE  d.leader = e.leader
  <2>1. /\ Wins(e.leader)
        /\ e.leader \in Node
        /\ e.term = currentTerm[e.leader]
        /\ e.voters \subseteq Votes(e.leader)
        /\ IsMajority(e.voters)
    BY <1>1, ElectionMonotone
  <2>2. Votes(e.leader) \cap d.voters = {} /\ IsMajority(d.voters)
    BY <1>1, <2>1 DEF Wins, ElectionInv, HistoryInv
  <2>3. d.voters \subseteq Node /\ e.voters \subseteq Node
    BY <1>1 DEF ElectionInv, ElectionTypeOK, Elections
  <2>. QED  BY <2>1, <2>2, <2>3, MajoritiesIntersect
<1>2. ASSUME NEW d \in elected', NEW e \in elected', d \notin elected, e \notin elected
      PROVE  d.leader = e.leader
  <2>1. /\ Wins(d.leader) /\ d.leader \in Node
        /\ Wins(e.leader) /\ e.leader \in Node
    BY <1>2, ElectionMonotone
  <2>. QED  BY <2>1 DEF Wins, ElectionInv, ElectionTypeOK
<1>3. \A d, e \in elected : d.term = e.term => d.leader = e.leader
  BY DEF ElectionInv, ElectionSafety
<1>. QED  BY <1>1, <1>2, <1>3 DEF ElectionSafety

\* ElectionInv holds in every reachable state, for every set of nodes.
THEOREM ElectionInvariant == ElectionSpec => []ElectionInv
<1>1. ElectionInv /\ [ElectionNext]_electionVars => ElectionInv'
  <2>. SUFFICES ASSUME ElectionInv, [ElectionNext]_electionVars PROVE ElectionInv'
    OBVIOUS
  <2>1. StepFacts
    BY FactsNext
  <2>2. ElectionTypeOK'
    BY TypeStep DEF ElectionInv
  <2>. QED  BY <2>1, <2>2, CampaignStep, LeaderStep, PastStep, VotesStep,
               RivalsStep, HistoryStep, SafetyStep DEF ElectionInv
<1>. QED  BY InvInit, <1>1, PTL DEF ElectionSpec

-----------------------------------------------------------------------------
(***************************************************************************)
(* The properties.                                                         *)
(***************************************************************************)

\* At most one node is ever elected in a term (startElection, handleRequestVote),
\* although a candidate that follows a leader of its own term forgets its vote.
THEOREM ElectionIsSafe == ElectionSpec => []ElectionSafety
<1>1. ElectionInv => ElectionSafety
  BY DEF ElectionInv
<1>. QED  BY ElectionInvariant, <1>1, PTL

\* leaderId_ always names the node elected in the current term: every handler
\* that changes the term resets it.
THEOREM LeaderIdIsSound == ElectionSpec => []LeaderIdIsElected
<1>1. ElectionInit => LeaderIdIsElected
  BY DEF ElectionInit, LeaderIdIsElected
<1>2. ASSUME ElectionInv, LeaderIdIsElected, [ElectionNext]_electionVars
      PROVE  LeaderIdIsElected'
  <2>1. elected \subseteq elected'
    BY <1>2, FactsNext, ElectionMonotone
  <2>2. SUFFICES ASSUME NEW j \in Node, leaderId'[j] # Nil,
                        ~ \E e \in elected : /\ e.term = currentTerm'[j]
                                             /\ e.leader = leaderId'[j]
                 PROVE  \E e \in elected' : /\ e.term = currentTerm'[j]
                                            /\ e.leader = leaderId'[j]
    BY <2>1 DEF LeaderIdIsElected
  <2>3. ~(leaderId'[j] = leaderId[j] /\ currentTerm'[j] = currentTerm[j])
    BY <1>2, <2>2 DEF LeaderIdIsElected
  <2>4. ASSUME NEW i \in Node, NEW pos \in LogPos, StartElection(i, pos) PROVE FALSE
    BY <1>2, <2>2, <2>3, <2>4 DEF StartElection, ElectionInv, ElectionTypeOK
  <2>5. ASSUME NEW i \in Node, ReceiveVote(i)
        PROVE \E e \in elected' : e.term = currentTerm'[j] /\ e.leader = leaderId'[j]
    <3>1. CASE BecomeFollower(i, call[i].term, Nil)
      BY <1>2, <2>2, <2>3, <3>1 DEF BecomeFollower, ElectionInv, ElectionTypeOK
    <3>2. CASE BecomeLeader(i, round[i].granted \cup {call[i].peer})
      <4>1. j = i /\ leaderId'[j] = i /\ currentTerm'[j] = currentTerm[i]
        BY <1>2, <2>3, <3>2 DEF BecomeLeader, ElectionInv, ElectionTypeOK
      <4>2. [term |-> currentTerm[i], leader |-> i,
             voters |-> round[i].granted \cup {call[i].peer}] \in elected'
        BY <3>2 DEF BecomeLeader
      <4>. QED  BY <4>1, <4>2
    <3>. QED  BY <2>3, <2>5, <3>1, <3>2 DEF ReceiveVote
  <2>6. ASSUME NEW k \in Node, NEW m, NEW logOk \in BOOLEAN, HandleRequestVote(k, m, logOk)
        PROVE  FALSE
    BY <1>2, <2>2, <2>3, <2>6 DEF HandleRequestVote, ElectionInv, ElectionTypeOK
  <2>7. ASSUME NEW i \in Node, NEW logOk \in BOOLEAN, HandleVoteCall(i, logOk)
        PROVE  FALSE
    BY <1>2, <2>6, <2>7, RequestType DEF HandleVoteCall, ElectionInv
  <2>8. ASSUME NEW m \in stray, NEW logOk \in BOOLEAN, HandleStrayVote(m, logOk)
        PROVE  FALSE
    BY <1>2, <2>6, <2>8 DEF HandleStrayVote, ElectionInv, ElectionTypeOK, Requests
  <2>9. ASSUME NEW k \in Node, NEW e \in elected, HandleLeaderRpc(k, e) PROVE FALSE
    <3>1. e.term \in Nat /\ currentTerm[k] \in Nat
      BY <1>2, <2>9 DEF ElectionInv, ElectionTypeOK, Elections
    <3>2. CASE BecomeFollower(k, e.term, e.leader)
      BY <1>2, <2>2, <2>3, <3>2 DEF BecomeFollower, ElectionInv, ElectionTypeOK
    <3>3. CASE /\ e.term <= currentTerm[k]
               /\ leaderId' = [leaderId EXCEPT ![k] = e.leader]
               /\ UNCHANGED <<state, currentTerm, votedFor>>
      <4>1. e.term = currentTerm[k]
        BY <2>9, <3>1, <3>3 DEF HandleLeaderRpc
      <4>. QED  BY <1>2, <2>2, <2>3, <2>9, <3>3, <4>1
                DEF HandleLeaderRpc, ElectionInv, ElectionTypeOK
    <3>. QED  BY <2>9, <3>2, <3>3 DEF HandleLeaderRpc, FollowLeader
  <2>10. ASSUME NEW i \in Node, NEW t, LearnTerm(i, t) PROVE FALSE
    BY <1>2, <2>2, <2>3, <2>10 DEF LearnTerm, BecomeFollower, ElectionInv, ElectionTypeOK
  <2>11. ASSUME NEW i \in Node, Restart(i) PROVE FALSE
    BY <1>2, <2>2, <2>3, <2>11 DEF Restart, ElectionInv, ElectionTypeOK
  <2>12. ASSUME NEW i \in Node, NEW k \in Node, CallRequestVote(i, k) PROVE FALSE
    BY <2>3, <2>12 DEF CallRequestVote
  <2>13. ASSUME NEW i \in Node, VoteCallFails(i) PROVE FALSE
    BY <2>3, <2>13 DEF VoteCallFails
  <2>14. CASE UNCHANGED electionVars
    BY <2>3, <2>14 DEF electionVars
  <2>. QED  BY <1>2, <2>4, <2>5, <2>7, <2>8, <2>9, <2>10, <2>11, <2>12, <2>13, <2>14
            DEF ElectionNext
<1>. QED  BY <1>1, <1>2, ElectionInvariant, PTL DEF ElectionSpec

\* A vote for another node outlives every step within its term, restarts included.
THEOREM VotesAreStable == ElectionSpec => VoteStable
<1>1. ASSUME ElectionInv, [ElectionNext]_electionVars
      PROVE  [\A j \in Node :
                votedFor[j] \notin {Nil, j} /\ currentTerm'[j] = currentTerm[j]
                   => votedFor'[j] = votedFor[j]]_electionVars
  <2>1. StepFacts
    BY <1>1, FactsNext
  <2>. QED  BY <1>1, <2>1 DEF StepFacts, ElectionInv, CampaignInv
<1>. QED  BY <1>1, ElectionInvariant, PTL DEF ElectionSpec, VoteStable

\* becomeFollower never lowers the term, whichever handler calls it.
THEOREM TermsNeverRegress == ElectionSpec => TermNeverRegresses
<1>1. ASSUME ElectionInv, [ElectionNext]_electionVars
      PROVE  [\A i \in Node : currentTerm'[i] >= currentTerm[i]]_electionVars
  BY <1>1, FactsNext DEF StepFacts
<1>. QED  BY <1>1, ElectionInvariant, PTL DEF ElectionSpec, TermNeverRegresses

\* No second leader of its own term exists to make handleAppendEntries demote a
\* leader: it steps down for a higher term or dies.
THEOREM LeadersYieldOnlyToHigherTerms == ElectionSpec => LeaderYieldsToHigherTerm
<1>1. ASSUME ElectionInv, [ElectionNext]_electionVars
      PROVE  [\A i \in Node :
                state[i] = "Leader" /\ state'[i] # "Leader"
                   => currentTerm'[i] > currentTerm[i] \/ Restart(i)]_electionVars
  <2>1. SUFFICES ASSUME NEW k \in Node, state[k] = "Leader", state'[k] # "Leader", ~Restart(k)
                 PROVE  currentTerm'[k] > currentTerm[k]
    BY DEF electionVars
  <2>2. ASSUME NEW i \in Node, NEW pos \in LogPos, StartElection(i, pos) PROVE FALSE
    BY <1>1, <2>1, <2>2 DEF StartElection, ElectionInv, ElectionTypeOK
  <2>3. ASSUME NEW i \in Node, ReceiveVote(i) PROVE FALSE
    BY <1>1, <2>1, <2>3
    DEF ReceiveVote, RoundIsStale, BecomeFollower, BecomeLeader, ElectionInv, ElectionTypeOK
  <2>4. ASSUME NEW j \in Node, NEW m \in Requests, NEW logOk \in BOOLEAN,
               HandleRequestVote(j, m, logOk)
        PROVE  currentTerm'[k] > currentTerm[k]
    BY <1>1, <2>1, <2>4 DEF HandleRequestVote, ElectionInv, ElectionTypeOK, Requests
  <2>5. ASSUME NEW i \in Node, NEW logOk \in BOOLEAN, HandleVoteCall(i, logOk)
        PROVE  currentTerm'[k] > currentTerm[k]
    BY <1>1, <2>4, <2>5, RequestType DEF HandleVoteCall, ElectionInv
  <2>6. ASSUME NEW m \in stray, NEW logOk \in BOOLEAN, HandleStrayVote(m, logOk)
        PROVE  currentTerm'[k] > currentTerm[k]
    BY <1>1, <2>4, <2>6 DEF HandleStrayVote, ElectionInv, ElectionTypeOK, Requests
  <2>7. ASSUME NEW j \in Node, NEW e \in elected, HandleLeaderRpc(j, e)
        PROVE  currentTerm'[k] > currentTerm[k]
    <3>1. j = k /\ BecomeFollower(k, e.term, e.leader)
      BY <1>1, <2>1, <2>7 DEF HandleLeaderRpc, FollowLeader, BecomeFollower, ElectionInv, ElectionTypeOK
    <3>2. e.term \in Nat /\ currentTerm[k] \in Nat
          /\ e.term >= currentTerm[k] /\ e.leader # k
          /\ currentTerm'[k] = e.term
      BY <1>1, <2>7, <3>1
      DEF HandleLeaderRpc, FollowLeader, BecomeFollower, ElectionInv, ElectionTypeOK, Elections
    <3>3. PICK d \in elected : d.leader = k /\ d.term = currentTerm[k]
      BY <1>1, <2>1 DEF ElectionInv, LeaderInv
    <3>4. e.term # currentTerm[k]
      BY <1>1, <2>7, <3>2, <3>3 DEF ElectionInv, ElectionSafety
    <3>. QED  BY <3>2, <3>4
  <2>8. ASSUME NEW i \in Node, NEW t, LearnTerm(i, t)
        PROVE  currentTerm'[k] > currentTerm[k]
    BY <1>1, <2>1, <2>8 DEF LearnTerm, BecomeFollower, ElectionInv, ElectionTypeOK
  <2>9. ASSUME NEW i \in Node, Restart(i) PROVE FALSE
    BY <1>1, <2>1, <2>9 DEF Restart, ElectionInv, ElectionTypeOK
  <2>10. ASSUME NEW i \in Node, NEW j \in Node, CallRequestVote(i, j) PROVE FALSE
    BY <2>1, <2>10 DEF CallRequestVote
  <2>11. ASSUME NEW i \in Node, VoteCallFails(i) PROVE FALSE
    BY <2>1, <2>11 DEF VoteCallFails
  <2>12. CASE UNCHANGED electionVars
    BY <2>1, <2>12 DEF electionVars
  <2>. QED  BY <1>1, <2>2, <2>3, <2>5, <2>6, <2>7, <2>8, <2>9, <2>10, <2>11, <2>12
            DEF ElectionNext
<1>. QED  BY <1>1, ElectionInvariant, PTL DEF ElectionSpec, LeaderYieldsToHigherTerm
=============================================================================
