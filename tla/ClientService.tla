--------------------------- MODULE ClientService ---------------------------
(***************************************************************************)
(* Clients and servers as threads that wait for one another: the Clerk     *)
(* (client/clerk.cpp) asks the servers of the address file in turn; each   *)
(* server has one thread that handles every request (rpc/TcpServer.cpp,    *)
(* TcpConnection.cpp), also a client's put, during which it calls its      *)
(* peers itself; the heartbeat thread calls them too. A call has no        *)
(* timeout: it ends with an answer or with the death of the server         *)
(* (rpc/tcp_client.cpp).                                                   *)
(*                                                                         *)
(* The votes are those of RaftElection: an election is one step here. No   *)
(* snapshots are taken. "put" stands for put and del; a "get" calls the    *)
(* peers like a put, RaftRead says what it returns.                        *)
(***************************************************************************)
EXTENDS Integers, Sequences, FiniteSets, SequencesExt

CONSTANTS
    Server,
    Client,
    Nil,
    Order,       \* cluster.conf: the servers, in the order of the file
    Program,     \* bound: the operations of each client
    Starts,      \* bound: the terms in which each server may be elected
    Beaters,     \* bound: servers whose heartbeat threads are seen at work
    Unsteady     \* bound: servers that may crash, once each

ASSUME ServiceAssumption ==
    /\ IsFiniteSet(Server) /\ Server # {}
    /\ Nil \notin Client
    /\ Order \in Seq(Server) /\ Range(Order) = Server
    /\ Len(Order) = Cardinality(Server)
    /\ Program \in [Client -> Seq({"put", "get"})]
    /\ Starts \in [Server -> SUBSET Nat]
    /\ Beaters \subseteq Server
    /\ Unsteady \subseteq Server

VARIABLES
    up,       \* the process runs
    leads,    \* state_ = LEADER
    term,     \* currentTerm_
    log,      \* logs_
    commit,   \* commitIndex_ of a leader
    next,     \* nextIndex_ of a leader
    match,    \* matchIndex_ of a leader
    work,     \* what the server thread is doing
    call,     \* what the thread "op" (the server thread) or "beat" waits for
    queue,    \* requests of clients that no server thread has taken yet
    clerk,    \* each client: the operation and where it is in the loop
    done,     \* history: puts that returned true
    crashed   \* bound: the servers that have crashed

raftVars == <<leads, term, log, commit, next, match>>
threadVars == <<work, call>>
clientVars == <<queue, clerk, done>>
vars == <<up, raftVars, threadVars, clientVars, crashed>>

Threads == {"op", "beat"}

NoCall == [stage |-> "none"]

Free == [client |-> Nil, op |-> 0, left |-> <<>>]

\* op is the number of the operation, hint leaderHint_, tries the loop variable;
\* stage "none" between operations, "ask" in the loop, "wait" in sendMessage.
Fresh == [op |-> 0, hint |-> 0, tries |-> 0, stage |-> "none"]

ServiceInit ==
    /\ up = [s \in Server |-> TRUE]
    /\ leads = [s \in Server |-> FALSE]
    /\ term = [s \in Server |-> 0]
    /\ log = [s \in Server |-> <<>>]
    /\ commit = [s \in Server |-> 0]
    /\ next = [s \in Server |-> [p \in Server |-> 1]]
    /\ match = [s \in Server |-> [p \in Server |-> 0]]
    /\ work = [s \in Server |-> Free]
    /\ call = [s \in Server |-> [h \in Threads |-> NoCall]]
    /\ queue = {}
    /\ clerk = [c \in Client |-> Fresh]
    /\ done = {}
    /\ crashed = {}

-----------------------------------------------------------------------------
(***************************************************************************)
(* The Clerk.                                                              *)
(***************************************************************************)

\* The server asked after c's first n tries.
Target(c, n) == Order[((clerk[c].hint + n) % Len(Order)) + 1]

Start(c) ==
    /\ clerk[c].stage = "none"
    /\ clerk[c].op < Len(Program[c])
    /\ clerk' = [clerk EXCEPT ![c].op = @ + 1, ![c].tries = 0, ![c].stage = "ask"]
    /\ UNCHANGED <<up, raftVars, threadVars, queue, done, crashed>>

\* The next turn of the loop: a connection to a live server always succeeds.
Ask(c) ==
    /\ clerk[c].stage = "ask"
    /\ clerk[c].tries < Len(Order)
    /\ LET s == Target(c, clerk[c].tries)
       IN IF up[s]
          THEN /\ queue' = queue \cup {[client |-> c, op |-> clerk[c].op, to |-> s]}
               /\ clerk' = [clerk EXCEPT ![c].stage = "wait"]
          ELSE /\ clerk' = [clerk EXCEPT ![c].tries = @ + 1]
               /\ UNCHANGED queue
    /\ UNCHANGED <<up, raftVars, threadVars, done, crashed>>

\* Every server has been asked: the operation returns false.
GiveUp(c) ==
    /\ clerk[c].stage = "ask"
    /\ clerk[c].tries = Len(Order)
    /\ clerk' = [clerk EXCEPT ![c].stage = "none"]
    /\ UNCHANGED <<up, raftVars, threadVars, queue, done, crashed>>

WaitsFor(c, s) == clerk[c].stage = "wait" /\ Target(c, clerk[c].tries) = s

\* Mutant: recv has a timeout.
MayHangUp_AnyTime(c, s) == WaitsFor(c, s)

\* sendMessage fails only if the server dies.
MayHangUp(c, s) == WaitsFor(c, s) /\ ~up[s]

HangUp(c) ==
    /\ \E s \in Server : MayHangUp(c, s)
    /\ clerk' = [clerk EXCEPT ![c].tries = @ + 1, ![c].stage = "ask"]
    /\ UNCHANGED <<up, raftVars, threadVars, queue, done, crashed>>

\* Mutant: after NOT_LEADER or FAIL the same server is asked again.
NextTry_Same(n) == n

\* Mutant: the loop variable is incremented twice.
NextTry_Twice(n) == n + 2

NextTry(n) == n + 1

\* Server s answers the operation op of client c.
Answer(s, c, op, ok) ==
    LET heard == clerk[c].op = op /\ WaitsFor(c, s)
        result == IF ok THEN [clerk[c] EXCEPT !.stage = "none",
                                !.hint = (@ + clerk[c].tries) % Len(Order)]
                  ELSE [clerk[c] EXCEPT !.stage = "ask", !.tries = NextTry(@)]
    IN
    /\ clerk' = IF heard THEN [clerk EXCEPT ![c] = result] ELSE clerk
    /\ done' = IF heard /\ ok /\ Program[c][op] = "put"
               THEN done \cup {[client |-> c, op |-> op]} ELSE done

-----------------------------------------------------------------------------
(***************************************************************************)
(* The server thread.                                                      *)
(***************************************************************************)

Idle(s) == up[s] /\ work[s] = Free

\* Mutant: the packet stays in the input buffer.
Rest_Kept(q) == queue

\* tryDecodePacket takes the request out of the input buffer.
Rest(q) == queue \ {q}

\* handleRpcText: NOT_LEADER.
Refuse(s, q) ==
    /\ Idle(s) /\ q.to = s /\ ~leads[s]
    /\ queue' = Rest(q)
    /\ Answer(s, q.client, q.op, FALSE)
    /\ UNCHANGED <<up, raftVars, threadVars, crashed>>

\* buildPeers: the others, in the order of the file.
Peers(s) == RemoveAt(Order, CHOOSE k \in DOMAIN Order : Order[k] = s)

\* A leader appends the entry of a put and begins to call its peers.
Begin(s, q) ==
    /\ Idle(s) /\ q.to = s /\ leads[s]
    /\ queue' = Rest(q)
    /\ log' = IF Program[q.client][q.op] = "put"
              THEN [log EXCEPT ![s] =
                      Append(@, [client |-> q.client, op |-> q.op, term |-> term[s]])]
              ELSE log
    /\ work' = [work EXCEPT ![s] =
                  [client |-> q.client, op |-> q.op,
                   left |-> Peers(s)]]
    /\ UNCHANGED <<up, leads, term, commit, next, match, call, clerk, done, crashed>>

\* sendMessage to p. The entries are those after prev; here the whole log.
Send(s, h, p) ==
    call' = [call EXCEPT ![s][h] =
        [stage |-> IF up[p] THEN "sent" ELSE "failed", to |-> p,
         term |-> term[s], prev |-> next[s][p] - 1, log |-> log[s]]]

\* The next turn of the loop over the peers.
CallPeer(s) ==
    /\ work[s].left # <<>> /\ call[s]["op"] = NoCall
    /\ IF leads[s] THEN Send(s, "op", Head(work[s].left)) ELSE call' = call
    /\ work' = [work EXCEPT ![s].left = Tail(@)]
    /\ UNCHANGED <<up, raftVars, clientVars, crashed>>

Majority(S) == 2 * Cardinality(S) > Len(Order)

\* updateCommitIndex
NewCommit(s) ==
    LET may == {n \in commit[s] + 1 .. Len(log[s]) :
                  /\ log[s][n].term = term[s]
                  /\ Majority({s} \cup {p \in Server : match[s][p] >= n})}
    IN IF leads[s] /\ may # {} THEN CHOOSE n \in may : \A m \in may : m <= n
       ELSE commit[s]

\* Mutant: the comparison with the last index is off by one.
PutIsOk_OffByOne(s, n) == n + 1 >= Len(log[s])

PutIsOk(s, n) == n >= Len(log[s])

\* The loop is over: the put is OK if the last entry is committed; a get may
\* succeed or fail.
Finish(s) ==
    /\ work[s] # Free /\ work[s].left = <<>> /\ call[s]["op"] = NoCall
    /\ commit' = [commit EXCEPT ![s] = NewCommit(s)]
    /\ work' = [work EXCEPT ![s] = Free]
    /\ \E ok \in BOOLEAN :
        /\ Program[work[s].client][work[s].op] = "put" => ok = PutIsOk(s, NewCommit(s))
        /\ Answer(s, work[s].client, work[s].op, ok)
    /\ UNCHANGED <<up, leads, term, log, next, match, call, queue, crashed>>

\* handleAppendEntries on p's server thread, called by thread h of s.
Handle(s, h) ==
    LET m == call[s][h]
        p == m.to
        fits == m.prev <= Len(log[p])
                /\ SubSeq(log[p], 1, m.prev) = SubSeq(m.log, 1, m.prev)
    IN
    /\ m.stage = "sent" /\ Idle(p)
    /\ IF m.term < term[p]
       THEN UNCHANGED raftVars
       ELSE /\ term' = [term EXCEPT ![p] = m.term]
            /\ leads' = [leads EXCEPT ![p] = FALSE]
            /\ log' = IF fits /\ ~IsPrefix(m.log, log[p])
                      THEN [log EXCEPT ![p] = m.log] ELSE log
            /\ UNCHANGED <<commit, next, match>>
    /\ call' = [call EXCEPT ![s][h] =
         [stage |-> IF m.term >= term[p] /\ fits THEN "stored" ELSE "refused",
          to |-> p, sent |-> m.term, term |-> IF m.term < term[p] THEN term[p] ELSE m.term,
          upto |-> Len(m.log)]]
    /\ UNCHANGED <<up, work, clientVars, crashed>>

Larger(a, b) == IF a > b THEN a ELSE b

\* sendMessage returns false.
CallFails(s, h) ==
    /\ call[s][h].stage = "failed"
    /\ call' = [call EXCEPT ![s][h] = NoCall]
    /\ UNCHANGED <<up, raftVars, work, clientVars, crashed>>

\* Back in replicateToPeer on thread h of s, which may have become a follower or
\* be in a newer term by now.
Receive(s, h) ==
    LET m == call[s][h] IN
    /\ m.stage \in {"stored", "refused"}
    /\ call' = [call EXCEPT ![s][h] = NoCall]
    /\ \/ /\ ~leads[s] \/ m.sent # term[s]
          /\ UNCHANGED <<term, leads, next, match>>
       \/ /\ leads[s] /\ m.sent = term[s] /\ m.term > term[s]
          /\ term' = [term EXCEPT ![s] = m.term]
          /\ leads' = [leads EXCEPT ![s] = FALSE]
          /\ UNCHANGED <<next, match>>
       \/ /\ leads[s] /\ m.sent = term[s] /\ m.term = term[s] /\ m.stage = "stored"
          /\ LET n == Larger(match[s][m.to], m.upto) IN
             /\ match' = [match EXCEPT ![s][m.to] = n]
             /\ next' = [next EXCEPT ![s][m.to] = n + 1]
          /\ UNCHANGED <<term, leads>>
       \/ /\ leads[s] /\ m.sent = term[s] /\ m.term = term[s] /\ m.stage = "refused"
          /\ next' = [next EXCEPT ![s][m.to] = Larger(1, @ - 1)]
          /\ UNCHANGED <<term, leads, match>>
    /\ UNCHANGED <<up, log, commit, work, clientVars, crashed>>

-----------------------------------------------------------------------------
(***************************************************************************)
(* The heartbeat and election threads, and crashes.                        *)
(***************************************************************************)

Beat(s, p) ==
    /\ s \in Beaters /\ up[s] /\ leads[s] /\ p # s
    /\ call[s]["beat"] = NoCall
    /\ Send(s, "beat", p)
    /\ UNCHANGED <<up, raftVars, work, clientVars, crashed>>

BeatCommit(s) ==
    /\ s \in Beaters /\ up[s] /\ call[s]["beat"] = NoCall
    /\ NewCommit(s) > commit[s]
    /\ commit' = [commit EXCEPT ![s] = NewCommit(s)]
    /\ UNCHANGED <<up, leads, term, log, next, match, threadVars, clientVars, crashed>>

LastTerm(s) == IF log[s] = <<>> THEN 0 ELSE log[s][Len(log[s])].term

UpToDate(l, p) ==
    \/ LastTerm(l) > LastTerm(p)
    \/ LastTerm(l) = LastTerm(p) /\ Len(log[l]) >= Len(log[p])

\* The server threads of Q grant l their votes in term t.
Elect(l, Q, t) ==
    /\ up[l] /\ ~leads[l] /\ t \in Starts[l]
    /\ l \in Q /\ Majority(Q)
    /\ \A p \in Q : t > term[p] /\ UpToDate(l, p) /\ (p # l => Idle(p))
    /\ term' = [s \in Server |-> IF s \in Q THEN t ELSE term[s]]
    /\ leads' = [s \in Server |-> s = l \/ (leads[s] /\ s \notin Q)]
    /\ commit' = [commit EXCEPT ![l] = 0]
    /\ next' = [next EXCEPT ![l] = [p \in Server |-> Len(log[l]) + 1]]
    /\ match' = [match EXCEPT ![l] = [p \in Server |-> 0]]
    /\ UNCHANGED <<up, log, threadVars, clientVars, crashed>>

\* Everybody who waits for s gets an error; what s was doing is gone.
Crash(s) ==
    /\ s \in Unsteady \ crashed /\ up[s]
    /\ up' = [up EXCEPT ![s] = FALSE]
    /\ leads' = [leads EXCEPT ![s] = FALSE]
    /\ commit' = [commit EXCEPT ![s] = 0]
    /\ work' = [work EXCEPT ![s] = Free]
    /\ call' = [r \in Server |-> [h \in Threads |->
                  IF r = s THEN NoCall
                  ELSE IF call[r][h].stage = "sent" /\ call[r][h].to = s
                       THEN [call[r][h] EXCEPT !.stage = "failed"] ELSE call[r][h]]]
    /\ queue' = {q \in queue : q.to # s}
    /\ crashed' = crashed \cup {s}
    /\ UNCHANGED <<term, log, next, match, clerk, done>>

\* The clients of the dead process have noticed.
Restart(s) ==
    /\ ~up[s]
    /\ \A c \in Client : ~WaitsFor(c, s)
    /\ up' = [up EXCEPT ![s] = TRUE]
    /\ UNCHANGED <<raftVars, threadVars, clientVars, crashed>>

OpThread(s) ==
    CallPeer(s) \/ CallFails(s, "op") \/ Receive(s, "op") \/ Finish(s)

Clients == \E c \in Client : Ask(c) \/ GiveUp(c) \/ HangUp(c)

ServerThreads ==
    \/ \E s \in Server, q \in queue : Refuse(s, q) \/ Begin(s, q)
    \/ \E s \in Server : OpThread(s) \/ Handle(s, "op")

BeatThreads ==
    \E s \in Server :
        \/ \E p \in Server : Beat(s, p)
        \/ Handle(s, "beat") \/ CallFails(s, "beat") \/ Receive(s, "beat")
        \/ BeatCommit(s)

ServiceNext ==
    \/ \E c \in Client : Start(c)
    \/ Clients
    \/ ServerThreads
    \/ BeatThreads
    \/ \E l \in Server, Q \in SUBSET Server, t \in UNION Range(Starts) : Elect(l, Q, t)
    \/ \E s \in Server : Crash(s) \/ Restart(s)

ServiceSpec == ServiceInit /\ [][ServiceNext]_vars

\* The threads run. A client takes a bounded number of steps, and so do the
\* threads that serve it, so none of these can keep the others waiting for ever.
FairServiceSpec ==
    /\ ServiceSpec
    /\ WF_vars(Clients \/ ServerThreads)
    /\ WF_vars(BeatThreads)

-----------------------------------------------------------------------------
(***************************************************************************)
(* Properties.                                                             *)
(***************************************************************************)

\* Type invariant of the model of the threads.
ServiceTypeOK ==
    LET Entry == [client : Client, op : Nat, term : Nat] IN
    /\ up \in [Server -> BOOLEAN] /\ leads \in [Server -> BOOLEAN]
    /\ term \in [Server -> Nat]
    /\ \A s \in Server : log[s] \in Seq(Entry) /\ commit[s] \in 0 .. Len(log[s])
    /\ match \in [Server -> [Server -> Nat]] /\ next \in [Server -> [Server -> Nat \ {0}]]
    /\ \A s \in Server : /\ work[s].client \in Client \cup {Nil}
                         /\ work[s].left \in Seq(Server \ {s})
    /\ queue \subseteq [client : Client, op : Nat \ {0}, to : Server]
    /\ clerk \in [Client -> [op : Nat, hint : 0 .. Len(Order) - 1,
                             tries : 0 .. Len(Order), stage : {"none", "ask", "wait"}]]
    /\ done \subseteq [client : Client, op : Nat \ {0}]
    /\ crashed \subseteq Unsteady

\* Although a put may be executed more than once, no log has an older put of a
\* client behind a newer one: a write that was given up never overtakes.
ClientOrder ==
    \A s \in Server : \A x, y \in 1 .. Len(log[s]) :
        x < y /\ log[s][x].client = log[s][y].client => log[s][x].op <= log[s][y].op

\* No leader executes one put twice.
OncePerTerm ==
    \A s \in Server : \A x, y \in 1 .. Len(log[s]) :
        x # y => log[s][x] # log[s][y]

\* No server has seen a later term than that of leader s.
Newest(s) == leads[s] /\ \A r \in Server : term[r] <= term[s]

\* A put that returned true is in the log of the newest leader, whoever leads.
DoneStays ==
    \A s \in Server : Newest(s) =>
        done \subseteq {[client |-> log[s][x].client, op |-> log[s][x].op] :
                          x \in 1 .. Len(log[s])}

\* Every operation of a client returns.
EveryOperationReturns ==
    \A c \in Client : clerk[c].stage # "none" ~> clerk[c].stage = "none"

OneServes ==
    \A s, r \in Server : work[s] # Free /\ work[r] # Free => s = r

\* Every operation returns, whatever crashes and elections happen, as long as no
\* two servers serve clients at the same time.
OperationsReturn == []OneServes => EveryOperationReturns
=============================================================================
