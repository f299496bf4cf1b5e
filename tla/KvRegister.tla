----------------------------- MODULE KvRegister -----------------------------
(***************************************************************************)
(* What RaftKV promises its clients about keys and values: there is one    *)
(* history of writes, which only grows, and a read returns what the        *)
(* history said of the key at some moment between the read's beginning and *)
(* its end. Nodes, logs, databases and snapshots do not appear.            *)
(***************************************************************************)
EXTENDS KvStore

CONSTANT Reader

VARIABLES
    history,  \* the writes, in order
    pending,  \* the read each reader waits for
    answer    \* the last answer given

regVars == <<history, pending, answer>>

NoRead == [key |-> NoKey, from |-> 0]

NoAnswer == [key |-> NoKey, value |-> Absent]

RegisterInit ==
    /\ history = <<>>
    /\ pending = [r \in Reader |-> NoRead]
    /\ answer = NoAnswer

\* One or more writes take effect.
Extend ==
    /\ Len(history') > Len(history)
    /\ SubSeq(history', 1, Len(history)) = history
    /\ UNCHANGED <<pending, answer>>

Begin(r, k) ==
    /\ pending[r] = NoRead
    /\ pending' = [pending EXCEPT ![r] = [key |-> k, from |-> Len(history)]]
    /\ answer' = NoAnswer
    /\ UNCHANGED history

\* A read sees the history as it was at its beginning or later.
End(r) ==
    /\ pending[r] # NoRead
    /\ \E n \in pending[r].from .. Len(history) :
          answer' = [key |-> pending[r].key,
                     value |-> Contents(history, n)[pending[r].key]]
    /\ pending' = [pending EXCEPT ![r] = NoRead]
    /\ UNCHANGED history

\* Reads may fail.
Fail ==
    /\ \A r \in Reader : pending'[r] \in {pending[r], NoRead}
    /\ DOMAIN pending' = Reader
    /\ UNCHANGED <<history, answer>>

RegisterNext ==
    \/ Extend
    \/ \E r \in Reader, k \in Key : Begin(r, k)
    \/ \E r \in Reader : End(r)
    \/ Fail

RegisterSpec == RegisterInit /\ [][RegisterNext]_regVars
=============================================================================
