----------------------------- MODULE JobLedger ------------------------------
(***************************************************************************)
(* What a queue of jobs promises to those who put jobs in it, whatever its *)
(* implementation: a job is worked on by one worker at a time, only the    *)
(* worker that holds it settles it, a job that is done stays done, and it  *)
(* is given up after exactly Tries tries.  A worker may be lost, and then  *)
(* so are the jobs it held: no one holds them, and they are not taken.     *)
(***************************************************************************)
EXTENDS Naturals

CONSTANTS Job, Worker, Nobody, Tries

VARIABLES
    state,   \* "ABSENT", "PENDING", "PROCESSING", "DONE" or "FAILED"
    used,    \* tries spent since the job entered or was revived
    holder   \* the worker that holds the job, or Nobody

ledger == <<state, used, holder>>

LedgerInit ==
    /\ state = [k \in Job |-> "ABSENT"]
    /\ used = [k \in Job |-> 0]
    /\ holder = [k \in Job |-> Nobody]

Moved(S, s) == [k \in Job |-> IF k \in S THEN s ELSE state[k]]

In(S, s) == \A k \in S : state[k] = s

Enter(S) ==
    /\ In(S, "ABSENT")
    /\ state' = Moved(S, "PENDING")
    /\ UNCHANGED <<used, holder>>

\* Marked as taken, by a worker that works on them or by one that never will.
Take(S, w) ==
    /\ In(S, "PENDING")
    /\ state' = Moved(S, "PROCESSING")
    /\ holder' = [k \in Job |-> IF k \in S THEN w ELSE holder[k]]
    /\ UNCHANGED used

Settle(w, k, s) ==
    /\ holder[k] = w
    /\ state[k] = "PROCESSING"
    /\ state' = [state EXCEPT ![k] = s]
    /\ used' = [used EXCEPT ![k] = @ + 1]
    /\ holder' = [holder EXCEPT ![k] = Nobody]

Finish(w, k) == Settle(w, k, "DONE")

TryLater(w, k) == used[k] + 1 < Tries /\ Settle(w, k, "PENDING")

GiveUp(w, k) == used[k] + 1 = Tries /\ Settle(w, k, "FAILED")

LoseWorker(w) ==
    /\ holder' = [k \in Job |-> IF holder[k] = w THEN Nobody ELSE holder[k]]
    /\ UNCHANGED <<state, used>>

Revive(S) ==
    /\ In(S, "FAILED")
    /\ state' = Moved(S, "PENDING")
    /\ used' = [k \in Job |-> IF k \in S THEN 0 ELSE used[k]]
    /\ UNCHANGED holder

Forget(k) ==
    /\ state[k] = "DONE"
    /\ state' = [state EXCEPT ![k] = "ABSENT"]
    /\ used' = [used EXCEPT ![k] = 0]
    /\ UNCHANGED holder

LedgerNext ==
    \/ \E S \in SUBSET Job : Enter(S) \/ Revive(S)
    \/ \E S \in SUBSET Job, w \in Worker \cup {Nobody} : Take(S, w)
    \/ \E w \in Worker, k \in Job : Finish(w, k) \/ TryLater(w, k) \/ GiveUp(w, k)
    \/ \E w \in Worker : LoseWorker(w)
    \/ \E k \in Job : Forget(k)

LedgerSpec == LedgerInit /\ [][LedgerNext]_ledger
=============================================================================
