---------------------------- MODULE OutboxLedger ----------------------------
(***************************************************************************)
(* The outbox implements the job ledger: a job is held by the run that has *)
(* it in its batch or in hand after a claim that took the whole page.      *)
(***************************************************************************)
EXTENDS Outbox

CONSTANT Nobody

ASSUME LedgerAssumption == Nobody \notin Instance

Holder ==
    [k \in JobKey |->
        IF \E i \in Instance : k \in Held(i)
        THEN CHOOSE i \in Instance : k \in Held(i)
        ELSE Nobody]

Ledger == INSTANCE JobLedger
    WITH Job <- JobKey, Worker <- Instance, Tries <- MaxAttempts,
         state <- job, used <- attempts, holder <- Holder

\* Seen from outside, and through all interleavings of runs, retries, crashes
\* and errors, the outbox does only what the ledger allows.
ImplementsLedger == Ledger!LedgerSpec
=============================================================================
