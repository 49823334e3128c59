-------------------------- MODULE OutboxInvariant ---------------------------
(***************************************************************************)
(* The inductive invariant of Outbox.  Its safety properties are not       *)
(* inductive as they stand: what a run does next depends on the step it is *)
(* at, so the invariant says what each step has already achieved.          *)
(***************************************************************************)
EXTENDS OutboxLedger

\* A run has a job in hand exactly while it works on one, and that job is no
\* longer in its batch; the steps that touch an order have the job of an order.
RunShape ==
    \A i \in Instance :
        /\ pc[i] = "idle" => batch[i] = {}
        /\ pc[i] \in {"idle", "claiming", "working"} => cur[i] = NoJob
        /\ pc[i] \in InHand \cup {"escalating"} =>
              cur[i] \in JobKey /\ cur[i] \notin batch[i]
        /\ pc[i] = "emitting" => IsDelivery(cur[i])
        /\ pc[i] = "submitting" => IsDelivery(cur[i])

\* What the run has achieved for the job in hand before it marks it DONE.
RunProgress ==
    \A i \in Instance :
        /\ pc[i] \in {"submitting", "completing"} =>
              \/ Mailed(cur[i])
              \/ cur[i].of \in Contact /\ message[cur[i].of] = "deleted"
        /\ pc[i] = "completing" /\ IsDelivery(cur[i]) => cur[i].of \in submitted

\* The job of a contact message exists only after the message was saved.
MessageBeforeJob ==
    \A c \in Contact : message[c] = "none" => job[ContactJob(c)] = "ABSENT"

\* A job that is enqueued starts with all its attempts.
NewJobIsUnused == \A k \in JobKey : job[k] = "ABSENT" => attempts[k] = 0

IInv ==
    /\ TypeOK
    /\ RunShape
    /\ ClaimIsExclusive
    /\ AttemptsMatchStatus
    /\ NewJobIsUnused
    /\ RunProgress
    /\ MessageBeforeJob
    /\ DoneWasDelivered
=============================================================================
