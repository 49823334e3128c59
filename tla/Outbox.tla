------------------------------- MODULE Outbox -------------------------------
(***************************************************************************)
(* The outbox: the queue of jobs in Postgres that delivers what was paid.  *)
(* Every instance of the backend takes batches of due jobs, executes them  *)
(* one by one, retries the failures with a growing delay and, when a job   *)
(* has used all its attempts, marks its order NEEDS_REVIEW.  An            *)
(* administrator can put the exhausted jobs of an order back in the queue. *)
(*                                                                         *)
(* A step is one awaited call (a statement or transaction on the database, *)
(* or a mail), so the steps of runs, retries and webhooks interleave as    *)
(* they do between the awaits of the code.  Orders get paid and refunded   *)
(* by the two environment actions; module Payments details them.           *)
(***************************************************************************)
EXTENDS StoreTypes, Naturals, FiniteSets

CONSTANTS
    Instance,      \* processes of the backend that run the queue
    Keyless,       \* those that were started without RESEND_API_KEY
    BatchSize,     \* BATCH_SIZE, 10 in the code
    MaxAttempts,   \* the maxAttempts column, 5 in the code
    Refundable,    \* the orders whose charge may be refunded
    FaultKinds,    \* "crash": the process dies; "db": a statement is rejected
    NoJob          \* no job in hand

ASSUME OutboxAssumption ==
    /\ BatchSize \in Nat \ {0}
    /\ MaxAttempts \in Nat \ {0}
    /\ Keyless \subseteq Instance
    /\ Refundable \subseteq Order
    /\ FaultKinds \subseteq {"crash", "db"}
    /\ NoJob \notin JobKey

VARIABLES
    job,        \* the status column of outbox_jobs, "ABSENT" without a row
    attempts,   \* its attempts column
    due,        \* the PENDING rows whose nextAttemptAt has passed
    ahead,      \* for each of them, those with an earlier nextAttemptAt
    status,     \* the status column of orders
    submitted,  \* the orders whose fulfillmentSubmittedAt is set
    linked,     \* the orders that have live download grants
    refunded,   \* the orders whose charge.refunded was applied
    message,    \* the rows of contact_messages
    sent,       \* the jobs whose mail has gone out at least once
    logged,     \* those whose mail was written to the log instead
    pc,         \* what each instance is doing; "idle" is running = false
    batch,      \* the jobs it read, and then those it has still to process
    cur,        \* the job in hand
    retry       \* the request of the administrator about each order

queueVars == <<job, attempts, due, ahead>>
orderVars == <<status, submitted, linked, refunded>>
mailVars  == <<sent, logged>>
runVars   == <<pc, batch, cur>>
vars == <<queueVars, orderVars, message, mailVars, runVars, retry>>

Step == {"idle", "claiming", "working", "emitting", "mailing", "submitting",
         "completing", "failing", "escalating"}

\* The steps during which the job in hand is still marked PROCESSING.
InHand == {"emitting", "mailing", "submitting", "completing", "failing"}

TypeOK ==
    /\ job \in [JobKey -> JobStatus]
    /\ attempts \in [JobKey -> 0..MaxAttempts]
    /\ due \subseteq JobKey
    /\ ahead \in [JobKey -> SUBSET JobKey]
    /\ status \in [Order -> OrderStatus]
    /\ submitted \subseteq Order
    /\ linked \subseteq Order
    /\ refunded \subseteq Order
    /\ message \in [Contact -> {"none", "saved", "deleted"}]
    /\ sent \subseteq JobKey
    /\ logged \subseteq JobKey
    /\ pc \in [Instance -> Step]
    /\ batch \in [Instance -> SUBSET JobKey]
    /\ cur \in [Instance -> JobKey \cup {NoJob}]
    /\ retry \in [Order -> {"idle", "checked", "requeued"}]

Init ==
    /\ job = [k \in JobKey |-> "ABSENT"]
    /\ attempts = [k \in JobKey |-> 0]
    /\ due = {}
    /\ ahead = [k \in JobKey |-> {}]
    /\ status = [o \in Order |-> "PENDING_PAYMENT"]
    /\ submitted = {}
    /\ linked = {}
    /\ refunded = {}
    /\ message = [c \in Contact |-> "none"]
    /\ sent = {}
    /\ logged = {}
    /\ pc = [i \in Instance |-> "idle"]
    /\ batch = [i \in Instance |-> {}]
    /\ cur = [i \in Instance |-> NoJob]
    /\ retry = [o \in Order |-> "idle"]

-----------------------------------------------------------------------------
(* The order of the queue: rows that become due go behind those that are.  *)

BecomeDue(keys) ==
    /\ due' = due \cup keys
    /\ ahead' = [k \in JobKey |-> IF k \in keys THEN due ELSE ahead[k]]

LeaveQueue(keys) ==
    /\ due' = due \ keys
    /\ ahead' = [k \in JobKey |-> IF k \in keys THEN {} ELSE ahead[k] \ keys]

-----------------------------------------------------------------------------
(* What feeds the queue.                                                   *)

EnqueueDue(keys) ==
    /\ job' = Enqueued(job, keys)
    /\ BecomeDue(Inserted(job, keys))
    /\ UNCHANGED attempts

\* The transaction of handlePaymentSucceeded: PAID and the two jobs, together.
OrderPaid(o) ==
    /\ status[o] = "PENDING_PAYMENT"
    /\ status' = [status EXCEPT ![o] = "PAID"]
    /\ EnqueueDue(OrderJobs(o))
    /\ UNCHANGED <<submitted, linked, refunded, message, mailVars, runVars, retry>>

\* The transaction of handleChargeRefunded, whatever the order's status.
OrderRefunded(o) ==
    /\ o \in Refundable \ refunded
    /\ status' = [status EXCEPT ![o] = "REFUNDED"]
    /\ linked' = linked \ {o}
    /\ refunded' = refunded \cup {o}
    /\ UNCHANGED <<queueVars, submitted, message, mailVars, runVars, retry>>

\* The form saves the message; that it cannot be enqueued is only logged.
ReceiveMessage(c) ==
    /\ message[c] = "none"
    /\ message' = [message EXCEPT ![c] = "saved"]
    /\ \/ EnqueueDue({ContactJob(c)})
       \/ UNCHANGED queueVars
    /\ UNCHANGED <<orderVars, mailVars, runVars, retry>>

RemoveMessage(c) ==
    /\ message[c] = "saved"
    /\ message' = [message EXCEPT ![c] = "deleted"]
    /\ UNCHANGED <<queueVars, orderVars, mailVars, runVars, retry>>

\* The delay of a retry runs out: nextAttemptAt is now in the past.
BackoffElapses(k) ==
    /\ job[k] = "PENDING" /\ k \notin due
    /\ BecomeDue({k})
    /\ UNCHANGED <<job, attempts, orderVars, message, mailVars, runVars, retry>>

-----------------------------------------------------------------------------
(* runPending: the claim.                                                  *)

Smaller(m, n) == IF m < n THEN m ELSE n

\* findMany reads a page of the due jobs, the oldest nextAttemptAt first.
ReadCandidates(i) ==
    /\ pc[i] = "idle"
    /\ due # {}
    /\ \E page \in SUBSET due :
          /\ Cardinality(page) = Smaller(BatchSize, Cardinality(due))
          /\ \A k \in page : ahead[k] \subseteq page
          /\ batch' = [batch EXCEPT ![i] = page]
    /\ pc' = [pc EXCEPT ![i] = "claiming"]
    /\ UNCHANGED <<queueVars, orderVars, message, mailVars, cur, retry>>

\* A mutant: the update forgets that another instance may have been faster.
ClaimedByIdAlone(i) == batch[i]

Claimed(i) == {k \in batch[i] : job[k] = "PENDING"}

\* updateMany moves to PROCESSING the rows of the page that are PENDING still.
\* Unless that is all of them, the run processes none.
ClaimBatch(i) ==
    LET claimed == Claimed(i) IN
    /\ pc[i] = "claiming"
    /\ job' = [k \in JobKey |-> IF k \in claimed THEN "PROCESSING" ELSE job[k]]
    /\ LeaveQueue(claimed)
    /\ IF claimed = batch[i]
       THEN pc' = [pc EXCEPT ![i] = "working"] /\ UNCHANGED batch
       ELSE /\ pc' = [pc EXCEPT ![i] = "idle"]
            /\ batch' = [batch EXCEPT ![i] = {}]
    /\ UNCHANGED <<attempts, orderVars, message, mailVars, cur, retry>>

-----------------------------------------------------------------------------
(* process and execute: one job after another.                             *)

Goto(i, s) == pc' = [pc EXCEPT ![i] = s] /\ UNCHANGED <<batch, cur>>

\* A mutant: the run ends with its first job.
LeaveRun(i) ==
    /\ pc' = [pc EXCEPT ![i] = "idle"]
    /\ cur' = [cur EXCEPT ![i] = NoJob]
    /\ batch' = [batch EXCEPT ![i] = {}]

\* Done with the job in hand: the next of the batch, or the end of the run.
LeaveJob(i) ==
    /\ pc' = [pc EXCEPT ![i] = IF batch[i] = {} THEN "idle" ELSE "working"]
    /\ cur' = [cur EXCEPT ![i] = NoJob]
    /\ UNCHANGED batch

IsDelivery(k) == k.type \in {"FULFILL_ORDER", "DELIVER_DIGITAL"}

\* The job's order, or its contact message, is read here.  A message that was
\* deleted ends the job as done; the row of a paid order always exists.
StartJob(i) ==
    /\ pc[i] = "working"
    /\ \E k \in batch[i] :
          /\ batch' = [batch EXCEPT ![i] = @ \ {k}]
          /\ cur' = [cur EXCEPT ![i] = k]
          /\ pc' = [pc EXCEPT ![i] =
                IF k.of \in Contact
                THEN IF message[k.of] = "saved" THEN "mailing" ELSE "completing"
                ELSE IF k.type = "DELIVER_DIGITAL" THEN "emitting" ELSE "mailing"]
    /\ UNCHANGED <<queueVars, orderVars, message, mailVars, retry>>

\* emitirEnlaces: the live grants of the order are revoked and others issued.
EmitLinks(i) ==
    /\ pc[i] = "emitting"
    /\ linked' = linked \cup {cur[i].of}
    /\ Goto(i, "mailing")
    /\ UNCHANGED <<queueVars, status, submitted, refunded, message, mailVars, retry>>

\* A mutant: the order is not marked after the mail of its delivery.
AfterAnyMail(k) == "completing"

AfterMail(k) == IF IsDelivery(k) THEN "submitting" ELSE "completing"

\* EmailService.send.  Without a key the mail is only written to the log, and
\* the job goes on as if it had been sent.
SendMail(i) ==
    /\ pc[i] = "mailing"
    /\ IF i \in Keyless
       THEN logged' = logged \cup {cur[i]} /\ UNCHANGED sent
       ELSE sent' = sent \cup {cur[i]} /\ UNCHANGED logged
    /\ Goto(i, AfterMail(cur[i]))
    /\ UNCHANGED <<queueVars, orderVars, message, retry>>

\* It has no addressee, or the mail is refused, or it is late: then it may have
\* gone out all the same.
MailFails(i) ==
    /\ pc[i] = "mailing"
    /\ \/ UNCHANGED sent
       \/ i \notin Keyless /\ sent' = sent \cup {cur[i]}
    /\ Goto(i, "failing")
    /\ UNCHANGED <<queueVars, orderVars, message, logged, retry>>

\* order.update by id: whatever status the order has by now is overwritten.
SubmitOrder(i) ==
    LET o == cur[i].of IN
    /\ pc[i] = "submitting"
    /\ status' = [status EXCEPT ![o] =
                    IF o \in DigitalOrder THEN "DELIVERED" ELSE "IN_PRODUCTION"]
    /\ submitted' = submitted \cup {o}
    /\ Goto(i, "completing")
    /\ UNCHANGED <<queueVars, linked, refunded, message, mailVars, retry>>

CompleteJob(i) ==
    /\ pc[i] = "completing"
    /\ job' = [job EXCEPT ![cur[i]] = "DONE"]
    /\ attempts' = [attempts EXCEPT ![cur[i]] = @ + 1]
    /\ LeaveJob(i)
    /\ UNCHANGED <<due, ahead, orderVars, message, mailVars, retry>>

-----------------------------------------------------------------------------
(* recordFailure and escalate.                                             *)

\* Mutants: one attempt too many, and one too few.
ExhaustedLate(k) == attempts[k] >= MaxAttempts
ExhaustedEarly(k) == attempts[k] + 2 >= MaxAttempts

Exhausted(k) == attempts[k] + 1 >= MaxAttempts

\* A mutant: only a lost confirmation is escalated.
EscalatesMailOnly(k) == Exhausted(k) /\ k.type = "SEND_ORDER_CONFIRMATION"

Escalates(k) == Exhausted(k) /\ k.of \in Order

RecordFailure(i) ==
    LET k == cur[i] IN
    /\ pc[i] = "failing"
    /\ attempts' = [attempts EXCEPT ![k] = @ + 1]
    /\ job' = [job EXCEPT ![k] = IF Exhausted(k) THEN "FAILED" ELSE "PENDING"]
    /\ IF Escalates(k) THEN Goto(i, "escalating") ELSE LeaveJob(i)
    /\ UNCHANGED <<due, ahead, orderVars, message, mailVars, retry>>

\* The alert that follows changes no row, and its failure is only logged.
Escalate(i) ==
    /\ pc[i] = "escalating"
    /\ status' = [status EXCEPT ![cur[i].of] = "NEEDS_REVIEW"]
    /\ LeaveJob(i)
    /\ UNCHANGED <<queueVars, submitted, linked, refunded, message, mailVars, retry>>

-----------------------------------------------------------------------------
(* Faults.                                                                 *)

AbortRun(i) ==
    /\ pc' = [pc EXCEPT ![i] = "idle"]
    /\ batch' = [batch EXCEPT ![i] = {}]
    /\ cur' = [cur EXCEPT ![i] = NoJob]

\* A statement of execute, or the update to DONE, is rejected: process catches.
ExecuteFails(i) ==
    /\ "db" \in FaultKinds
    /\ pc[i] \in {"emitting", "submitting", "completing"}
    /\ Goto(i, "failing")
    /\ UNCHANGED <<queueVars, orderVars, message, mailVars, retry>>

\* A statement outside that try is rejected: runPending itself throws, and the
\* rest of its batch stays PROCESSING.
RunFails(i) ==
    /\ "db" \in FaultKinds
    /\ pc[i] \in {"claiming", "failing", "escalating"}
    /\ AbortRun(i)
    /\ UNCHANGED <<queueVars, orderVars, message, mailVars, retry>>

\* The process dies and starts again, with nothing in memory.
Crash(i) ==
    /\ "crash" \in FaultKinds
    /\ pc[i] # "idle"
    /\ AbortRun(i)
    /\ UNCHANGED <<queueVars, orderVars, message, mailVars, retry>>

-----------------------------------------------------------------------------
(* The administrator's retry (one request about an order at a time), and   *)
(* the purge.                                                              *)

RetryCheck(o) ==
    /\ retry[o] = "idle"
    /\ status[o] = "NEEDS_REVIEW"
    /\ retry' = [retry EXCEPT ![o] = "checked"]
    /\ UNCHANGED <<queueVars, orderVars, message, mailVars, runVars>>

\* A mutant: every job of the order is put back.
AllJobs(o) == {k \in OrderJobs(o) : job[k] # "ABSENT"}

FailedJobs(o) == {k \in OrderJobs(o) : job[k] = "FAILED"}

\* A mutant: the job goes back with its attempts used up.
NotRenewed(keys) == attempts

Renewed(keys) == [k \in JobKey |-> IF k \in keys THEN 0 ELSE attempts[k]]

\* reencolarFallidos; with nothing to put back the request ends in a 422.
RetryRequeue(o) ==
    LET failed == FailedJobs(o) IN
    /\ retry[o] = "checked"
    /\ job' = [k \in JobKey |-> IF k \in failed THEN "PENDING" ELSE job[k]]
    /\ attempts' = Renewed(failed)
    /\ BecomeDue(failed)
    /\ retry' = [retry EXCEPT ![o] = IF failed = {} THEN "idle" ELSE "requeued"]
    /\ UNCHANGED <<orderVars, message, mailVars, runVars>>

\* order.update by id, whatever happened since the check.
RetryReturn(o) ==
    /\ retry[o] = "requeued"
    /\ status' = [status EXCEPT ![o] = "PAID"]
    /\ retry' = [retry EXCEPT ![o] = "idle"]
    /\ UNCHANGED <<queueVars, submitted, linked, refunded, message, mailVars, runVars>>

RetryFails(o) ==
    /\ FaultKinds # {}
    /\ retry[o] # "idle"
    /\ retry' = [retry EXCEPT ![o] = "idle"]
    /\ UNCHANGED <<queueVars, orderVars, message, mailVars, runVars>>

\* A DONE job goes 90 days later, when no run can still hold it.
PurgeDone(k) ==
    /\ job[k] = "DONE"
    /\ \A i \in Instance : k \notin batch[i] \cup {cur[i]}
    /\ job' = [job EXCEPT ![k] = "ABSENT"]
    /\ attempts' = [attempts EXCEPT ![k] = 0]
    /\ UNCHANGED <<due, ahead, orderVars, message, mailVars, runVars, retry>>

-----------------------------------------------------------------------------
Run(i) ==
    \/ ReadCandidates(i)
    \/ ClaimBatch(i)
    \/ StartJob(i)
    \/ EmitLinks(i)
    \/ SendMail(i)
    \/ MailFails(i)
    \/ SubmitOrder(i)
    \/ CompleteJob(i)
    \/ RecordFailure(i)
    \/ Escalate(i)

Fault(i) ==
    \/ ExecuteFails(i)
    \/ RunFails(i)
    \/ Crash(i)

Retry(o) ==
    \/ RetryCheck(o)
    \/ RetryRequeue(o)
    \/ RetryReturn(o)
    \/ RetryFails(o)

Next ==
    \/ \E o \in Order : OrderPaid(o) \/ OrderRefunded(o) \/ Retry(o)
    \/ \E c \in Contact : ReceiveMessage(c) \/ RemoveMessage(c)
    \/ \E k \in JobKey : BackoffElapses(k) \/ PurgeDone(k)
    \/ \E i \in Instance : Run(i) \/ Fault(i)

Spec == Init /\ [][Next]_vars

\* The interval of the scheduler starts runs forever, a run that was started
\* goes on, and time passes.  Nothing makes a mail succeed, an administrator
\* retry or a customer pay.
Fairness ==
    /\ \A i \in Instance : WF_vars(Run(i))
    /\ \A k \in JobKey : WF_vars(BackoffElapses(k))

FairSpec == Spec /\ Fairness

-----------------------------------------------------------------------------
(* Properties.                                                             *)

\* The jobs that a run took and has not yet put in another state.
Held(i) ==
    (IF pc[i] \in {"idle", "claiming"} THEN {} ELSE batch[i])
        \cup (IF pc[i] \in InHand THEN {cur[i]} ELSE {})

\* No job is ever in the hands of two runs, and one in the hands of a run is
\* marked PROCESSING: the claim of outbox.service.ts:137-156 against any number
\* of instances, with crashes and errors of the database.
ClaimIsExclusive ==
    \A i \in Instance :
        /\ \A k \in Held(i) : job[k] = "PROCESSING"
        /\ \A j \in Instance \ {i} : Held(i) \cap Held(j) = {}

\* A job in the queue or in execution has an attempt left, and a job is only
\* given up once all of them are used: recordFailure and reencolarFallidos.
AttemptsMatchStatus ==
    \A k \in JobKey :
        /\ job[k] \in {"PENDING", "PROCESSING"} => attempts[k] < MaxAttempts
        /\ job[k] = "FAILED" => attempts[k] = MaxAttempts

\* The mail of a job is out, or an instance without a key wrote it to its log
\* and called that success (email.service.ts:107-112).  Where every instance has
\* its key the log counts for nothing.
Mailed(k) == k \in sent \/ (Keyless # {} /\ k \in logged)

\* What is marked DONE did happen: the mail of the job is out, unless it was
\* about a contact message deleted since, and a delivery was recorded on its
\* order.  Only an instance that runs without a key makes an exception.
DoneWasDelivered ==
    \A k \in JobKey : job[k] = "DONE" =>
        /\ Mailed(k) \/ (k.of \in Contact /\ message[k.of] = "deleted")
        /\ IsDelivery(k) => k.of \in submitted

\* The queue never takes up again what is DONE, and gives a FAILED job another
\* chance only while the administrator's retry of its order is being served.
SettledStaysSettled ==
    [][\A k \in JobKey :
        /\ job[k] = "DONE" => job'[k] \in {"DONE", "ABSENT"}
        /\ job[k] = "FAILED" /\ job'[k] # "FAILED" =>
              /\ job'[k] = "PENDING"
              /\ k.of \in Order
              /\ retry[k.of] = "checked"]_vars

\* Every job that enters the queue is settled in the end: done, or given up
\* with all its attempts used (schema.prisma:632-635 promises it across
\* restarts of the container).
EveryJobSettles ==
    \A k \in JobKey :
        job[k] \in {"PENDING", "PROCESSING"} ~> job[k] \in {"DONE", "FAILED"}

\* A paid order whose delivery is in the queue does not stay PAID in silence:
\* it goes to production or is delivered, or lands in NEEDS_REVIEW, or its
\* money is returned.
PaidOrderMovesOn ==
    \A o \in Order :
        /\ status[o] = "PAID" /\ o \notin submitted
        /\ job[DeliveryJob(o)] \in {"PENDING", "PROCESSING"}
        ~> o \in submitted \/ status[o] \in {"NEEDS_REVIEW", "REFUNDED"}

\* Does not hold, and no run checks it (README): an order that is PAID and has
\* not been delivered has something that will
\* deliver it (admin-retry.controller.ts:73-74: the opposite is exactly the
\* silence to avoid).
PaidHasItsDelivery ==
    \A o \in Order : status[o] = "PAID" /\ o \notin submitted =>
        \/ job[DeliveryJob(o)] \in {"PENDING", "PROCESSING"}
        \/ \E i \in Instance : pc[i] = "escalating" /\ cur[i] = DeliveryJob(o)
=============================================================================
