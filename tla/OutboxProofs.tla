---------------------------- MODULE OutboxProofs ----------------------------
(***************************************************************************)
(* Proofs about Outbox for every set of orders, messages and instances,    *)
(* every batch size, every number of attempts and every kind of fault.     *)
(***************************************************************************)
EXTENDS OutboxInvariant, TLAPS

\* A job is the confirmation or the delivery of an order, or a contact message.
LEMMA KeyFacts ==
    ASSUME NEW k \in JobKey
    PROVE  /\ k.of \in Order \cup Contact
           /\ k.of \in Contact => k = ContactJob(k.of) /\ ~IsDelivery(k)
           /\ k.of \in Order => k \in OrderJobs(k.of)
           /\ IsDelivery(k) => k.of \in Order /\ k.of \notin Contact
           /\ k.type = "DELIVER_DIGITAL" => IsDelivery(k)
<1>1. CASE \E o \in Order : k = ConfirmationJob(o)
  BY <1>1, StoreAssumption DEF ConfirmationJob, OrderJobs, IsDelivery
<1>2. CASE \E o \in Order : k = DeliveryJob(o)
  BY <1>2, StoreAssumption DEF DeliveryJob, OrderJobs, IsDelivery
<1>3. CASE \E c \in Contact : k = ContactJob(c)
  BY <1>3, StoreAssumption DEF ContactJob, OrderJobs, IsDelivery
<1> QED
  BY <1>1, <1>2, <1>3 DEF JobKey

\* The jobs that are enqueued are rows of the table.
LEMMA KeysOf ==
    /\ \A o \in Order : OrderJobs(o) \subseteq JobKey
    /\ \A c \in Contact : ContactJob(c) \in JobKey
  BY DEF JobKey, OrderJobs

\* Types, with the bound on attempts that the rest of the invariant gives.
LEMMA TypeStep ==
    ASSUME IInv, [Next]_vars
    PROVE  TypeOK'
<1> USE DEF mailVars
<1>1. ASSUME NEW o \in Order, OrderPaid(o)
      PROVE  TypeOK'
  BY <1>1, KeysOf
     DEF IInv, OrderPaid, EnqueueDue, BecomeDue, Enqueued, Inserted, TypeOK,
        JobStatus, OrderStatus, Step, queueVars, orderVars, runVars
<1>2. ASSUME NEW o \in Order, OrderRefunded(o)
      PROVE  TypeOK'
  BY <1>2, KeysOf
     DEF IInv, OrderRefunded, TypeOK, JobStatus, OrderStatus, Step, queueVars,
        orderVars, runVars
<1>3. ASSUME NEW o \in Order, RetryCheck(o)
      PROVE  TypeOK'
  BY <1>3, KeysOf
     DEF IInv, RetryCheck, TypeOK, JobStatus, OrderStatus, Step, queueVars,
        orderVars, runVars
<1>4. ASSUME NEW o \in Order, RetryRequeue(o)
      PROVE  TypeOK'
  BY <1>4, KeysOf, OutboxAssumption
     DEF IInv, RetryRequeue, BecomeDue, FailedJobs, Renewed, TypeOK,
        JobStatus, OrderStatus, Step, queueVars, orderVars, runVars
<1>5. ASSUME NEW o \in Order, RetryReturn(o)
      PROVE  TypeOK'
  BY <1>5, KeysOf
     DEF IInv, RetryReturn, TypeOK, JobStatus, OrderStatus, Step, queueVars,
        orderVars, runVars
<1>6. ASSUME NEW o \in Order, RetryFails(o)
      PROVE  TypeOK'
  BY <1>6, KeysOf
     DEF IInv, RetryFails, TypeOK, JobStatus, OrderStatus, Step, queueVars,
        orderVars, runVars
<1>7. ASSUME NEW c \in Contact, ReceiveMessage(c)
      PROVE  TypeOK'
  BY <1>7, KeysOf
     DEF IInv, ReceiveMessage, EnqueueDue, BecomeDue, Enqueued, Inserted,
        TypeOK, JobStatus, OrderStatus, Step, queueVars, orderVars, runVars
<1>8. ASSUME NEW c \in Contact, RemoveMessage(c)
      PROVE  TypeOK'
  BY <1>8, KeysOf
     DEF IInv, RemoveMessage, TypeOK, JobStatus, OrderStatus, Step, queueVars,
        orderVars, runVars
<1>9. ASSUME NEW k \in JobKey, BackoffElapses(k)
      PROVE  TypeOK'
  BY <1>9, KeysOf
     DEF IInv, BackoffElapses, BecomeDue, TypeOK, JobStatus, OrderStatus,
        Step, queueVars, orderVars, runVars
<1>10. ASSUME NEW k \in JobKey, PurgeDone(k)
      PROVE  TypeOK'
  BY <1>10, KeysOf, OutboxAssumption
     DEF IInv, PurgeDone, TypeOK, JobStatus, OrderStatus, Step, queueVars,
        orderVars, runVars
<1>11. ASSUME NEW i \in Instance, ReadCandidates(i)
      PROVE  TypeOK'
  BY <1>11, KeysOf
     DEF IInv, ReadCandidates, TypeOK, JobStatus, OrderStatus, Step,
        queueVars, orderVars, runVars
<1>12. ASSUME NEW i \in Instance, ClaimBatch(i)
      PROVE  TypeOK'
  BY <1>12, KeysOf
     DEF IInv, ClaimBatch, Claimed, LeaveQueue, TypeOK, JobStatus,
        OrderStatus, Step, queueVars, orderVars, runVars
<1>13. ASSUME NEW i \in Instance, StartJob(i)
      PROVE  TypeOK'
  BY <1>13, KeysOf
     DEF IInv, StartJob, TypeOK, JobStatus, OrderStatus, Step, queueVars,
        orderVars, runVars
<1>14. ASSUME NEW i \in Instance, EmitLinks(i)
      PROVE  TypeOK'
  <2>1. cur[i].of \in Order
    BY <1>14, KeyFacts DEF IInv, EmitLinks, RunShape, InHand
  <2> QED
    BY <2>1, <1>14 DEF IInv, EmitLinks, Goto, TypeOK, Step, queueVars
<1>15. ASSUME NEW i \in Instance, SendMail(i)
      PROVE  TypeOK'
  <2>1. cur[i] \in JobKey
    BY <1>15 DEF IInv, SendMail, RunShape, InHand
  <2> QED
    BY <2>1, <1>15 DEF IInv, SendMail, Goto, AfterMail, TypeOK, Step,
       queueVars, orderVars
<1>16. ASSUME NEW i \in Instance, MailFails(i)
      PROVE  TypeOK'
  <2>1. cur[i] \in JobKey
    BY <1>16 DEF IInv, MailFails, RunShape, InHand
  <2> QED
    BY <2>1, <1>16 DEF IInv, MailFails, Goto, TypeOK, Step, queueVars,
       orderVars
<1>17. ASSUME NEW i \in Instance, SubmitOrder(i)
      PROVE  TypeOK'
  <2>1. cur[i].of \in Order
    BY <1>17, KeyFacts DEF IInv, SubmitOrder, RunShape, InHand
  <2> QED
    BY <2>1, <1>17 DEF IInv, SubmitOrder, Goto, TypeOK, OrderStatus, Step,
       queueVars
<1>18. ASSUME NEW i \in Instance, CompleteJob(i)
      PROVE  TypeOK'
  <2>1. cur[i] \in JobKey /\ attempts[cur[i]] < MaxAttempts
    BY <1>18 DEF IInv, CompleteJob, RunShape, ClaimIsExclusive,
       AttemptsMatchStatus, Held, InHand
  <2> QED
    BY <2>1, <1>18, OutboxAssumption DEF IInv, CompleteJob, LeaveJob, TypeOK,
       JobStatus, Step, queueVars, orderVars, runVars
<1>19. ASSUME NEW i \in Instance, RecordFailure(i)
      PROVE  TypeOK'
  <2>1. cur[i] \in JobKey /\ attempts[cur[i]] < MaxAttempts
    BY <1>19 DEF IInv, RecordFailure, RunShape, ClaimIsExclusive,
       AttemptsMatchStatus, Held, InHand
  <2> QED
    BY <2>1, <1>19, OutboxAssumption DEF IInv, RecordFailure, Goto, LeaveJob,
       Exhausted, Escalates, TypeOK, JobStatus, Step, queueVars, orderVars,
       runVars
<1>20. ASSUME NEW i \in Instance, Escalate(i)
      PROVE  TypeOK'
  BY <1>20, KeysOf
     DEF IInv, Escalate, LeaveJob, TypeOK, JobStatus, OrderStatus, Step,
        queueVars, orderVars, runVars
<1>21. ASSUME NEW i \in Instance, ExecuteFails(i)
      PROVE  TypeOK'
  BY <1>21, KeysOf
     DEF IInv, ExecuteFails, Goto, TypeOK, JobStatus, OrderStatus, Step,
        queueVars, orderVars, runVars
<1>22. ASSUME NEW i \in Instance, RunFails(i)
      PROVE  TypeOK'
  BY <1>22, KeysOf
     DEF IInv, RunFails, AbortRun, TypeOK, JobStatus, OrderStatus, Step,
        queueVars, orderVars, runVars
<1>23. ASSUME NEW i \in Instance, Crash(i)
      PROVE  TypeOK'
  BY <1>23, KeysOf
     DEF IInv, Crash, AbortRun, TypeOK, JobStatus, OrderStatus, Step,
        queueVars, orderVars, runVars
<1>24. CASE UNCHANGED vars
  BY <1>24 DEF IInv, TypeOK, JobStatus, OrderStatus, Step, queueVars,
     orderVars, runVars, vars, queueVars, orderVars, runVars
<1> QED
  BY <1>1, <1>2, <1>3, <1>4, <1>5, <1>6, <1>7, <1>8, <1>9, <1>10, <1>11,
     <1>12, <1>13, <1>14, <1>15, <1>16, <1>17, <1>18, <1>19, <1>20, <1>21,
     <1>22, <1>23, <1>24
     DEF Next, Run, Fault, Retry

-----------------------------------------------------------------------------
(* Which steps can disturb what.                                           *)

\* The steps that change the status or the attempts of a job.
LEMMA QueueSteps ==
    ASSUME [Next]_vars
    PROVE  \/ UNCHANGED <<job, attempts>>
           \/ \E o \in Order : OrderPaid(o) \/ RetryRequeue(o)
           \/ \E c \in Contact : ReceiveMessage(c)
           \/ \E k \in JobKey : PurgeDone(k)
           \/ \E i \in Instance : ClaimBatch(i) \/ CompleteJob(i) \/ RecordFailure(i)
<1>1. ASSUME NEW o \in Order, OrderRefunded(o) \/ RetryCheck(o) \/ RetryReturn(o)
                                \/ RetryFails(o)
      PROVE  UNCHANGED <<job, attempts>>
  BY <1>1 DEF OrderRefunded, RetryCheck, RetryReturn, RetryFails, queueVars
<1>2. ASSUME NEW c \in Contact, RemoveMessage(c)
      PROVE  UNCHANGED <<job, attempts>>
  BY <1>2 DEF RemoveMessage, queueVars
<1>3. ASSUME NEW k \in JobKey, BackoffElapses(k)
      PROVE  UNCHANGED <<job, attempts>>
  BY <1>3 DEF BackoffElapses
<1>4. ASSUME NEW i \in Instance, ReadCandidates(i) \/ StartJob(i) \/ EmitLinks(i)
                \/ SendMail(i) \/ MailFails(i) \/ SubmitOrder(i) \/ Escalate(i)
      PROVE  UNCHANGED <<job, attempts>>
  BY <1>4 DEF ReadCandidates, StartJob, EmitLinks, SendMail, MailFails,
     SubmitOrder, Escalate, queueVars
<1>5. ASSUME NEW i \in Instance, Fault(i)
      PROVE  UNCHANGED <<job, attempts>>
  BY <1>5 DEF Fault, ExecuteFails, RunFails, Crash, queueVars
<1>6. CASE UNCHANGED vars
  BY <1>6 DEF vars, queueVars
<1> QED
  BY <1>1, <1>2, <1>3, <1>4, <1>5, <1>6 DEF Next, Run, Retry

\* Only its own steps and faults change what a run is doing.
LEMMA RunSteps ==
    ASSUME [Next]_vars
    PROVE  UNCHANGED runVars \/ \E i \in Instance : Run(i) \/ Fault(i)
<1>1. ASSUME NEW o \in Order, OrderPaid(o) \/ OrderRefunded(o) \/ Retry(o)
      PROVE  UNCHANGED runVars
  BY <1>1 DEF OrderPaid, OrderRefunded, Retry, RetryCheck, RetryRequeue,
     RetryReturn, RetryFails
<1>2. ASSUME NEW c \in Contact, ReceiveMessage(c) \/ RemoveMessage(c)
      PROVE  UNCHANGED runVars
  BY <1>2 DEF ReceiveMessage, RemoveMessage
<1>3. ASSUME NEW k \in JobKey, BackoffElapses(k) \/ PurgeDone(k)
      PROVE  UNCHANGED runVars
  BY <1>3 DEF BackoffElapses, PurgeDone
<1>4. CASE UNCHANGED vars
  BY <1>4 DEF vars
<1> QED
  BY <1>1, <1>2, <1>3, <1>4 DEF Next

\* What happened cannot unhappen: mails, deliveries and deleted messages.
LEMMA PastIsKept ==
    ASSUME IInv, [Next]_vars
    PROVE  /\ sent \subseteq sent' /\ logged \subseteq logged'
           /\ submitted \subseteq submitted'
           /\ \A c \in Contact : message[c] = "deleted" => message'[c] = "deleted"
           /\ \A c \in Contact : message'[c] = "none" => message[c] = "none"
<1> USE DEF IInv, TypeOK, mailVars
<1>1. ASSUME NEW o \in Order, OrderPaid(o) \/ OrderRefunded(o) \/ Retry(o)
      PROVE  UNCHANGED <<mailVars, submitted, message>>
  BY <1>1 DEF OrderPaid, OrderRefunded, Retry, RetryCheck, RetryRequeue,
     RetryReturn, RetryFails, orderVars
<1>2. ASSUME NEW k \in JobKey, BackoffElapses(k) \/ PurgeDone(k)
      PROVE  UNCHANGED <<mailVars, submitted, message>>
  BY <1>2 DEF BackoffElapses, PurgeDone, orderVars
<1>3. ASSUME NEW i \in Instance, Run(i) \/ Fault(i)
      PROVE  /\ sent \subseteq sent' /\ logged \subseteq logged'
             /\ submitted \subseteq submitted' /\ UNCHANGED message
  <2>1. CASE SendMail(i) \/ MailFails(i)
    BY <2>1 DEF SendMail, MailFails, orderVars
  <2>2. CASE SubmitOrder(i)
    BY <2>2 DEF SubmitOrder
  <2>3. CASE ReadCandidates(i) \/ ClaimBatch(i) \/ StartJob(i) \/ CompleteJob(i)
    BY <2>3 DEF ReadCandidates, ClaimBatch, StartJob, CompleteJob, orderVars
  <2>4. CASE EmitLinks(i) \/ RecordFailure(i) \/ Escalate(i) \/ Fault(i)
    BY <2>4 DEF EmitLinks, RecordFailure, Escalate, Fault, ExecuteFails, RunFails,
       Crash, orderVars
  <2> QED
    BY <1>3, <2>1, <2>2, <2>3, <2>4 DEF Run
<1>4. ASSUME NEW c \in Contact, ReceiveMessage(c) \/ RemoveMessage(c)
      PROVE  /\ UNCHANGED <<mailVars, submitted>>
             /\ \A d \in Contact : message[d] = "deleted" => message'[d] = "deleted"
             /\ \A d \in Contact : message'[d] = "none" => message[d] = "none"
  BY <1>4 DEF ReceiveMessage, RemoveMessage, orderVars
<1>5. CASE UNCHANGED vars
  BY <1>5 DEF vars, orderVars
<1> QED
  BY <1>1, <1>2, <1>3, <1>4, <1>5 DEF Next

-----------------------------------------------------------------------------
(* The shape of a run, and the exclusiveness of claims.                    *)

LEMMA RunShapeStep ==
    ASSUME IInv, [Next]_vars
    PROVE  RunShape'
<1> USE DEF IInv, TypeOK, InHand
<1>1. CASE UNCHANGED runVars
  BY <1>1 DEF RunShape, runVars
<1>2. ASSUME NEW i \in Instance, ReadCandidates(i) \/ ClaimBatch(i)
      PROVE  RunShape'
  BY <1>2 DEF ReadCandidates, ClaimBatch, Claimed, RunShape
<1>3. ASSUME NEW i \in Instance, StartJob(i)
      PROVE  RunShape'
  <2>1. PICK k \in batch[i] :
           /\ batch' = [batch EXCEPT ![i] = @ \ {k}]
           /\ cur' = [cur EXCEPT ![i] = k]
           /\ pc'[i] \in {"emitting", "mailing", "completing"}
           /\ pc'[i] = "emitting" => k.type = "DELIVER_DIGITAL"
           /\ \A j \in Instance \ {i} : pc'[j] = pc[j]
    BY <1>3 DEF StartJob
  <2>2. k \in JobKey /\ (k.type = "DELIVER_DIGITAL" => IsDelivery(k))
    BY KeyFacts
  <2> QED
    BY <2>1, <2>2 DEF RunShape
<1>4. ASSUME NEW i \in Instance, EmitLinks(i) \/ SendMail(i) \/ MailFails(i)
                                \/ SubmitOrder(i) \/ ExecuteFails(i)
      PROVE  RunShape'
  BY <1>4 DEF EmitLinks, SendMail, MailFails, SubmitOrder, ExecuteFails, Goto,
     AfterMail, RunShape
<1>5. ASSUME NEW i \in Instance, CompleteJob(i) \/ RecordFailure(i) \/ Escalate(i)
      PROVE  RunShape'
  BY <1>5 DEF CompleteJob, RecordFailure, Escalate, Goto, LeaveJob, RunShape
<1>6. ASSUME NEW i \in Instance, RunFails(i) \/ Crash(i)
      PROVE  RunShape'
  BY <1>6 DEF RunFails, Crash, AbortRun, RunShape
<1> QED
  BY <1>1, <1>2, <1>3, <1>4, <1>5, <1>6, RunSteps DEF Run, Fault

\* The jobs a run holds are marked PROCESSING and have an attempt left.
LEMMA HeldFacts ==
    ASSUME IInv, NEW i \in Instance, NEW k \in Held(i)
    PROVE  k \in JobKey /\ job[k] = "PROCESSING" /\ attempts[k] < MaxAttempts
<1>1. k \in JobKey
  BY DEF IInv, TypeOK, RunShape, Held
<1> QED
  BY <1>1 DEF IInv, ClaimIsExclusive, AttemptsMatchStatus

\* Claims stay exclusive as long as no run comes to hold anything new and
\* nothing that is held changes its state.
LEMMA HeldShrinks ==
    ASSUME IInv,
           \A j \in Instance : Held(j)' \subseteq Held(j),
           \A j \in Instance : \A k \in Held(j)' : job'[k] = job[k]
    PROVE  ClaimIsExclusive'
  BY DEF IInv, ClaimIsExclusive

LEMMA ClaimStep ==
    ASSUME IInv, [Next]_vars
    PROVE  ClaimIsExclusive'
<1> USE DEF IInv, TypeOK, InHand
<1>1. CASE UNCHANGED <<job, attempts>> /\ UNCHANGED runVars
  BY <1>1, HeldShrinks DEF Held, runVars
<1>2. ASSUME NEW o \in Order, OrderPaid(o) \/ RetryRequeue(o)
      PROVE  ClaimIsExclusive'
  <2>1. \A k \in JobKey : job[k] = "PROCESSING" => job'[k] = job[k]
    BY <1>2, KeysOf DEF OrderPaid, EnqueueDue, Enqueued, Inserted, RetryRequeue, FailedJobs, Renewed
  <2>2. UNCHANGED runVars
    BY <1>2 DEF OrderPaid, RetryRequeue
  <2> QED
    BY <2>1, <2>2, HeldShrinks, HeldFacts DEF Held, runVars
<1>3. ASSUME NEW c \in Contact, ReceiveMessage(c)
      PROVE  ClaimIsExclusive'
  <2>1. \A k \in JobKey : job[k] = "PROCESSING" => job'[k] = job[k]
    BY <1>3 DEF ReceiveMessage, EnqueueDue, Enqueued, Inserted, queueVars
  <2>2. UNCHANGED runVars
    BY <1>3 DEF ReceiveMessage
  <2> QED
    BY <2>1, <2>2, HeldShrinks, HeldFacts DEF Held, runVars
<1>4. ASSUME NEW k \in JobKey, PurgeDone(k)
      PROVE  ClaimIsExclusive'
  <2>1. \A l \in JobKey : job[l] = "PROCESSING" => job'[l] = job[l]
    BY <1>4 DEF PurgeDone
  <2>2. UNCHANGED runVars
    BY <1>4 DEF PurgeDone
  <2> QED
    BY <2>1, <2>2, HeldShrinks, HeldFacts DEF Held, runVars
<1>5. ASSUME NEW i \in Instance, ClaimBatch(i)
      PROVE  ClaimIsExclusive'
  <2> DEFINE claimed == {k \in batch[i] : job[k] = "PENDING"}
  <2>1. \A k \in JobKey : job'[k] = IF k \in claimed THEN "PROCESSING" ELSE job[k]
    BY <1>5 DEF ClaimBatch, Claimed
  <2>2. \A j \in Instance \ {i} : Held(j)' = Held(j) /\ Held(j) \cap claimed = {}
    BY <1>5, HeldFacts DEF ClaimBatch, Claimed, Held
  <2>3. Held(i)' \subseteq claimed
    BY <1>5 DEF ClaimBatch, Claimed, Held
  <2>4. claimed \subseteq JobKey
    OBVIOUS
  <2> QED
    BY <2>1, <2>2, <2>3, <2>4, HeldFacts DEF ClaimIsExclusive
<1>6. ASSUME NEW i \in Instance, ReadCandidates(i) \/ StartJob(i) \/ EmitLinks(i)
                \/ SendMail(i) \/ MailFails(i) \/ SubmitOrder(i) \/ Escalate(i)
      PROVE  ClaimIsExclusive'
  <2>1. UNCHANGED job
    BY <1>6 DEF ReadCandidates, StartJob, EmitLinks, SendMail, MailFails,
       SubmitOrder, Escalate, queueVars
  <2>2. \A j \in Instance : Held(j)' \subseteq Held(j)
    BY <1>6 DEF ReadCandidates, StartJob, EmitLinks, SendMail, MailFails,
       SubmitOrder, Escalate, Goto, LeaveJob, AfterMail, Held
  <2> QED
    BY <2>1, <2>2, HeldShrinks
<1>7. ASSUME NEW i \in Instance, CompleteJob(i) \/ RecordFailure(i)
      PROVE  ClaimIsExclusive'
  <2>1. \A l \in JobKey \ {cur[i]} : job'[l] = job[l]
    BY <1>7 DEF CompleteJob, RecordFailure
  <2>2. cur[i] \in Held(i)
    BY <1>7 DEF CompleteJob, RecordFailure, Held
  <2>3. Held(i)' \subseteq Held(i) \ {cur[i]}
    BY <1>7 DEF CompleteJob, RecordFailure, Goto, LeaveJob, Held, RunShape
  <2>4. \A j \in Instance \ {i} : Held(j)' = Held(j) /\ cur[i] \notin Held(j)
    BY <1>7, <2>2 DEF CompleteJob, RecordFailure, Goto, LeaveJob, Held, ClaimIsExclusive
  <2> QED
    BY <2>1, <2>3, <2>4, HeldShrinks, HeldFacts
<1>8. ASSUME NEW i \in Instance, Fault(i)
      PROVE  ClaimIsExclusive'
  <2>1. UNCHANGED job
    BY <1>8 DEF Fault, ExecuteFails, RunFails, Crash, queueVars
  <2>2. \A j \in Instance : Held(j)' \subseteq Held(j)
    BY <1>8 DEF Fault, ExecuteFails, RunFails, Crash, Goto, AbortRun, Held
  <2> QED
    BY <2>1, <2>2, HeldShrinks
<1> QED
  BY <1>1, <1>2, <1>3, <1>4, <1>5, <1>6, <1>7, <1>8, QueueSteps, RunSteps DEF Run

-----------------------------------------------------------------------------
(* How a step changes a job, and what that leaves of the invariant.        *)

\* Everything that can happen to a job in one step.
LEMMA JobMoves ==
    ASSUME IInv, [Next]_vars, NEW k \in JobKey
    PROVE  \/ job'[k] = job[k] /\ attempts'[k] = attempts[k]
           \/ job[k] = "ABSENT" /\ job'[k] = "PENDING" /\ attempts'[k] = attempts[k]
           \/ job[k] = "PENDING" /\ job'[k] = "PROCESSING" /\ attempts'[k] = attempts[k]
           \/ /\ job[k] = "PROCESSING"
              /\ attempts'[k] = attempts[k] + 1
              /\ \/ job'[k] = "DONE" /\ \E i \in Instance : CompleteJob(i) /\ cur[i] = k
                 \/ job'[k] = "PENDING" /\ attempts'[k] < MaxAttempts
                 \/ job'[k] = "FAILED" /\ attempts'[k] = MaxAttempts
           \/ /\ job[k] = "FAILED" /\ job'[k] = "PENDING" /\ attempts'[k] = 0
              /\ k.of \in Order /\ retry[k.of] = "checked"
           \/ job[k] = "DONE" /\ job'[k] = "ABSENT" /\ attempts'[k] = 0
<1> USE DEF IInv, TypeOK
<1>1. CASE UNCHANGED <<job, attempts>>
  BY <1>1
<1>2. ASSUME NEW o \in Order, OrderPaid(o)
      PROVE  job'[k] = job[k] \/ (job[k] = "ABSENT" /\ job'[k] = "PENDING")
  BY <1>2, KeysOf DEF OrderPaid, EnqueueDue, Enqueued, Inserted
<1>3. ASSUME NEW o \in Order, OrderPaid(o)
      PROVE  attempts'[k] = attempts[k]
  BY <1>3 DEF OrderPaid, EnqueueDue
<1>4. ASSUME NEW c \in Contact, ReceiveMessage(c)
      PROVE  /\ job'[k] = job[k] \/ (job[k] = "ABSENT" /\ job'[k] = "PENDING")
             /\ attempts'[k] = attempts[k]
  BY <1>4 DEF ReceiveMessage, EnqueueDue, Enqueued, Inserted, queueVars
<1>5. ASSUME NEW o \in Order, RetryRequeue(o)
      PROVE  \/ job'[k] = job[k] /\ attempts'[k] = attempts[k]
             \/ /\ job[k] = "FAILED" /\ job'[k] = "PENDING" /\ attempts'[k] = 0
                /\ k.of \in Order /\ retry[k.of] = "checked"
  BY <1>5 DEF RetryRequeue, FailedJobs, Renewed, OrderJobs, ConfirmationJob, DeliveryJob
<1>6. ASSUME NEW l \in JobKey, PurgeDone(l)
      PROVE  \/ job'[k] = job[k] /\ attempts'[k] = attempts[k]
             \/ job[k] = "DONE" /\ job'[k] = "ABSENT" /\ attempts'[k] = 0
  BY <1>6 DEF PurgeDone
<1>7. ASSUME NEW i \in Instance, ClaimBatch(i)
      PROVE  /\ job'[k] = job[k] \/ (job[k] = "PENDING" /\ job'[k] = "PROCESSING")
             /\ attempts'[k] = attempts[k]
  BY <1>7 DEF ClaimBatch, Claimed
<1>8. ASSUME NEW i \in Instance, CompleteJob(i) \/ RecordFailure(i)
      PROVE  \/ job'[k] = job[k] /\ attempts'[k] = attempts[k]
             \/ /\ job[k] = "PROCESSING"
                /\ attempts'[k] = attempts[k] + 1
                /\ \/ job'[k] = "DONE" /\ CompleteJob(i) /\ cur[i] = k
                   \/ job'[k] = "PENDING" /\ attempts'[k] < MaxAttempts
                   \/ job'[k] = "FAILED" /\ attempts'[k] = MaxAttempts
  <2>1. cur[i] \in Held(i)
    BY <1>8 DEF CompleteJob, RecordFailure, Held, InHand
  <2>2. job[cur[i]] = "PROCESSING" /\ attempts[cur[i]] \in 0..(MaxAttempts - 1)
    BY <2>1, HeldFacts, OutboxAssumption
  <2> QED
    BY <1>8, <2>1, <2>2, HeldFacts, OutboxAssumption
       DEF CompleteJob, RecordFailure, Exhausted
<1> QED
  BY <1>1, <1>2, <1>3, <1>4, <1>5, <1>6, <1>7, <1>8, QueueSteps

LEMMA AttemptsStep ==
    ASSUME IInv, [Next]_vars
    PROVE  AttemptsMatchStatus' /\ NewJobIsUnused'
<1> SUFFICES ASSUME NEW k \in JobKey
             PROVE  /\ job'[k] \in {"PENDING", "PROCESSING"} => attempts'[k] < MaxAttempts
                    /\ job'[k] = "FAILED" => attempts'[k] = MaxAttempts
                    /\ job'[k] = "ABSENT" => attempts'[k] = 0
  BY DEF AttemptsMatchStatus, NewJobIsUnused
<1> QED
  BY JobMoves, OutboxAssumption DEF IInv, AttemptsMatchStatus, NewJobIsUnused

\* A job that is DONE or given up, or gone, is taken up again only by a retry.
LEMMA SettledStep ==
    ASSUME IInv, [Next]_vars, NEW k \in JobKey
    PROVE  /\ job[k] = "DONE" => job'[k] \in {"DONE", "ABSENT"}
           /\ job[k] = "FAILED" /\ job'[k] # "FAILED" =>
                 job'[k] = "PENDING" /\ k.of \in Order /\ retry[k.of] = "checked"
  BY JobMoves

LEMMA MessageStep ==
    ASSUME IInv, [Next]_vars
    PROVE  MessageBeforeJob'
<1> SUFFICES ASSUME NEW c \in Contact, message'[c] = "none"
             PROVE  job'[ContactJob(c)] = "ABSENT"
  BY DEF MessageBeforeJob
<1> DEFINE k == ContactJob(c)
<1> HIDE DEF k
<1>1. k \in JobKey /\ job[k] = "ABSENT" /\ message[c] = "none"
  BY KeysOf, PastIsKept DEF IInv, MessageBeforeJob, k
<1>2. ASSUME NEW o \in Order, OrderPaid(o)
      PROVE  job'[k] = "ABSENT"
  <2>1. k \notin OrderJobs(o)
    BY DEF k, ContactJob, OrderJobs, ConfirmationJob, DeliveryJob
  <2> QED
    BY <1>1, <1>2, <2>1, KeysOf DEF OrderPaid, EnqueueDue, Enqueued, Inserted
<1>3. ASSUME NEW d \in Contact, ReceiveMessage(d)
      PROVE  job'[k] = "ABSENT"
  <2>1. d # c
    BY <1>3 DEF ReceiveMessage, IInv, TypeOK
  <2>2. k \notin {ContactJob(d)}
    BY <2>1 DEF k, ContactJob
  <2> QED
    BY <1>1, <1>3, <2>2 DEF ReceiveMessage, EnqueueDue, Enqueued, Inserted, queueVars
<1>4. ASSUME NEW o \in Order, RetryRequeue(o)
      PROVE  job'[k] = "ABSENT"
  BY <1>1, <1>4 DEF RetryRequeue, FailedJobs, Renewed
<1>5. ASSUME NEW l \in JobKey, PurgeDone(l)
      PROVE  job'[k] = "ABSENT"
  BY <1>1, <1>5 DEF PurgeDone, IInv, TypeOK
<1>6. ASSUME NEW i \in Instance, ClaimBatch(i)
      PROVE  job'[k] = "ABSENT"
  BY <1>1, <1>6 DEF ClaimBatch, Claimed
<1>7. ASSUME NEW i \in Instance, CompleteJob(i) \/ RecordFailure(i)
      PROVE  job'[k] = "ABSENT"
  <2>1. cur[i] # k
    BY <1>1, <1>7, HeldFacts DEF CompleteJob, RecordFailure, Held, InHand
  <2> QED
    BY <1>1, <1>7, <2>1 DEF CompleteJob, RecordFailure, IInv, TypeOK
<1> QED
  BY <1>1, <1>2, <1>3, <1>4, <1>5, <1>6, <1>7, QueueSteps DEF k

\* What a run has achieved is kept by the steps of the others.
LEMMA ProgressIsKept ==
    ASSUME IInv, [Next]_vars, NEW i \in Instance, cur'[i] = cur[i],
           pc'[i] \in {"submitting", "completing"} => pc'[i] = pc[i]
    PROVE  /\ pc'[i] \in {"submitting", "completing"} =>
                 \/ Mailed(cur[i])'
                 \/ cur'[i].of \in Contact /\ message'[cur'[i].of] = "deleted"
           /\ pc'[i] = "completing" /\ IsDelivery(cur'[i]) => cur'[i].of \in submitted'
  BY PastIsKept DEF IInv, RunProgress, Mailed

LEMMA ProgressStep ==
    ASSUME IInv, [Next]_vars
    PROVE  RunProgress'
<1> USE DEF IInv, TypeOK
<1> DEFINE Kept(j) == /\ cur'[j] = cur[j]
                      /\ pc'[j] \in {"submitting", "completing"} => pc'[j] = pc[j]
<1>1. ASSUME NEW i \in Instance,
             \A j \in Instance \ {i} : Kept(j),
             Kept(i) \/ pc'[i] \notin {"submitting", "completing"}
      PROVE  RunProgress'
  BY <1>1, ProgressIsKept DEF RunProgress
<1>2. CASE UNCHANGED runVars
  BY <1>2, ProgressIsKept DEF RunProgress, runVars
<1>3. ASSUME NEW i \in Instance, StartJob(i)
      PROVE  RunProgress'
  <2>1. PICK k \in batch[i] :
           /\ cur' = [cur EXCEPT ![i] = k]
           /\ \A j \in Instance \ {i} : pc'[j] = pc[j]
           /\ pc'[i] # "submitting"
           /\ pc'[i] = "completing" => k.of \in Contact /\ message[k.of] # "saved"
           /\ UNCHANGED message
    BY <1>3 DEF StartJob
  <2>2. k \in JobKey /\ job[k] = "PROCESSING"
    BY <1>3, HeldFacts DEF StartJob, Held
  <2>3. pc'[i] = "completing" =>
           /\ ~IsDelivery(k)
           /\ k.of \in Contact
           /\ message[k.of] = "deleted"
    BY <2>1, <2>2, KeyFacts DEF MessageBeforeJob
  <2>4. \A j \in Instance \ {i} : Kept(j)
    BY <2>1
  <2>5. cur'[i] = k
    BY <2>1
  <2> QED
    BY <2>1, <2>3, <2>4, <2>5, ProgressIsKept DEF RunProgress
<1>4. ASSUME NEW i \in Instance, SendMail(i)
      PROVE  RunProgress'
  <2>1. Mailed(cur[i])'
    BY <1>4 DEF SendMail, Goto, Mailed
  <2>2. pc'[i] = "completing" => ~IsDelivery(cur'[i])
    BY <1>4 DEF SendMail, Goto, AfterMail
  <2>3. \A j \in Instance \ {i} : Kept(j)
    BY <1>4 DEF SendMail, Goto
  <2> QED
    BY <2>1, <2>2, <2>3, ProgressIsKept DEF RunProgress
<1>5. ASSUME NEW i \in Instance, SubmitOrder(i)
      PROVE  RunProgress'
  <2>1. cur'[i] = cur[i] /\ pc[i] = "submitting" /\ cur'[i].of \in submitted'
    BY <1>5 DEF SubmitOrder, Goto
  <2>2. \A j \in Instance \ {i} : Kept(j)
    BY <1>5 DEF SubmitOrder, Goto
  <2>3. \/ Mailed(cur[i])'
        \/ cur'[i].of \in Contact /\ message'[cur'[i].of] = "deleted"
    BY <2>1, PastIsKept DEF RunProgress, Mailed
  <2> QED
    BY <2>1, <2>2, <2>3, ProgressIsKept DEF RunProgress
<1>6. ASSUME NEW i \in Instance, ReadCandidates(i) \/ ClaimBatch(i) \/ EmitLinks(i)
                                \/ MailFails(i)
      PROVE  RunProgress'
  BY <1>1, <1>6 DEF ReadCandidates, ClaimBatch, EmitLinks, MailFails, Goto
<1>7. ASSUME NEW i \in Instance, CompleteJob(i) \/ RecordFailure(i) \/ Escalate(i)
      PROVE  RunProgress'
  BY <1>1, <1>7 DEF CompleteJob, RecordFailure, Escalate, Goto, LeaveJob
<1>8. ASSUME NEW i \in Instance, Fault(i)
      PROVE  RunProgress'
  BY <1>1, <1>8 DEF Fault, ExecuteFails, RunFails, Crash, Goto, AbortRun
<1> QED
  BY <1>2, <1>3, <1>4, <1>5, <1>6, <1>7, <1>8, RunSteps DEF Run

LEMMA DoneStep ==
    ASSUME IInv, [Next]_vars
    PROVE  DoneWasDelivered'
<1> USE DEF IInv
<1> SUFFICES ASSUME NEW k \in JobKey, job'[k] = "DONE"
             PROVE  /\ Mailed(k)' \/ (k.of \in Contact /\ message'[k.of] = "deleted")
                    /\ IsDelivery(k) => k.of \in submitted'
  BY DEF DoneWasDelivered, IsDelivery
<1>1. CASE job[k] = "DONE"
  BY <1>1, PastIsKept DEF DoneWasDelivered, Mailed
<1>2. ASSUME NEW i \in Instance, CompleteJob(i), cur[i] = k
      PROVE  /\ Mailed(k) \/ (k.of \in Contact /\ message[k.of] = "deleted")
             /\ IsDelivery(k) => k.of \in submitted
  BY <1>2 DEF CompleteJob, RunProgress
<1> QED
  BY <1>1, <1>2, JobMoves, PastIsKept DEF Mailed

-----------------------------------------------------------------------------
(* The theorems.                                                           *)

LEMMA InvariantHolds == Spec => []IInv
<1>1. Init => IInv
  <2> SUFFICES ASSUME Init
               PROVE  IInv
    OBVIOUS
  <2>1. TypeOK
    BY OutboxAssumption DEF Init, TypeOK, JobStatus, OrderStatus, Step
  <2>2. RunShape /\ ClaimIsExclusive /\ RunProgress
    BY DEF Init, RunShape, ClaimIsExclusive, RunProgress, Held, InHand
  <2>3. AttemptsMatchStatus /\ NewJobIsUnused /\ MessageBeforeJob /\ DoneWasDelivered
    BY KeysOf DEF Init, AttemptsMatchStatus, NewJobIsUnused, MessageBeforeJob,
       DoneWasDelivered
  <2> QED
    BY <2>1, <2>2, <2>3 DEF IInv
<1>2. IInv /\ [Next]_vars => IInv'
  BY TypeStep, RunShapeStep, ClaimStep, AttemptsStep, ProgressStep, MessageStep,
     DoneStep DEF IInv
<1> QED
  BY <1>1, <1>2, PTL DEF Spec

\* Every value the code writes to the tables and keeps in memory is a legal one;
\* in particular attempts never exceeds maxAttempts.
THEOREM TypeCorrect == Spec => []TypeOK
<1>1. IInv => TypeOK
  BY DEF IInv
<1> QED
  BY <1>1, InvariantHolds, PTL

\* The claim of runPending keeps two instances from ever working on one job,
\* for any number of instances and any interleaving of crashes and errors.
THEOREM ClaimsAreExclusive == Spec => []ClaimIsExclusive
<1>1. IInv => ClaimIsExclusive
  BY DEF IInv
<1> QED
  BY <1>1, InvariantHolds, PTL

\* A job is given up exactly when its maxAttempts attempts are used, and one
\* that is waiting or being worked on has an attempt left.
THEOREM AttemptsAreRespected == Spec => []AttemptsMatchStatus
<1>1. IInv => AttemptsMatchStatus
  BY DEF IInv
<1> QED
  BY <1>1, InvariantHolds, PTL

\* A job is marked DONE only after its mail went out - or, if some instance runs
\* without a key, was at least written to a log - and, if it is a delivery, after
\* its order was marked.  With a key everywhere (Keyless = {}) DONE means sent.
THEOREM DoneMeansDelivered == Spec => []DoneWasDelivered
<1>1. IInv => DoneWasDelivered
  BY DEF IInv
<1> QED
  BY <1>1, InvariantHolds, PTL

\* Nothing puts a DONE job back in the queue, and only the administrator's
\* retry of its order does so for a job that was given up.
THEOREM SettledJobsStay == Spec => SettledStaysSettled
<1>1. IInv /\ [Next]_vars =>
         [\A k \in JobKey :
            /\ job[k] = "DONE" => job'[k] \in {"DONE", "ABSENT"}
            /\ job[k] = "FAILED" /\ job'[k] # "FAILED" =>
                  /\ job'[k] = "PENDING"
                  /\ k.of \in Order
                  /\ retry[k.of] = "checked"]_vars
  BY SettledStep
<1> QED
  BY <1>1, InvariantHolds, PTL DEF Spec, SettledStaysSettled

-----------------------------------------------------------------------------
(* The outbox implements the job ledger: every step of Outbox is a step of
   JobLedger on the jobs, their attempts and their holders, or changes none. *)

\* Since claims are exclusive, the holder of a job is the run that has it.
LEMMA HolderIs ==
    ASSUME ClaimIsExclusive
    PROVE  /\ Holder = [k \in JobKey |-> Holder[k]]
           /\ \A i \in Instance : \A k \in Held(i) \cap JobKey : Holder[k] = i
           /\ \A k \in JobKey : (\A i \in Instance : k \notin Held(i)) => Holder[k] = Nobody
           /\ \A k \in JobKey, i \in Instance : Holder[k] = i => k \in Held(i)
  BY LedgerAssumption DEF Holder, ClaimIsExclusive

\* The same after the step.
LEMMA HolderIsNext ==
    ASSUME ClaimIsExclusive'
    PROVE  /\ Holder' = [k \in JobKey |-> Holder'[k]]
           /\ \A i \in Instance : \A k \in Held(i)' \cap JobKey : Holder'[k] = i
           /\ \A k \in JobKey : (\A i \in Instance : k \notin Held(i)') => Holder'[k] = Nobody
           /\ \A k \in JobKey, i \in Instance : Holder'[k] = i => k \in Held(i)'
  BY LedgerAssumption DEF Holder, ClaimIsExclusive

\* Whoever holds what he held before, nobody else does.
LEMMA SameHolder ==
    ASSUME \A i \in Instance : Held(i)' = Held(i)
    PROVE  Holder' = Holder
  BY DEF Holder

LEMMA SameRuns ==
    ASSUME UNCHANGED runVars
    PROVE  Holder' = Holder
  BY DEF Holder, Held, runVars

LEMMA LedgerInitially ==
    ASSUME Init
    PROVE  Ledger!LedgerInit
<1>1. \A i \in Instance : Held(i) = {}
  BY DEF Init, Held, InHand
<1>2. Holder = [k \in JobKey |-> Nobody]
  BY <1>1 DEF Holder
<1> QED
  BY <1>2 DEF Init, Ledger!LedgerInit

LEMMA LedgerStep ==
    ASSUME IInv, IInv', [Next]_vars
    PROVE  [Ledger!LedgerNext]_(Ledger!ledger)
<1> USE DEF IInv, TypeOK
<1>1. CASE UNCHANGED <<job, attempts>> /\ UNCHANGED runVars
  BY <1>1, SameRuns DEF Ledger!ledger
<1>2. ASSUME NEW o \in Order, OrderPaid(o)
      PROVE  /\ Ledger!Enter(Inserted(job, OrderJobs(o)))
             /\ Inserted(job, OrderJobs(o)) \subseteq JobKey
  BY <1>2, SameRuns, KeysOf
     DEF OrderPaid, EnqueueDue, Enqueued, Inserted, Ledger!Enter, Ledger!In, Ledger!Moved
<1>3. ASSUME NEW c \in Contact, ReceiveMessage(c)
      PROVE  \/ /\ Ledger!Enter(Inserted(job, {ContactJob(c)}))
                /\ Inserted(job, {ContactJob(c)}) \subseteq JobKey
             \/ UNCHANGED Ledger!ledger
  <2>1. Holder' = Holder
    BY <1>3, SameRuns DEF ReceiveMessage
  <2>2. CASE EnqueueDue({ContactJob(c)})
    BY <2>1, <2>2, KeysOf
       DEF EnqueueDue, Enqueued, Inserted, Ledger!Enter, Ledger!In, Ledger!Moved
  <2>3. CASE UNCHANGED queueVars
    BY <2>1, <2>3 DEF queueVars, Ledger!ledger
  <2> QED
    BY <1>3, <2>2, <2>3 DEF ReceiveMessage
<1>4. ASSUME NEW o \in Order, RetryRequeue(o)
      PROVE  Ledger!Revive(FailedJobs(o)) /\ FailedJobs(o) \subseteq JobKey
  BY <1>4, SameRuns, KeysOf
     DEF RetryRequeue, FailedJobs, Renewed, Ledger!Revive, Ledger!In, Ledger!Moved
<1>5. ASSUME NEW k \in JobKey, PurgeDone(k)
      PROVE  Ledger!Forget(k)
  BY <1>5, SameRuns DEF PurgeDone, Ledger!Forget
<1>6. ASSUME NEW i \in Instance, ClaimBatch(i)
      PROVE  \E S \in SUBSET JobKey, w \in Instance \cup {Nobody} : Ledger!Take(S, w)
  <2> DEFINE w == IF Claimed(i) = batch[i] THEN i ELSE Nobody
  <2>1. Claimed(i) \subseteq JobKey /\ Ledger!In(Claimed(i), "PENDING")
    BY DEF Claimed, Ledger!In
  <2>2. job' = Ledger!Moved(Claimed(i), "PROCESSING") /\ UNCHANGED attempts
    BY <1>6 DEF ClaimBatch, Ledger!Moved
  <2>3. \A j \in Instance \ {i} : Held(j)' = Held(j)
    BY <1>6 DEF ClaimBatch, Held
  <2>4. Held(i) = {} /\ Held(i)' = IF Claimed(i) = batch[i] THEN batch[i] ELSE {}
    BY <1>6 DEF ClaimBatch, Held, InHand
  <2>5. \A j \in Instance : Held(j) \cap Claimed(i) = {}
    BY HeldFacts DEF Claimed
  <2>6. ASSUME NEW k \in JobKey
        PROVE  Holder'[k] = IF k \in Claimed(i) THEN w ELSE Holder[k]
    <3>1. CASE k \in Claimed(i)
      BY <2>3, <2>4, <2>5, <3>1, HolderIsNext
    <3>2. CASE k \notin Claimed(i) /\ \E j \in Instance \ {i} : k \in Held(j)
      BY <2>3, <3>2, HolderIs, HolderIsNext
    <3>3. CASE k \notin Claimed(i) /\ \A j \in Instance \ {i} : k \notin Held(j)
      BY <2>3, <2>4, <3>3, HolderIs, HolderIsNext
    <3> QED
      BY <3>1, <3>2, <3>3
  <2>7. Holder' = [k \in JobKey |-> IF k \in Claimed(i) THEN w ELSE Holder[k]]
    BY <2>6 DEF Holder
  <2> QED
    BY <2>1, <2>2, <2>7 DEF Ledger!Take
<1>7. ASSUME NEW i \in Instance, CompleteJob(i) \/ RecordFailure(i)
      PROVE  \E k \in JobKey : Ledger!Finish(i, k) \/ Ledger!TryLater(i, k) \/ Ledger!GiveUp(i, k)
  <2> DEFINE k == cur[i]
  <2>1. k \in Held(i) /\ k \in JobKey
    BY <1>7, HeldFacts DEF CompleteJob, RecordFailure, Held, InHand
  <2>2. job[k] = "PROCESSING" /\ attempts[k] \in 0..(MaxAttempts - 1) /\ Holder[k] = i
    BY <2>1, HeldFacts, HolderIs, OutboxAssumption
  <2>3. Held(i)' = Held(i) \ {k}
    BY <1>7 DEF CompleteJob, RecordFailure, Goto, LeaveJob, Held, RunShape, InHand
  <2>4. \A j \in Instance \ {i} : Held(j)' = Held(j) /\ k \notin Held(j)
    BY <1>7, <2>1 DEF CompleteJob, RecordFailure, Goto, LeaveJob, Held, ClaimIsExclusive
  <2>5. ASSUME NEW l \in JobKey
        PROVE  Holder'[l] = IF l = k THEN Nobody ELSE Holder[l]
    <3>1. CASE l = k
      BY <2>3, <2>4, <3>1, HolderIsNext
    <3>2. CASE l # k /\ \E j \in Instance : l \in Held(j)
      <4>1. PICK j \in Instance : l \in Held(j)
        BY <3>2
      <4>2. l \in Held(j)'
        BY <2>3, <2>4, <3>2, <4>1
      <4>3. Holder[l] = j
        BY <4>1, HolderIs
      <4>4. Holder'[l] = j
        BY <4>2, HolderIsNext
      <4> QED
        BY <3>2, <4>3, <4>4
    <3>3. CASE l # k /\ \A j \in Instance : l \notin Held(j)
      <4>1. \A j \in Instance : l \notin Held(j)'
        BY <2>3, <2>4, <3>3
      <4>2. Holder'[l] = Nobody
        BY <4>1, HolderIsNext
      <4>3. Holder[l] = Nobody
        BY <3>3, HolderIs
      <4> QED
        BY <3>3, <4>2, <4>3
    <3> QED
      BY <3>1, <3>2, <3>3
  <2>6. Holder' = [Holder EXCEPT ![k] = Nobody]
    BY <2>5 DEF Holder
  <2>7. CompleteJob(i) => Ledger!Finish(i, k)
    BY <2>2, <2>6 DEF CompleteJob, Ledger!Finish, Ledger!Settle
  <2>8. RecordFailure(i) /\ Exhausted(k) => Ledger!GiveUp(i, k)
    BY <2>2, <2>6, OutboxAssumption
       DEF RecordFailure, Exhausted, Ledger!GiveUp, Ledger!Settle
  <2>9. RecordFailure(i) /\ ~Exhausted(k) => Ledger!TryLater(i, k)
    BY <2>2, <2>6, OutboxAssumption
       DEF RecordFailure, Exhausted, Ledger!TryLater, Ledger!Settle
  <2> QED
    BY <1>7, <2>1, <2>7, <2>8, <2>9
<1>8. ASSUME NEW i \in Instance, ReadCandidates(i) \/ StartJob(i) \/ EmitLinks(i)
                \/ SendMail(i) \/ MailFails(i) \/ SubmitOrder(i) \/ Escalate(i)
                \/ ExecuteFails(i)
      PROVE  UNCHANGED Ledger!ledger
  <2>1. UNCHANGED <<job, attempts>>
    BY <1>8 DEF ReadCandidates, StartJob, EmitLinks, SendMail, MailFails,
       SubmitOrder, Escalate, ExecuteFails, queueVars
  <2>2. \A j \in Instance : Held(j)' = Held(j)
    BY <1>8 DEF ReadCandidates, StartJob, EmitLinks, SendMail, MailFails,
       SubmitOrder, Escalate, ExecuteFails, Goto, LeaveJob, AfterMail, Held, InHand
  <2> QED
    BY <2>1, <2>2, SameHolder DEF Ledger!ledger
<1>9. ASSUME NEW i \in Instance, RunFails(i) \/ Crash(i)
      PROVE  Ledger!LoseWorker(i)
  <2>1. UNCHANGED <<job, attempts>>
    BY <1>9 DEF RunFails, Crash, queueVars
  <2>2. Held(i)' = {} /\ \A j \in Instance \ {i} : Held(j)' = Held(j)
    BY <1>9 DEF RunFails, Crash, AbortRun, Held, InHand
  <2>3. ASSUME NEW k \in JobKey
        PROVE  Holder'[k] = IF Holder[k] = i THEN Nobody ELSE Holder[k]
    <3>1. CASE \E j \in Instance \ {i} : k \in Held(j)
      BY <2>2, <3>1, HolderIs, HolderIsNext
    <3>2. CASE \A j \in Instance \ {i} : k \notin Held(j)
      BY <2>2, <3>2, HolderIs, HolderIsNext
    <3> QED
      BY <3>1, <3>2
  <2>4. Holder' = [k \in JobKey |-> IF Holder[k] = i THEN Nobody ELSE Holder[k]]
    BY <2>3 DEF Holder
  <2> QED
    BY <2>1, <2>4 DEF Ledger!LoseWorker
<1>10. ASSUME NEW i \in Instance, Run(i) \/ Fault(i)
       PROVE  [Ledger!LedgerNext]_(Ledger!ledger)
  <2>1. CASE ClaimBatch(i)
    BY <1>6, <2>1 DEF Ledger!LedgerNext
  <2>2. CASE CompleteJob(i) \/ RecordFailure(i)
    BY <1>7, <2>2 DEF Ledger!LedgerNext
  <2>3. CASE RunFails(i) \/ Crash(i)
    BY <1>9, <2>3 DEF Ledger!LedgerNext
  <2> QED
    BY <1>8, <1>10, <2>1, <2>2, <2>3 DEF Run, Fault
<1>11. ASSUME \/ \E o \in Order : OrderPaid(o) \/ RetryRequeue(o)
              \/ \E c \in Contact : ReceiveMessage(c)
              \/ \E k \in JobKey : PurgeDone(k)
       PROVE  [Ledger!LedgerNext]_(Ledger!ledger)
  <2>1. CASE \E o \in Order : OrderPaid(o)
    BY <1>2, <2>1 DEF Ledger!LedgerNext
  <2>2. CASE \E o \in Order : RetryRequeue(o)
    BY <1>4, <2>2 DEF Ledger!LedgerNext
  <2>3. CASE \E c \in Contact : ReceiveMessage(c)
    BY <1>3, <2>3 DEF Ledger!LedgerNext
  <2>4. CASE \E k \in JobKey : PurgeDone(k)
    BY <1>5, <2>4 DEF Ledger!LedgerNext
  <2> QED
    BY <1>11, <2>1, <2>2, <2>3, <2>4
<1> QED
  BY <1>1, <1>10, <1>11, QueueSteps, RunSteps DEF Run

\* For any number of instances, jobs and attempts, and whatever fails, the
\* outbox keeps the promise of the ledger: one worker at a time, settled only by
\* the run that holds it, given up after exactly MaxAttempts, DONE for good.
THEOREM OutboxImplementsLedger == Spec => ImplementsLedger
<1>1. IInv /\ IInv' /\ [Next]_vars => [Ledger!LedgerNext]_(Ledger!ledger)
  BY LedgerStep
<1> QED
  BY <1>1, LedgerInitially, InvariantHolds, PTL
     DEF Spec, ImplementsLedger, Ledger!LedgerSpec
=============================================================================
