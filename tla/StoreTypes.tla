----------------------------- MODULE StoreTypes -----------------------------
(***************************************************************************)
(* The vocabulary of the store's database that the other modules share:    *)
(* order and job states, the jobs an order or a contact message gives rise *)
(* to, and the enqueueing of jobs under their deduplication key.           *)
(***************************************************************************)
CONSTANTS
    Order,         \* the orders of the store
    DigitalOrder,  \* those whose lines are all of type DIGITAL
    Contact        \* the messages of the contact form

ASSUME StoreAssumption ==
    /\ DigitalOrder \subseteq Order
    /\ Order \cap Contact = {}

\* SHIPPED is part of the enum, and no code of the repository ever writes it.
OrderStatus == {"PENDING_PAYMENT", "PAID", "IN_PRODUCTION", "SHIPPED",
                "DELIVERED", "CANCELLED", "REFUNDED", "NEEDS_REVIEW"}

JobStatus == {"ABSENT", "PENDING", "PROCESSING", "DONE", "FAILED"}

(***************************************************************************)
(* A job is known by its dedupeKey, `${type}:${id}`: the type of the job   *)
(* and the order, or the contact message, it is about.                     *)
(***************************************************************************)
ConfirmationJob(o) == [type |-> "SEND_ORDER_CONFIRMATION", of |-> o]

DeliveryJob(o) ==
    [type |-> IF o \in DigitalOrder THEN "DELIVER_DIGITAL" ELSE "FULFILL_ORDER",
     of   |-> o]

ContactJob(c) == [type |-> "SEND_CONTACT_MESSAGE", of |-> c]

OrderJobs(o) == {ConfirmationJob(o), DeliveryJob(o)}

JobKey == {ConfirmationJob(o) : o \in Order}
    \cup {DeliveryJob(o) : o \in Order}
    \cup {ContactJob(c) : c \in Contact}

(***************************************************************************)
(* createMany with skipDuplicates: a row is inserted for each key that has *)
(* none yet, and an existing row is left exactly as it is.                 *)
(***************************************************************************)
Inserted(job, keys) == {k \in keys : job[k] = "ABSENT"}

Enqueued(job, keys) ==
    [k \in JobKey |-> IF k \in Inserted(job, keys) THEN "PENDING" ELSE job[k]]
=============================================================================
