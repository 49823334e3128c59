------------------------------ MODULE Payments ------------------------------
(***************************************************************************)
(* From the checkout to a paid order.  The checkout writes the order and   *)
(* opens a session at Stripe; what the customer then does at Stripe comes  *)
(* back by two ways that know nothing of each other: webhook events, each  *)
(* handled at most once because it is claimed before it is handled, and    *)
(* the passes of the reconciliation, which ask Stripe about the orders     *)
(* that stay pending.  A purge deletes old orders that were never charged. *)
(*                                                                         *)
(* A step is one awaited call.  A duplicate of an event finds its row in   *)
(* webhook_events and changes nothing, so it is not a step.                *)
(***************************************************************************)
EXTENDS StoreTypes, Naturals, FiniteSets

CONSTANTS
    Pass,        \* reconciliation passes that may overlap: timers, endpoint
    PageSize,    \* LOTE, 50 in the code
    FaultKinds   \* what may fail: a "checkout", a "webhook", a "pass"

\* Orders are known by their orderNumber: the lower, the older.
ASSUME PaymentsAssumption ==
    /\ Order \subseteq Nat
    /\ PageSize \in Nat \ {0}
    /\ FaultKinds \subseteq {"checkout", "webhook", "pass"}

VARIABLES
    status,     \* orders.status; "none" before the order, "deleted" after it
    checkout,   \* where the request that creates the order is
    saved,      \* the orders whose stripeCheckoutSessionId is set
    confirmed,  \* those with paidAt, stripePaymentIntentId and their two jobs
    delivered,  \* those whose delivery job was executed
    session,    \* Stripe's session of each order
    returned,   \* the orders whose charge was refunded in full at Stripe
    webhook,    \* for each event, its row and how far its handling is
    age,        \* "fresh" for 35 minutes, then "due", after 30 days "old"
    step,       \* what each pass is doing
    todo,       \* the orders it still has to look at
    watched,    \* charged orders that were due when it started
    swept       \* charged orders that a whole pass had the time to see

orderVars  == <<status, confirmed>>
shopVars   == <<checkout, saved>>
stripeVars == <<session, returned>>
passVars   == <<step, todo, watched>>
vars == <<orderVars, shopVars, delivered, stripeVars, webhook, age, passVars, swept>>

EventType ==
    {"payment_intent.succeeded", "checkout.session.expired", "charge.refunded"}

Event == [type : EventType, of : Order]

\* The last conjunct relates two columns: the record of a payment is kept, with
\* its row, whatever becomes of the order (order.constants.ts:3-11).
TypeOK ==
    /\ status \in [Order -> OrderStatus \cup {"none", "deleted"}]
    /\ checkout \in [Order -> {"none", "creating", "saving", "closed"}]
    /\ saved \subseteq Order
    /\ confirmed \subseteq Order
    /\ delivered \subseteq Order
    /\ session \in [Order -> {"none", "open", "unpaid", "paid", "expired"}]
    /\ returned \subseteq Order
    /\ webhook \in [Event -> {"none", "claimed", "confirming", "ended"}]
    /\ age \in [Order -> {"fresh", "due", "old"}]
    /\ step \in [Pass -> {"idle", "asking", "reading", "confirming", "expiring"}]
    /\ todo \in [Pass -> SUBSET Order]
    /\ watched \in [Pass -> SUBSET Order]
    /\ swept \subseteq Order
    /\ \A o \in confirmed : status[o] \notin {"none", "deleted"}

Init ==
    /\ status = [o \in Order |-> "none"]
    /\ checkout = [o \in Order |-> "none"]
    /\ saved = {}
    /\ confirmed = {}
    /\ delivered = {}
    /\ session = [o \in Order |-> "none"]
    /\ returned = {}
    /\ webhook = [e \in Event |-> "none"]
    /\ age = [o \in Order |-> "fresh"]
    /\ step = [p \in Pass |-> "idle"]
    /\ todo = [p \in Pass |-> {}]
    /\ watched = [p \in Pass |-> {}]
    /\ swept = {}

-----------------------------------------------------------------------------
(* createSession of the checkout.                                          *)

CreateOrder(o) ==
    /\ status[o] = "none"
    /\ \A older \in Order : older < o => status[older] # "none"
    /\ status' = [status EXCEPT ![o] = "PENDING_PAYMENT"]
    /\ checkout' = [checkout EXCEPT ![o] = "creating"]
    /\ UNCHANGED <<confirmed, saved, delivered, stripeVars, webhook, age, passVars, swept>>

CreateSession(o) ==
    /\ checkout[o] = "creating"
    /\ session' = [session EXCEPT ![o] = "open"]
    /\ checkout' = [checkout EXCEPT ![o] = "saving"]
    /\ UNCHANGED <<orderVars, saved, delivered, returned, webhook, age, passVars, swept>>

\* Only now the customer gets the address of the session.
SaveSession(o) ==
    /\ checkout[o] = "saving"
    /\ saved' = saved \cup {o}
    /\ checkout' = [checkout EXCEPT ![o] = "closed"]
    /\ UNCHANGED <<orderVars, delivered, stripeVars, webhook, age, passVars, swept>>

\* Stripe refuses or does not answer, the update fails, or the process dies:
\* the order stays pending, and a session may exist that nobody knows of.
CheckoutFails(o) ==
    /\ "checkout" \in FaultKinds
    /\ checkout[o] \in {"creating", "saving"}
    /\ checkout' = [checkout EXCEPT ![o] = "closed"]
    /\ UNCHANGED <<orderVars, saved, delivered, stripeVars, webhook, age, passVars, swept>>

-----------------------------------------------------------------------------
(* The customer and Stripe.                                                *)

Moves(o, from, to) ==
    /\ session[o] = from
    /\ session' = [session EXCEPT ![o] = to]
    /\ UNCHANGED <<orderVars, shopVars, delivered, returned, webhook, age, passVars, swept>>

PayByCard(o) == o \in saved /\ Moves(o, "open", "paid")

\* A deferred method completes the session with a voucher, paid later or never.
TakeVoucher(o) == o \in saved /\ Moves(o, "open", "unpaid")

\* Vouchers expire in days.
PayVoucher(o) == age[o] # "old" /\ Moves(o, "unpaid", "paid")

SessionExpires(o) == Moves(o, "open", "expired")

ReturnMoney(o) ==
    /\ session[o] = "paid"
    /\ o \notin returned
    /\ returned' = returned \cup {o}
    /\ UNCHANGED <<orderVars, shopVars, delivered, session, webhook, age, passVars, swept>>

\* A mutant: the completion of the session is taken for the payment.
EmittedOnCompletion(e) ==
    CASE e.type = "payment_intent.succeeded" -> session[e.of] \in {"unpaid", "paid"}
      [] e.type = "checkout.session.expired" -> session[e.of] = "expired"
      [] OTHER                               -> e.of \in returned

\* What Stripe has told of, at least once and in any order.
Emitted(e) ==
    CASE e.type = "payment_intent.succeeded" -> session[e.of] = "paid"
      [] e.type = "checkout.session.expired" -> session[e.of] = "expired"
      [] OTHER                               -> e.of \in returned

-----------------------------------------------------------------------------
(* The handlers that the webhook and the reconciliation share.             *)

StillPending(o) == status[o] = "PENDING_PAYMENT"

\* The transaction of handlePaymentSucceeded: by id, whatever the status is by
\* now, with the jobs; the update of an order that is gone throws.
ConfirmPayment(o) ==
    IF status[o] = "deleted"
    THEN UNCHANGED orderVars
    ELSE /\ status' = [status EXCEPT ![o] = "PAID"]
         /\ confirmed' = confirmed \cup {o}

\* handleSessionExpired.
ExpireOrder(o) ==
    /\ status' = [status EXCEPT ![o] = IF StillPending(o) THEN "CANCELLED" ELSE @]
    /\ UNCHANGED confirmed

-----------------------------------------------------------------------------
(* Webhooks.                                                               *)

Reach(e, phase) ==
    /\ webhook' = [webhook EXCEPT ![e] = phase]
    /\ UNCHANGED <<shopVars, delivered, stripeVars, age, passVars, swept>>

ClaimEvent(e) ==
    /\ Emitted(e)
    /\ webhook[e] = "none"
    /\ Reach(e, "claimed")
    /\ UNCHANGED orderVars

Dispatched(e, type) == webhook[e] = "claimed" /\ e.type = type

ReadPaidOrder(e) ==
    /\ Dispatched(e, "payment_intent.succeeded")
    /\ Reach(e, IF StillPending(e.of) THEN "confirming" ELSE "ended")
    /\ UNCHANGED orderVars

ConfirmByWebhook(e) ==
    /\ webhook[e] = "confirming"
    /\ ConfirmPayment(e.of)
    /\ Reach(e, "ended")

ExpireByWebhook(e) ==
    /\ Dispatched(e, "checkout.session.expired")
    /\ ExpireOrder(e.of)
    /\ Reach(e, "ended")

\* handleChargeRefunded finds the order by its id, in whatever status.
RefundByWebhook(e) ==
    /\ Dispatched(e, "charge.refunded")
    /\ status' = [status EXCEPT ![e.of] = IF @ = "deleted" THEN @ ELSE "REFUNDED"]
    /\ Reach(e, "ended")
    /\ UNCHANGED confirmed

\* The process dies or the database rejects a statement: the event is claimed,
\* and every further delivery of it is answered as a duplicate.
WebhookFails(e) ==
    /\ "webhook" \in FaultKinds
    /\ webhook[e] \in {"claimed", "confirming"}
    /\ Reach(e, "ended")
    /\ UNCHANGED orderVars

-----------------------------------------------------------------------------
(* The reconciliation.                                                     *)

Current(p) == CHOOSE o \in todo[p] : \A other \in todo[p] : o <= other

PassGoes(p, s) ==
    /\ step' = [step EXCEPT ![p] = s]
    /\ UNCHANGED <<todo, watched>>

NextOrder(p) ==
    /\ step' = [step EXCEPT ![p] = "asking"]
    /\ todo' = [todo EXCEPT ![p] = @ \ {Current(p)}]
    /\ UNCHANGED watched

\* What a step of a pass leaves alone.
PassOnly == UNCHANGED <<shopVars, delivered, stripeVars, webhook, age>>

\* findMany: the pending orders older than 35 minutes, the oldest first.
StartPass(p) ==
    LET pending == {o \in Order : StillPending(o) /\ age[o] # "fresh"} IN
    /\ step[p] = "idle"
    /\ \E page \in SUBSET pending :
          /\ Cardinality(page) <= PageSize
          /\ Cardinality(page) < PageSize => page = pending
          /\ \A o \in page, other \in pending \ page : o < other
          /\ todo' = [todo EXCEPT ![p] = page]
    /\ step' = [step EXCEPT ![p] = "asking"]
    /\ watched' = [watched EXCEPT ![p] =
                     {o \in Order : session[o] = "paid" /\ age[o] # "fresh"}]
    /\ PassOnly
    /\ UNCHANGED <<orderVars, swept>>

\* The filter NUNCA_COBRADO.
NeverCharged(o) == status[o] \in {"PENDING_PAYMENT", "CANCELLED"} /\ o \notin confirmed

\* cancelar, for an order that never got its session.
CancelUnsaved(p) ==
    LET o == Current(p) IN
    /\ step[p] = "asking" /\ todo[p] # {}
    /\ o \notin saved
    /\ status' = [status EXCEPT ![o] = IF NeverCharged(o) THEN "CANCELLED" ELSE @]
    /\ NextOrder(p)
    /\ PassOnly
    /\ UNCHANGED <<confirmed, swept>>

\* Mutants: what is complete is taken for paid, what is not paid for expired.
CompleteIsPaid(s) == CASE s \in {"paid", "unpaid"} -> "reading"
                       [] s = "expired"            -> "expiring"
                       [] OTHER                    -> "asking"
UnpaidIsExpired(s) == CASE s = "paid"                 -> "reading"
                        [] s \in {"expired", "unpaid"} -> "expiring"
                        [] OTHER                      -> "asking"
\* Mutants: a payment, or an expiry, is left to the webhook.
PaidIsLeft(s) == IF s = "expired" THEN "expiring" ELSE "asking"
ExpiredIsLeft(s) == IF s = "paid" THEN "reading" ELSE "asking"

\* resolver: an open session and a voucher that is not paid are left alone.
Verdict(s) == CASE s = "paid"    -> "reading"
                [] s = "expired" -> "expiring"
                [] OTHER         -> "asking"

AskStripe(p) ==
    LET o == Current(p) IN
    /\ step[p] = "asking" /\ todo[p] # {}
    /\ o \in saved
    /\ IF Verdict(session[o]) = "asking"
       THEN NextOrder(p)
       ELSE PassGoes(p, Verdict(session[o]))
    /\ PassOnly
    /\ UNCHANGED <<orderVars, swept>>

\* The read of handlePaymentSucceeded.
ReadOrder(p) ==
    /\ step[p] = "reading"
    /\ IF StillPending(Current(p)) THEN PassGoes(p, "confirming") ELSE NextOrder(p)
    /\ PassOnly
    /\ UNCHANGED <<orderVars, swept>>

ConfirmByPass(p) ==
    /\ step[p] = "confirming"
    /\ ConfirmPayment(Current(p))
    /\ NextOrder(p)
    /\ PassOnly
    /\ UNCHANGED swept

ExpireByPass(p) ==
    /\ step[p] = "expiring"
    /\ ExpireOrder(Current(p))
    /\ NextOrder(p)
    /\ PassOnly
    /\ UNCHANGED swept

EndPass(p) ==
    /\ step[p] = "asking" /\ todo[p] = {}
    /\ step' = [step EXCEPT ![p] = "idle"]
    /\ watched' = [watched EXCEPT ![p] = {}]
    /\ swept' = swept \cup watched[p]
    /\ PassOnly
    /\ UNCHANGED <<orderVars, todo>>

\* An error about one order is swallowed; the next pass looks at it again.
OrderFails(p) ==
    /\ "pass" \in FaultKinds
    /\ step[p] # "idle" /\ todo[p] # {}
    /\ step' = [step EXCEPT ![p] = "asking"]
    /\ watched' = [watched EXCEPT ![p] = @ \ {Current(p)}]
    /\ todo' = [todo EXCEPT ![p] = @ \ {Current(p)}]
    /\ PassOnly
    /\ UNCHANGED <<orderVars, swept>>

PassDies(p) ==
    /\ "pass" \in FaultKinds
    /\ step[p] # "idle"
    /\ step' = [step EXCEPT ![p] = "idle"]
    /\ todo' = [todo EXCEPT ![p] = {}]
    /\ watched' = [watched EXCEPT ![p] = {}]
    /\ PassOnly
    /\ UNCHANGED <<orderVars, swept>>

-----------------------------------------------------------------------------
(* Time, the purge, and the outbox.                                        *)

Ages(o, to) ==
    /\ age' = [age EXCEPT ![o] = to]
    /\ UNCHANGED <<orderVars, shopVars, delivered, stripeVars, webhook, passVars, swept>>

\* 35 minutes are more than a checkout takes.
BecomesDue(o) ==
    /\ checkout[o] = "closed"
    /\ age[o] = "fresh"
    /\ \A older \in Order : older < o => age[older] # "fresh"
    /\ Ages(o, "due")

\* 30 days are more than a session stays open, and than whole passes take: one
\* has run, without an error about this order, since it was charged.
BecomesOld(o) ==
    /\ age[o] = "due"
    /\ \A older \in Order : older < o => age[older] = "old"
    /\ session[o] # "open"
    /\ session[o] = "paid" => o \in swept
    /\ Ages(o, "old")

\* A mutant: the purge looks at the date alone.
AnyOld(o) == age[o] = "old"

\* A mutant: what is no sale any more goes, the records of refunds with it.
NoSaleIsOld(o) ==
    age[o] = "old" /\ status[o] \in {"PENDING_PAYMENT", "CANCELLED", "REFUNDED"}

Purgeable(o) == age[o] = "old" /\ NeverCharged(o)

\* purgarSinCobro: one deleteMany.
Purge ==
    /\ \E o \in Order : Purgeable(o)
    /\ status' = [o \in Order |-> IF Purgeable(o) THEN "deleted" ELSE status[o]]
    /\ UNCHANGED <<confirmed, shopVars, delivered, stripeVars, webhook, age, passVars, swept>>

\* The outbox executes the delivery job, whatever the order's status is by now.
Deliver(o) ==
    /\ o \in confirmed \ delivered
    /\ status' = [status EXCEPT ![o] = IF @ = "deleted" THEN @ ELSE "DELIVERED"]
    /\ delivered' = delivered \cup {o}
    /\ UNCHANGED <<confirmed, shopVars, stripeVars, webhook, age, passVars, swept>>

-----------------------------------------------------------------------------
Checkout(o) ==
    \/ CreateOrder(o)
    \/ CreateSession(o)
    \/ SaveSession(o)
    \/ CheckoutFails(o)

Stripe(o) ==
    \/ PayByCard(o)
    \/ TakeVoucher(o)
    \/ PayVoucher(o)
    \/ SessionExpires(o)
    \/ ReturnMoney(o)

Webhook(e) ==
    \/ ClaimEvent(e)
    \/ ReadPaidOrder(e)
    \/ ConfirmByWebhook(e)
    \/ ExpireByWebhook(e)
    \/ RefundByWebhook(e)

Reconcile(p) ==
    \/ StartPass(p)
    \/ CancelUnsaved(p)
    \/ AskStripe(p)
    \/ ReadOrder(p)
    \/ ConfirmByPass(p)
    \/ ExpireByPass(p)
    \/ EndPass(p)

Next ==
    \/ \E o \in Order : Checkout(o) \/ Stripe(o) \/ Deliver(o)
    \/ \E o \in Order : BecomesDue(o) \/ BecomesOld(o)
    \/ \E e \in Event : Webhook(e) \/ WebhookFails(e)
    \/ \E p \in Pass : Reconcile(p) \/ OrderFails(p) \/ PassDies(p)
    \/ Purge

Spec == Init /\ [][Next]_vars

\* The timer starts a pass every ten minutes, a pass that was started goes on,
\* a checkout ends one way or another, and time passes.
PassFairness ==
    /\ \A p \in Pass : WF_vars(Reconcile(p))
    /\ \A o \in Order : WF_vars(Checkout(o) /\ checkout[o] # "none")
    /\ \A o \in Order : WF_vars(BecomesDue(o))

\* Stripe delivers every event at least once.
WebhookFairness == \A e \in Event : WF_vars(Webhook(e))

ReconcilingSpec == Spec /\ PassFairness

DeliveringSpec == ReconcilingSpec /\ WebhookFairness

-----------------------------------------------------------------------------
(* Properties.                                                             *)

\* Nothing is confirmed, and so nothing delivered, that Stripe did not charge:
\* a voucher that was only issued is not a payment (payments.service.ts:60-63).
ConfirmedWasCharged ==
    \A o \in Order :
        o \in confirmed \/ status[o] \in {"PAID", "DELIVERED", "REFUNDED"}
            => session[o] = "paid"

\* An order that was charged is never cancelled, neither by the expiry of a
\* session nor by a pass of the reconciliation that works on what it read
\* before (order-reconciliation.service.ts:208-214).
ChargedIsNotCancelled ==
    \A o \in Order : session[o] = "paid" => status[o] # "CANCELLED"

\* An order that was charged is never deleted, even when no webhook told of it
\* (order.constants.ts:18-25).
ChargedIsNotPurged ==
    \A o \in Order : session[o] = "paid" => status[o] # "deleted"

\* The sale as the customer sees it.
Stage ==
    [o \in Order |->
        IF o \in confirmed THEN "granted"
        ELSE IF status[o] \in {"CANCELLED", "deleted"} THEN "dropped"
        ELSE IF status[o] = "none" THEN "none"
        ELSE IF session[o] = "paid" THEN "charged"
        ELSE "offered"]

Promise == INSTANCE OrderSale WITH Sale <- Order, stage <- Stage

\* Webhooks, passes and purges, in all their interleavings and with what they
\* miss, keep the promise of a sale.
KeepsThePromise == Promise!SaleSpec

\* A pass takes the oldest LOTE pending orders and leaves those that Stripe has
\* open or unpaid as they are, so they fill the page of every pass and hide what
\* comes after them (order-reconciliation.service.ts:76-84, 184-189, 224-226).
Hidden(o) ==
    PageSize <= Cardinality({older \in Order :
        /\ older < o
        /\ StillPending(older) /\ age[older] # "fresh"
        /\ session[older] \in {"open", "unpaid"}})

\* A payment at Stripe is recognised here in the end, although webhooks may be
\* lost, fail or never come (order-reconciliation.service.ts:28-43) - unless
\* older orders that are not settled hide it again and again.
ChargedIsRecognised ==
    \A o \in Order :
        []<>Hidden(o) \/ (session[o] = "paid" ~> status[o] # "PENDING_PAYMENT")

\* An order whose session expired or was never created does not stay pending,
\* with the same exception.
AbandonedIsClosed ==
    \A o \in Order :
        \/ []<>Hidden(o)
        \/ session[o] = "expired" \/ (checkout[o] = "closed" /\ o \notin saved)
              ~> status[o] # "PENDING_PAYMENT"

\* When the money was returned the order ends REFUNDED and its downloads are
\* cut (payments.service.ts:180).
RefundReachesOrder ==
    \A o \in Order : o \in returned ~> status[o] = "REFUNDED"

\* Does not hold, and no run checks it (README): the same for every payment.
\* With one order more than fits a page, a voucher hides the payment behind it.
EveryChargeIsRecognised ==
    \A o \in Order : session[o] = "paid" ~> status[o] # "PENDING_PAYMENT"

\* Does not hold, and no run checks it (README): an order is confirmed only
\* once, however many ways the news of its payment
\* comes by (order-reconciliation.service.ts:41-43).
ConfirmedOnce ==
    [][\A o \in Order : o \in confirmed => ~(status[o] # "PAID" /\ status'[o] = "PAID")]_vars
=============================================================================
