--------------------------- MODULE PaymentsProofs ---------------------------
(***************************************************************************)
(* What the webhooks, the passes and the purge do to orders, for any       *)
(* number of orders, events, passes and failures.                          *)
(***************************************************************************)
EXTENDS Payments, FiniteSetTheorems, WellFoundedInduction, TLAPS

\* The checkout goes one way, and its end is what the 35 minutes wait for.
CheckoutShape ==
    \A o \in Order :
        /\ checkout[o] = "none" <=> status[o] = "none"
        /\ checkout[o] \in {"none", "creating"} => session[o] = "none"
        /\ checkout[o] \in {"none", "creating", "saving"} => o \notin saved
        /\ age[o] # "fresh" => checkout[o] = "closed"

\* Only a saved session can be paid, and only what was paid can be returned.
SessionShape ==
    \A o \in Order :
        /\ session[o] \in {"unpaid", "paid"} => o \in saved
        /\ o \in returned => session[o] = "paid"

\* An event that has a row was emitted, and only the one of a payment confirms.
EventsAreTrue ==
    \A e \in Event :
        /\ webhook[e] # "none" => Emitted(e)
        /\ webhook[e] = "confirming" => e.type = "payment_intent.succeeded"

\* What a pass works on is no longer fresh, and what Stripe answered still
\* holds when the pass acts on it.
PassesAreTrue ==
    \A p \in Pass :
        /\ \A o \in todo[p] : age[o] # "fresh"
        /\ step[p] \in {"reading", "confirming", "expiring"} => todo[p] # {}
        /\ step[p] \in {"reading", "confirming"} => session[Current(p)] = "paid"
        /\ step[p] = "expiring" => session[Current(p)] = "expired"

\* Why an order is CANCELLED: nobody can pay its session any more, or nobody
\* ever could.
CancelledForGood ==
    \A o \in Order : status[o] = "CANCELLED" =>
        session[o] = "expired" \/ (o \notin saved /\ checkout[o] = "closed")

SaleInv ==
    /\ TypeOK
    /\ CheckoutShape
    /\ SessionShape
    /\ EventsAreTrue
    /\ PassesAreTrue
    /\ CancelledForGood
    /\ ConfirmedWasCharged

\* The orders that a pass looks for, and that they fit on its page.
Overdue == {o \in Order : StillPending(o) /\ age[o] # "fresh"}

PageIsEnough == IsFiniteSet(Overdue) /\ Cardinality(Overdue) <= PageSize

\* A charged order that a pass set out to see is still ahead of it or has been
\* recognised; when the pass is over it has been.
ChargedIsSeen ==
    /\ \A p \in Pass : \A o \in watched[p] :
          session[o] = "paid" /\ (o \in todo[p] \/ status[o] # "PENDING_PAYMENT")
    /\ \A o \in swept : session[o] = "paid" /\ status[o] # "PENDING_PAYMENT"

\* What is old can no longer be paid, and was seen if it had been; only what is
\* old is deleted.
OldIsOver ==
    \A o \in Order :
        /\ age[o] = "old" => session[o] # "open" /\ (session[o] = "paid" => o \in swept)
        /\ status[o] = "deleted" => age[o] = "old"

KeepInv == SaleInv /\ ChargedIsSeen /\ OldIsOver /\ ChargedIsNotPurged

-----------------------------------------------------------------------------
(* Helpers.                                                                *)

\* A set of natural numbers has a least one.
LEMMA LeastNumber ==
    ASSUME NEW S \in SUBSET Nat, S # {}
    PROVE  \E least \in S : \A n \in S : least <= n
<1>. DEFINE Below == {0..n : n \in S}
<1>1. \A n \in S : 0..n \in FiniteSubsetsOf(Nat)
  BY FS_Interval DEF FiniteSubsetsOf
<1>2. PICK U \in Below : \A V \in Below : ~ (<<V, U>> \in StrictSubsetOrdering(Nat))
  <2>1. Below \subseteq FiniteSubsetsOf(Nat) /\ Below # {}
    BY <1>1
  <2>. HIDE DEF Below
  <2>. QED  BY <2>1, FS_StrictSubsetOrderingWellFounded, WFMin
<1>3. PICK least \in S : U = 0..least
  BY <1>2
<1>4. ASSUME NEW n \in S, n < least  PROVE FALSE
  <2>1. 0..n \subseteq 0..least /\ 0..n # 0..least
    BY <1>4
  <2>2. <<0..n, U>> \in StrictSubsetOrdering(Nat)
    BY <1>1, <1>3, <2>1 DEF StrictSubsetOrdering, FiniteSubsetsOf
  <2>. QED  BY <1>2, <2>2
<1>. QED  BY <1>4

\* A pass that has orders left looks at one of them next.
LEMMA CurrentIs ==
    ASSUME TypeOK, NEW p \in Pass, todo[p] # {}
    PROVE  Current(p) \in todo[p] /\ Current(p) \in Order
<1>1. todo[p] \subseteq Order
  BY DEF TypeOK
<1>2. \E o \in todo[p] : \A other \in todo[p] : o <= other
  BY <1>1, PaymentsAssumption, LeastNumber
<1>. QED  BY <1>1, <1>2 DEF Current

\* It is the same one for as long as it has the same orders left.
LEMMA CurrentStays ==
    ASSUME NEW p \in Pass, todo'[p] = todo[p]
    PROVE  Current(p)' = Current(p)
  BY DEF Current

-----------------------------------------------------------------------------
(* Types.                                                                  *)

LEMMA TypesInitially == Init => TypeOK
  BY DEF Init, TypeOK, OrderStatus

LEMMA TypeStep ==
    ASSUME SaleInv, [Next]_vars
    PROVE  TypeOK'
<1>. USE DEF SaleInv, TypeOK
<1>1. ASSUME NEW o \in Order, Checkout(o)
      PROVE  TypeOK'
  BY <1>1 DEF Checkout, CreateOrder, CreateSession, SaveSession, CheckoutFails,
              OrderStatus, orderVars, shopVars, stripeVars, passVars
<1>2. ASSUME NEW o \in Order, Stripe(o)
      PROVE  TypeOK'
  BY <1>2 DEF Stripe, PayByCard, TakeVoucher, PayVoucher, SessionExpires, ReturnMoney,
              Moves, orderVars, shopVars, stripeVars, passVars
<1>3. ASSUME NEW o \in Order, Deliver(o)
      PROVE  TypeOK'
  BY <1>3 DEF Deliver, OrderStatus, shopVars, stripeVars, passVars
<1>4. ASSUME NEW o \in Order, BecomesDue(o) \/ BecomesOld(o)
      PROVE  TypeOK'
  BY <1>4 DEF BecomesDue, BecomesOld, Ages, orderVars, shopVars, stripeVars, passVars
<1>5. ASSUME NEW e \in Event, Webhook(e) \/ WebhookFails(e)
      PROVE  TypeOK'
  <2>1. e.of \in Order
    BY DEF Event
  <2>. QED
    BY <1>5, <2>1 DEF Webhook, ClaimEvent, ReadPaidOrder, ConfirmByWebhook, ExpireByWebhook,
       RefundByWebhook, WebhookFails, Reach, ConfirmPayment, ExpireOrder, OrderStatus,
       orderVars, shopVars, stripeVars, passVars
<1>6. ASSUME NEW p \in Pass, StartPass(p)
      PROVE  TypeOK'
  BY <1>6 DEF StartPass, PassOnly, orderVars, shopVars, stripeVars
<1>7. ASSUME NEW p \in Pass, CancelUnsaved(p) \/ ConfirmByPass(p) \/ ExpireByPass(p)
      PROVE  TypeOK'
  <2>1. Current(p) \in Order
    BY <1>7, CurrentIs DEF PassesAreTrue, CancelUnsaved, ConfirmByPass, ExpireByPass
  <2>. QED
    BY <1>7, <2>1 DEF CancelUnsaved, ConfirmByPass, ExpireByPass, NextOrder, PassOnly,
       ConfirmPayment, ExpireOrder, OrderStatus, orderVars, shopVars, stripeVars
<1>8. ASSUME NEW p \in Pass, AskStripe(p) \/ ReadOrder(p) \/ EndPass(p)
      PROVE  TypeOK'
  BY <1>8 DEF AskStripe, Verdict, ReadOrder, EndPass, NextOrder, PassGoes, PassOnly,
              orderVars, shopVars, stripeVars
<1>9. ASSUME NEW p \in Pass, OrderFails(p) \/ PassDies(p)
      PROVE  TypeOK'
  BY <1>9 DEF OrderFails, PassDies, PassOnly, orderVars, shopVars, stripeVars
<1>10. CASE Purge
  BY <1>10 DEF Purge, Purgeable, NeverCharged, OrderStatus, shopVars, stripeVars, passVars
<1>11. CASE UNCHANGED vars
  BY <1>11 DEF vars, orderVars, shopVars, stripeVars, passVars
<1>. QED
  BY <1>1, <1>2, <1>3, <1>4, <1>5, <1>6, <1>7, <1>8, <1>9, <1>10, <1>11
     DEF Next, Reconcile

-----------------------------------------------------------------------------
(* What can happen to an order, to its session and to its checkout.  The   *)
(* invariants, and the promise of a sale, follow from these moves.         *)

\* The row: who moves it, and what he knows of the order.
OrderMoves(o) ==
    \/ status'[o] = status[o]
    \/ status[o] = "none" /\ status'[o] = "PENDING_PAYMENT" /\ checkout'[o] = "creating"
    \/ /\ status'[o] = "PAID"
       /\ session[o] = "paid" /\ status[o] # "deleted"
    \/ /\ status[o] = "PENDING_PAYMENT" /\ status'[o] = "CANCELLED"
       /\ session[o] = "expired" \/ (o \notin saved /\ checkout[o] = "closed")
    \/ status'[o] = "REFUNDED" /\ o \in returned /\ status[o] # "deleted"
    \/ status'[o] = "DELIVERED" /\ o \in confirmed /\ status[o] # "deleted"
    \/ status'[o] = "deleted" /\ Purgeable(o)

\* Its confirmation, which is for good.
ConfirmationMoves(o) ==
    /\ o \in confirmed => o \in confirmed'
    /\ o \in confirmed' => o \in confirmed \/ (session[o] = "paid" /\ status[o] # "deleted")

SessionMoves(o) ==
    \/ session'[o] = session[o]
    \/ session[o] = "none" /\ session'[o] = "open" /\ checkout[o] = "creating"
                           /\ checkout'[o] = "saving"
    \/ session[o] = "open" /\ session'[o] \in {"unpaid", "paid"} /\ o \in saved
    \/ session[o] = "open" /\ session'[o] = "expired"
    \/ session[o] = "unpaid" /\ session'[o] = "paid" /\ age[o] # "old"

CheckoutMoves(o) ==
    /\ \/ checkout'[o] = checkout[o]
       \/ checkout[o] = "none" /\ checkout'[o] = "creating" /\ status[o] = "none"
                               /\ status'[o] = "PENDING_PAYMENT"
       \/ checkout[o] = "creating" /\ checkout'[o] = "saving"
       \/ checkout[o] \in {"creating", "saving"} /\ checkout'[o] = "closed"
    /\ o \in saved => o \in saved'
    /\ o \in saved' => o \in saved \/ (checkout[o] = "saving" /\ checkout'[o] = "closed")

AgeMoves(o) ==
    \/ age'[o] = age[o]
    \/ age[o] = "fresh" /\ age'[o] = "due" /\ checkout[o] = "closed"
    \/ /\ age[o] = "due" /\ age'[o] = "old"
       /\ session[o] # "open" /\ session'[o] = session[o]
       /\ session[o] = "paid" => o \in swept

RefundMoves(o) ==
    /\ o \in returned => o \in returned'
    /\ o \in returned' => o \in returned \/ session[o] = "paid"

Moved(o) ==
    /\ OrderMoves(o) /\ ConfirmationMoves(o) /\ SessionMoves(o)
    /\ CheckoutMoves(o) /\ AgeMoves(o) /\ RefundMoves(o)

LEMMA OrdersMove ==
    ASSUME SaleInv, [Next]_vars, NEW o \in Order
    PROVE  Moved(o)
<1>. USE DEF SaleInv, TypeOK, Moved, OrderMoves, ConfirmationMoves, SessionMoves,
             CheckoutMoves, AgeMoves, RefundMoves, orderVars, shopVars, stripeVars, passVars
<1>1. ASSUME NEW q \in Order, Checkout(q)
      PROVE  Moved(o)
  BY <1>1 DEF Checkout, CreateOrder, CreateSession, SaveSession, CheckoutFails, CheckoutShape
<1>2. ASSUME NEW q \in Order, Stripe(q)
      PROVE  Moved(o)
  BY <1>2 DEF Stripe, PayByCard, TakeVoucher, PayVoucher, SessionExpires, ReturnMoney, Moves
<1>3. ASSUME NEW q \in Order, Deliver(q)
      PROVE  Moved(o)
  BY <1>3 DEF Deliver
<1>4. ASSUME NEW q \in Order, BecomesDue(q) \/ BecomesOld(q)
      PROVE  Moved(o)
  BY <1>4 DEF BecomesDue, BecomesOld, Ages
<1>5. ASSUME NEW e \in Event, Webhook(e) \/ WebhookFails(e)
      PROVE  Moved(o)
  <2>1. e.of \in Order
    BY DEF Event
  <2>2. webhook[e] # "none" =>
           /\ e.type = "payment_intent.succeeded" => session[e.of] = "paid"
           /\ e.type = "checkout.session.expired" => session[e.of] = "expired"
           /\ e.type = "charge.refunded" => e.of \in returned
    BY DEF EventsAreTrue, Emitted
  <2>3. webhook[e] = "confirming" => e.type = "payment_intent.succeeded"
    BY DEF EventsAreTrue
  <2>. QED
    BY <1>5, <2>1, <2>2, <2>3
       DEF Webhook, ClaimEvent, ReadPaidOrder, ConfirmByWebhook, ExpireByWebhook,
           RefundByWebhook, WebhookFails, Reach, Dispatched, ConfirmPayment, ExpireOrder,
           StillPending
<1>6. ASSUME NEW p \in Pass, Reconcile(p) \/ OrderFails(p) \/ PassDies(p)
      PROVE  Moved(o)
  <2>1. CASE StartPass(p) \/ AskStripe(p) \/ ReadOrder(p) \/ EndPass(p)
             \/ OrderFails(p) \/ PassDies(p)
    BY <2>1 DEF StartPass, AskStripe, ReadOrder, EndPass, OrderFails, PassDies, PassOnly
  <2>2. CASE CancelUnsaved(p)
    <3>1. Current(p) \in Order /\ checkout[Current(p)] = "closed"
      BY <2>2, CurrentIs DEF CancelUnsaved, PassesAreTrue, CheckoutShape
    <3>. QED  BY <2>2, <3>1 DEF CancelUnsaved, PassOnly, NeverCharged
  <2>3. CASE ConfirmByPass(p) \/ ExpireByPass(p)
    <3>1. /\ Current(p) \in Order
          /\ step[p] = "confirming" => session[Current(p)] = "paid"
          /\ step[p] = "expiring" => session[Current(p)] = "expired"
      BY <2>3, CurrentIs DEF ConfirmByPass, ExpireByPass, PassesAreTrue
    <3>. QED
      BY <2>3, <3>1 DEF ConfirmByPass, ExpireByPass, ConfirmPayment, ExpireOrder, PassOnly,
                        StillPending
  <2>. QED  BY <1>6, <2>1, <2>2, <2>3 DEF Reconcile
<1>7. CASE Purge
  BY <1>7 DEF Purge
<1>8. CASE UNCHANGED vars
  BY <1>8 DEF vars
<1>. QED
  BY <1>1, <1>2, <1>3, <1>4, <1>5, <1>6, <1>7, <1>8 DEF Next

\* In particular Stripe's word stands.
LEMMA StripeStandsByIt ==
    ASSUME SaleInv, [Next]_vars
    PROVE  \A e \in Event : Emitted(e) => Emitted(e)'
<1>. SUFFICES ASSUME NEW e \in Event, Emitted(e)  PROVE Emitted(e)'
  OBVIOUS
<1>1. e.of \in Order
  BY DEF Event
<1>2. SessionMoves(e.of) /\ RefundMoves(e.of)
  BY <1>1, OrdersMove DEF Moved
<1>. QED  BY <1>1, <1>2 DEF Emitted, SessionMoves, RefundMoves

-----------------------------------------------------------------------------
(* The invariant of the sale, whatever the size of a page.                 *)

LEMMA SaleInitially == Init => SaleInv
<1>. SUFFICES ASSUME Init  PROVE SaleInv
  OBVIOUS
<1>1. TypeOK
  BY TypesInitially
<1>. QED
  BY <1>1 DEF Init, SaleInv, CheckoutShape, SessionShape, EventsAreTrue, PassesAreTrue,
              CancelledForGood, ConfirmedWasCharged

LEMMA EventsStayTrue ==
    ASSUME SaleInv, [Next]_vars
    PROVE  EventsAreTrue'
<1>. SUFFICES ASSUME NEW e \in Event
              PROVE  /\ webhook'[e] # "none" => Emitted(e)'
                     /\ webhook'[e] = "confirming" => e.type = "payment_intent.succeeded"
  BY DEF EventsAreTrue
<1>1. \/ webhook'[e] = webhook[e]
      \/ webhook[e] = "none" /\ webhook'[e] = "claimed" /\ Emitted(e)
      \/ webhook[e] # "none" /\ webhook'[e] = "ended"
      \/ /\ webhook[e] = "claimed" /\ webhook'[e] = "confirming"
         /\ e.type = "payment_intent.succeeded"
  <2>. USE DEF SaleInv, TypeOK
  <2>1. ASSUME NEW f \in Event, Webhook(f) \/ WebhookFails(f)
        PROVE  \/ webhook'[e] = webhook[e]
               \/ webhook[e] = "none" /\ webhook'[e] = "claimed" /\ Emitted(e)
               \/ webhook[e] # "none" /\ webhook'[e] = "ended"
               \/ /\ webhook[e] = "claimed" /\ webhook'[e] = "confirming"
                  /\ e.type = "payment_intent.succeeded"
    BY <2>1 DEF Webhook, ClaimEvent, ReadPaidOrder, ConfirmByWebhook, ExpireByWebhook,
                RefundByWebhook, WebhookFails, Reach, Dispatched
  <2>2. CASE ~ \E f \in Event : Webhook(f) \/ WebhookFails(f)
    <3>1. UNCHANGED webhook
      BY <2>2 DEF Next, vars, Checkout, CreateOrder, CreateSession, SaveSession, CheckoutFails,
         Stripe, PayByCard, TakeVoucher, PayVoucher, SessionExpires, ReturnMoney, Moves,
         Deliver, BecomesDue, BecomesOld, Ages, Reconcile, StartPass, CancelUnsaved,
         AskStripe, ReadOrder, ConfirmByPass, ExpireByPass, EndPass, OrderFails, PassDies,
         PassOnly, Purge
    <3>. QED  BY <3>1
  <2>. QED  BY <2>1, <2>2
<1>. QED
  BY <1>1, StripeStandsByIt DEF SaleInv, EventsAreTrue

LEMMA PassesStayTrue ==
    ASSUME SaleInv, [Next]_vars
    PROVE  PassesAreTrue'
<1>. SUFFICES ASSUME NEW p \in Pass
              PROVE  /\ \A o \in todo'[p] : age'[o] # "fresh"
                     /\ step'[p] \in {"reading", "confirming", "expiring"} => todo'[p] # {}
                     /\ step'[p] \in {"reading", "confirming"} => session'[Current(p)'] = "paid"
                     /\ step'[p] = "expiring" => session'[Current(p)'] = "expired"
  BY DEF PassesAreTrue
<1>1. TypeOK'
  BY TypeStep
<1>2. \A o \in Order : age[o] # "fresh" => age'[o] # "fresh"
  BY OrdersMove DEF Moved, AgeMoves
<1>3. \A o \in Order : session[o] \in {"paid", "expired"} => session'[o] = session[o]
  BY OrdersMove DEF Moved, SessionMoves
<1>4. todo[p] # {} => Current(p) \in todo[p] /\ Current(p) \in Order
  BY CurrentIs DEF SaleInv
<1>5. CASE todo'[p] = todo[p] /\ step'[p] = step[p]
  <2>1. Current(p)' = Current(p)
    BY <1>5, CurrentStays
  <2>. QED  BY <1>2, <1>3, <1>4, <1>5, <2>1 DEF SaleInv, TypeOK, PassesAreTrue
<1>6. CASE step'[p] \in {"idle", "asking"} /\ \A o \in todo'[p] : age[o] # "fresh"
  BY <1>1, <1>2, <1>6 DEF TypeOK
<1>7. CASE /\ todo'[p] = todo[p] /\ todo[p] # {}
           /\ \/ step'[p] \in {"reading", "confirming"} /\ session[Current(p)] = "paid"
              \/ step'[p] = "expiring" /\ session[Current(p)] = "expired"
  <2>1. Current(p)' = Current(p)
    BY <1>7, CurrentStays
  <2>. QED  BY <1>2, <1>3, <1>4, <1>7, <2>1 DEF SaleInv, TypeOK, PassesAreTrue
<1>8. ASSUME NEW q \in Pass, Reconcile(q) \/ OrderFails(q) \/ PassDies(q)
      PROVE  \/ todo'[p] = todo[p] /\ step'[p] = step[p]
             \/ step'[p] \in {"idle", "asking"} /\ \A o \in todo'[p] : age[o] # "fresh"
             \/ /\ todo'[p] = todo[p] /\ todo[p] # {}
                /\ \/ step'[p] \in {"reading", "confirming"} /\ session[Current(p)] = "paid"
                   \/ step'[p] = "expiring" /\ session[Current(p)] = "expired"
  <2>. USE DEF SaleInv, TypeOK, PassesAreTrue
  <2>1. CASE StartPass(q)
    BY <2>1 DEF StartPass
  <2>2. CASE AskStripe(q)
    BY <2>2, <1>4 DEF AskStripe, Verdict, NextOrder, PassGoes
  <2>3. CASE ReadOrder(q)
    BY <2>3, <1>4 DEF ReadOrder, NextOrder, PassGoes
  <2>4. CASE CancelUnsaved(q) \/ ConfirmByPass(q) \/ ExpireByPass(q) \/ EndPass(q)
             \/ OrderFails(q) \/ PassDies(q)
    BY <2>4 DEF CancelUnsaved, ConfirmByPass, ExpireByPass, EndPass, OrderFails, PassDies,
                NextOrder
  <2>. QED  BY <1>8, <2>1, <2>2, <2>3, <2>4 DEF Reconcile
<1>9. CASE ~ \E q \in Pass : Reconcile(q) \/ OrderFails(q) \/ PassDies(q)
  <2>1. UNCHANGED passVars
    BY <1>9 DEF Next, vars, Checkout, CreateOrder, CreateSession, SaveSession, CheckoutFails,
       Stripe, PayByCard, TakeVoucher, PayVoucher, SessionExpires, ReturnMoney, Moves,
       Deliver, BecomesDue, BecomesOld, Ages, Webhook, ClaimEvent, ReadPaidOrder,
       ConfirmByWebhook, ExpireByWebhook, RefundByWebhook, WebhookFails, Reach, Purge
  <2>. QED  BY <1>5, <2>1 DEF passVars
<1>. QED  BY <1>5, <1>6, <1>7, <1>8, <1>9

LEMMA SaleStep == SaleInv /\ [Next]_vars => SaleInv'
<1>. SUFFICES ASSUME SaleInv, [Next]_vars  PROVE SaleInv'
  OBVIOUS
<1>1. TypeOK' /\ EventsAreTrue' /\ PassesAreTrue'
  BY TypeStep, EventsStayTrue, PassesStayTrue
<1>. SUFFICES /\ CheckoutShape' /\ SessionShape'
              /\ CancelledForGood' /\ ConfirmedWasCharged'
  BY <1>1 DEF SaleInv
<1>2. \A o \in Order : Moved(o)
  BY OrdersMove
<1>. USE <1>2 DEF SaleInv, TypeOK, Moved
<1>3. CheckoutShape'
  BY DEF CheckoutShape, OrderMoves, SessionMoves, CheckoutMoves, AgeMoves, SessionShape,
         ConfirmedWasCharged, Purgeable, NeverCharged
<1>4. SessionShape'
  BY DEF SessionShape, SessionMoves, CheckoutMoves, RefundMoves
<1>5. CancelledForGood'
  BY DEF CancelledForGood, OrderMoves, SessionMoves, CheckoutMoves, CheckoutShape
<1>6. ConfirmedWasCharged'
  BY DEF ConfirmedWasCharged, OrderMoves, ConfirmationMoves, SessionMoves, SessionShape
<1>. QED  BY <1>3, <1>4, <1>5, <1>6

LEMMA SaleInvariant == Spec => []SaleInv
  BY SaleInitially, SaleStep, PTL DEF Spec

\* Every variable has its type, and the record of a payment keeps its row.
THEOREM PaymentTypes == Spec => []TypeOK
<1>1. SaleInv => TypeOK  BY DEF SaleInv
<1>. QED  BY SaleInvariant, <1>1, PTL

\* However webhooks and passes overlap and fail, nothing is confirmed or
\* delivered that Stripe did not charge (payments.service.ts:60-63).
THEOREM NothingUnpaidIsConfirmed == Spec => []ConfirmedWasCharged
<1>1. SaleInv => ConfirmedWasCharged  BY DEF SaleInv
<1>. QED  BY SaleInvariant, <1>1, PTL

\* No expiry and no pass cancels what was charged, nor is what they cancelled
\* charged afterwards (order-reconciliation.service.ts:208-214).
THEOREM NothingChargedIsCancelled == Spec => []ChargedIsNotCancelled
<1>1. SaleInv => ChargedIsNotCancelled
  BY DEF SaleInv, CancelledForGood, SessionShape, ChargedIsNotCancelled
<1>. QED  BY SaleInvariant, <1>1, PTL

-----------------------------------------------------------------------------
(* The purge.  It needs that a pass sees every overdue order: with fewer   *)
(* places on a page than orders that wait for a voucher, a charged order   *)
(* behind them is never looked at.                                         *)

\* The page of a pass is then all that is overdue.
LEMMA PageIsAll ==
    ASSUME SaleInv, PageIsEnough, NEW p \in Pass, StartPass(p)
    PROVE  todo'[p] = Overdue
<1>1. PICK page \in SUBSET Overdue :
           /\ Cardinality(page) < PageSize => page = Overdue
           /\ todo' = [todo EXCEPT ![p] = page]
  BY DEF StartPass, Overdue
<1>2. /\ Cardinality(page) \in Nat /\ Cardinality(Overdue) \in Nat
      /\ Cardinality(page) <= Cardinality(Overdue)
      /\ Cardinality(page) = Cardinality(Overdue) => page = Overdue
  BY FS_Subset, FS_CardinalityType DEF PageIsEnough
<1>3. page = Overdue
  BY <1>1, <1>2, PaymentsAssumption DEF PageIsEnough
<1>. QED  BY <1>1, <1>3 DEF SaleInv, TypeOK

LEMMA ChargedStaysSeen ==
    ASSUME KeepInv, PageIsEnough, [Next]_vars
    PROVE  ChargedIsSeen'
<1>. USE DEF KeepInv, SaleInv, TypeOK
<1>1. \A o \in Order : session[o] = "paid" =>
          /\ session'[o] = "paid"
          /\ status[o] # "PENDING_PAYMENT" => status'[o] # "PENDING_PAYMENT"
  <2>. SUFFICES ASSUME NEW o \in Order, session[o] = "paid"
                PROVE  /\ session'[o] = "paid"
                       /\ status[o] # "PENDING_PAYMENT" => status'[o] # "PENDING_PAYMENT"
    OBVIOUS
  <2>1. status[o] # "none"
    BY DEF CheckoutShape
  <2>. QED  BY <2>1, OrdersMove DEF Moved, OrderMoves, SessionMoves
<1>2. ASSUME UNCHANGED passVars, UNCHANGED swept
      PROVE  ChargedIsSeen'
  BY <1>1, <1>2 DEF ChargedIsSeen, passVars
\* A pass q moves on: it started, it dropped its current order, or it ended.
<1>3. ASSUME NEW q \in Pass, Reconcile(q) \/ OrderFails(q) \/ PassDies(q)
      PROVE  ChargedIsSeen'
  <2>1. ASSUME NEW p \in Pass, NEW o \in watched'[p]
        PROVE  session'[o] = "paid" /\ (o \in todo'[p] \/ status'[o] # "PENDING_PAYMENT")
    <3>1. CASE StartPass(q)
      <4>1. p # q => watched'[p] = watched[p] /\ todo'[p] = todo[p]
        BY <3>1 DEF StartPass
      <4>2. watched'[q] = {c \in Order : session[c] = "paid" /\ age[c] # "fresh"}
        BY <3>1 DEF StartPass
      <4>3. todo'[q] = Overdue
        BY <3>1, PageIsAll
      <4>4. UNCHANGED <<status, session>>
        BY <3>1 DEF StartPass, PassOnly, orderVars, stripeVars
      <4>. QED  BY <2>1, <4>1, <4>2, <4>3, <4>4 DEF ChargedIsSeen, Overdue, StillPending
    <3>2. CASE EndPass(q) \/ OrderFails(q) \/ PassDies(q)
      BY <2>1, <3>2 DEF EndPass, OrderFails, PassDies, PassOnly, ChargedIsSeen, orderVars,
                        stripeVars
    <3>3. CASE CancelUnsaved(q) \/ AskStripe(q) \/ ReadOrder(q) \/ ConfirmByPass(q)
               \/ ExpireByPass(q)
      <4>1. watched'[p] = watched[p] /\ o \in watched[p] /\ o \in Order /\ session[o] = "paid"
        BY <2>1, <3>3 DEF CancelUnsaved, AskStripe, ReadOrder, ConfirmByPass, ExpireByPass,
                          NextOrder, PassGoes, ChargedIsSeen
      <4>2. CASE p # q \/ o # Current(q)
        <5>1. o \in todo[p] => o \in todo'[p]
          BY <3>3, <4>2 DEF CancelUnsaved, AskStripe, ReadOrder, ConfirmByPass, ExpireByPass,
                            NextOrder, PassGoes
        <5>. QED  BY <1>1, <4>1, <5>1 DEF ChargedIsSeen
      <4>3. CASE p = q /\ o = Current(q)
        <5>1. ~ CancelUnsaved(q) /\ ~ ExpireByPass(q)
          BY <4>1, <4>3 DEF CancelUnsaved, ExpireByPass, SessionShape, PassesAreTrue
        <5>2. CASE AskStripe(q)
          BY <1>1, <4>1, <4>3, <5>2
             DEF AskStripe, Verdict, NextOrder, PassGoes, ChargedIsSeen
        <5>3. CASE ReadOrder(q)
          BY <1>1, <4>1, <4>3, <5>3
             DEF ReadOrder, NextOrder, PassGoes, ChargedIsSeen, StillPending
        <5>4. CASE ConfirmByPass(q)
          BY <1>1, <4>1, <4>3, <5>4 DEF ConfirmByPass, ConfirmPayment, NextOrder, orderVars
        <5>. QED  BY <3>3, <5>1, <5>2, <5>3, <5>4
      <4>. QED  BY <4>2, <4>3
    <3>. QED  BY <1>3, <3>1, <3>2, <3>3 DEF Reconcile
  <2>2. ASSUME NEW o \in swept'
        PROVE  session'[o] = "paid" /\ status'[o] # "PENDING_PAYMENT"
    <3>1. o \in swept \/ (o \in watched[q] /\ todo[q] = {})
      BY <1>3, <2>2
         DEF Reconcile, StartPass, CancelUnsaved, AskStripe, ReadOrder, ConfirmByPass,
             ExpireByPass, EndPass, OrderFails, PassDies
    <3>. QED  BY <1>1, <3>1 DEF ChargedIsSeen
  <2>. QED  BY <2>1, <2>2 DEF ChargedIsSeen
<1>4. CASE ~ \E q \in Pass : Reconcile(q) \/ OrderFails(q) \/ PassDies(q)
  <2>1. UNCHANGED passVars /\ UNCHANGED swept
    BY <1>4 DEF Next, vars, Checkout, CreateOrder, CreateSession, SaveSession, CheckoutFails,
       Stripe, PayByCard, TakeVoucher, PayVoucher, SessionExpires, ReturnMoney, Moves,
       Deliver, BecomesDue, BecomesOld, Ages, Webhook, ClaimEvent, ReadPaidOrder,
       ConfirmByWebhook, ExpireByWebhook, RefundByWebhook, WebhookFails, Reach, Purge
  <2>. QED  BY <1>2, <2>1
<1>. QED  BY <1>3, <1>4

LEMMA KeepInitially == Init => KeepInv
<1>. SUFFICES ASSUME Init  PROVE KeepInv
  OBVIOUS
<1>. QED
  BY SaleInitially DEF Init, KeepInv, ChargedIsSeen, OldIsOver, ChargedIsNotPurged

LEMMA KeepStep == KeepInv /\ PageIsEnough /\ [Next]_vars => KeepInv'
<1>. SUFFICES ASSUME KeepInv, PageIsEnough, [Next]_vars  PROVE KeepInv'
  OBVIOUS
<1>1. SaleInv' /\ ChargedIsSeen'
  BY SaleStep, ChargedStaysSeen DEF KeepInv
<1>2. \A o \in Order : Moved(o)
  BY OrdersMove DEF KeepInv
<1>3. \A o \in swept : o \in swept'
  BY DEF Next, vars, Checkout, CreateOrder, CreateSession, SaveSession, CheckoutFails,
     Stripe, PayByCard, TakeVoucher, PayVoucher, SessionExpires, ReturnMoney, Moves,
     Deliver, BecomesDue, BecomesOld, Ages, Webhook, ClaimEvent, ReadPaidOrder,
     ConfirmByWebhook, ExpireByWebhook, RefundByWebhook, WebhookFails, Reach, Purge,
     Reconcile, StartPass, CancelUnsaved, AskStripe, ReadOrder, ConfirmByPass,
     ExpireByPass, EndPass, OrderFails, PassDies
<1>. USE DEF KeepInv, SaleInv, TypeOK
\* The purge finds only what was never charged.
<1>4. ASSUME NEW o \in Order, Purgeable(o)
      PROVE  session[o] # "paid"
  BY <1>4 DEF Purgeable, NeverCharged, OldIsOver, ChargedIsSeen, CancelledForGood,
              SessionShape
<1>5. OldIsOver'
  BY <1>2, <1>3 DEF OldIsOver, Moved, OrderMoves, SessionMoves, AgeMoves, CheckoutShape,
                    Purgeable
<1>6. ChargedIsNotPurged'
  BY <1>2, <1>4 DEF ChargedIsNotPurged, OldIsOver, Moved, OrderMoves, SessionMoves,
                    Purgeable
<1>. QED  BY <1>1, <1>5, <1>6

LEMMA KeepInvariant == Spec /\ []PageIsEnough => []KeepInv
  BY KeepInitially, KeepStep, PTL DEF Spec

\* As long as a page holds what is overdue, no charged order is deleted, even
\* when no webhook told of it and passes die and fail (order.constants.ts:18-25).
THEOREM NothingChargedIsPurged == Spec /\ []PageIsEnough => []ChargedIsNotPurged
<1>1. KeepInv => ChargedIsNotPurged  BY DEF KeepInv
<1>. QED  BY KeepInvariant, <1>1, PTL

-----------------------------------------------------------------------------
(* The promise of a sale.                                                  *)

\* No order but this one changes.
OnlyMoves(q) ==
    \A o \in Order \ {q} :
        /\ status'[o] = status[o]
        /\ session'[o] = session[o]
        /\ o \in confirmed' <=> o \in confirmed

\* One order moves, and the customer sees a step of the sale or nothing.
LEMMA OneSaleMoves ==
    ASSUME KeepInv, [Next]_vars, NEW q \in Order,
           \A o \in Order \ {q} : Stage'[o] = Stage[o]
    PROVE  [Promise!SaleNext]_Stage
<1>. USE DEF KeepInv, SaleInv, TypeOK
<1>1. Moved(q)
  BY OrdersMove
<1>2. Purgeable(q) => session[q] # "paid"
  BY DEF Purgeable, NeverCharged, OldIsOver, ChargedIsSeen, CancelledForGood, SessionShape
<1>3. \/ Stage'[q] = Stage[q]
      \/ Stage[q] = "none" /\ Stage'[q] = "offered"
      \/ Stage[q] = "offered" /\ Stage'[q] = "charged"
      \/ Stage[q] = "charged" /\ Stage'[q] = "granted"
      \/ Stage[q] = "offered" /\ Stage'[q] = "dropped"
  BY <1>1, <1>2
     DEF Stage, Moved, OrderMoves, ConfirmationMoves, SessionMoves, CheckoutMoves, AgeMoves,
         RefundMoves, CheckoutShape, SessionShape, CancelledForGood, ConfirmedWasCharged,
         OldIsOver, ChargedIsNotPurged, Purgeable
<1>4. /\ Stage = [o \in Order |-> Stage[o]]
      /\ Stage' = [o \in Order |-> Stage'[o]]
  BY DEF Stage
<1>5. \A to : Stage'[q] = to => Stage' = [Stage EXCEPT ![q] = to]
  BY <1>4
<1>6. CASE Stage'[q] = Stage[q]
  <2>1. Stage' = Stage
    BY <1>4, <1>6
  <2>. QED  BY <2>1
<1>7. CASE Stage[q] = "none" /\ Stage'[q] = "offered"
  BY <1>5, <1>7 DEF Promise!SaleNext, Promise!Offer, Promise!Becomes
<1>8. CASE Stage[q] = "offered" /\ Stage'[q] = "charged"
  BY <1>5, <1>8 DEF Promise!SaleNext, Promise!Charge, Promise!Becomes
<1>9. CASE Stage[q] = "charged" /\ Stage'[q] = "granted"
  BY <1>5, <1>9 DEF Promise!SaleNext, Promise!Grant, Promise!Becomes
<1>10. CASE Stage[q] = "offered" /\ Stage'[q] = "dropped"
  <2>1. Stage' = [o \in Order |-> IF o \in {q} THEN "dropped" ELSE Stage[o]]
    BY <1>4, <1>10
  <2>2. Promise!Drop({q})
    BY <1>10, <2>1 DEF Promise!Drop
  <2>. QED  BY <2>2 DEF Promise!SaleNext
<1>. QED  BY <1>3, <1>6, <1>7, <1>8, <1>9, <1>10

\* The purge drops, all at once, the offers that are still open.
LEMMA PurgeDrops ==
    ASSUME KeepInv, Purge
    PROVE  [Promise!SaleNext]_Stage
<1>. USE DEF KeepInv, SaleInv, TypeOK
<1>. DEFINE S == {o \in Order : Purgeable(o) /\ status[o] = "PENDING_PAYMENT"}
<1>1. \A o \in Order : Purgeable(o) => session[o] # "paid"
  BY DEF Purgeable, NeverCharged, OldIsOver, ChargedIsSeen, CancelledForGood, SessionShape
<1>2. \A o \in S : Stage[o] = "offered"
  BY <1>1 DEF Stage, Purgeable, NeverCharged
<1>3. Stage' = [o \in Order |-> IF o \in S THEN "dropped" ELSE Stage[o]]
  BY DEF Purge, Stage, Purgeable, NeverCharged, stripeVars
<1>4. Promise!Drop(S)
  BY <1>2, <1>3 DEF Promise!Drop
<1>. QED  BY <1>4 DEF Promise!SaleNext

LEMMA PromiseStep ==
    ASSUME KeepInv, [Next]_vars
    PROVE  [Promise!SaleNext]_Stage
<1>. USE DEF KeepInv, SaleInv, TypeOK
<1>1. ASSUME NEW q \in Order, OnlyMoves(q)
      PROVE  [Promise!SaleNext]_Stage
  <2>1. ASSUME NEW o \in Order \ {q}
        PROVE  Stage'[o] = Stage[o]
    BY <1>1 DEF Stage, OnlyMoves
  <2>. QED  BY <2>1, OneSaleMoves
<1>2. ASSUME UNCHANGED orderVars, UNCHANGED session
      PROVE  [Promise!SaleNext]_Stage
  <2>1. Stage' = Stage
    BY <1>2 DEF Stage, orderVars
  <2>. QED  BY <2>1
<1>3. ASSUME NEW q \in Order,
             Checkout(q) \/ Stripe(q) \/ Deliver(q) \/ BecomesDue(q) \/ BecomesOld(q)
      PROVE  [Promise!SaleNext]_Stage
  <2>1. OnlyMoves(q)
    BY <1>3 DEF OnlyMoves, Checkout, CreateOrder, CreateSession, SaveSession, CheckoutFails,
       Stripe, PayByCard, TakeVoucher, PayVoucher, SessionExpires, ReturnMoney, Moves, Deliver,
       BecomesDue, BecomesOld, Ages, orderVars, stripeVars
  <2>. QED  BY <1>1, <2>1
<1>4. ASSUME NEW e \in Event, Webhook(e) \/ WebhookFails(e)
      PROVE  [Promise!SaleNext]_Stage
  <2>1. e.of \in Order
    BY DEF Event
  <2>2. OnlyMoves(e.of)
    BY <1>4, <2>1 DEF OnlyMoves, Webhook, ClaimEvent, ReadPaidOrder, ConfirmByWebhook,
       ExpireByWebhook,
       RefundByWebhook, WebhookFails, Reach, ConfirmPayment, ExpireOrder, orderVars, stripeVars
  <2>. QED  BY <1>1, <2>1, <2>2
<1>5. ASSUME NEW p \in Pass, CancelUnsaved(p) \/ ConfirmByPass(p) \/ ExpireByPass(p)
      PROVE  [Promise!SaleNext]_Stage
  <2>1. Current(p) \in Order
    BY <1>5, CurrentIs DEF PassesAreTrue, CancelUnsaved, ConfirmByPass, ExpireByPass
  <2>2. OnlyMoves(Current(p))
    BY <1>5, <2>1 DEF OnlyMoves, CancelUnsaved, ConfirmByPass, ExpireByPass, ConfirmPayment,
       ExpireOrder, PassOnly, orderVars, stripeVars
  <2>. QED  BY <1>1, <2>1, <2>2
<1>6. ASSUME NEW p \in Pass,
             \/ StartPass(p) \/ AskStripe(p) \/ ReadOrder(p) \/ EndPass(p)
             \/ OrderFails(p) \/ PassDies(p)
      PROVE  [Promise!SaleNext]_Stage
  BY <1>2, <1>6 DEF StartPass, AskStripe, ReadOrder, EndPass, OrderFails, PassDies, PassOnly,
                    stripeVars
<1>7. CASE UNCHANGED vars
  BY <1>2, <1>7 DEF vars, stripeVars
<1>. QED
  BY <1>3, <1>4, <1>5, <1>6, <1>7, PurgeDrops DEF Next, Reconcile

LEMMA PromiseInitially ==
    ASSUME Init
    PROVE  Promise!SaleInit
  BY DEF Init, Stage, Promise!SaleInit

\* However the news of a payment arrives and whatever passes and purges miss,
\* the customer sees a sale: offered, then charged or dropped, and granted only
\* when charged. It rests on the same assumption on the page, because a purge
\* of a charged order would break it.
THEOREM PaymentsKeepThePromise == Spec /\ []PageIsEnough => KeepsThePromise
<1>1. Init => Promise!SaleInit
  BY PromiseInitially
<1>2. KeepInv /\ [Next]_vars => [Promise!SaleNext]_Stage
  BY PromiseStep
<1>. QED
  BY KeepInvariant, <1>1, <1>2, PTL DEF Spec, KeepsThePromise, Promise!SaleSpec
=============================================================================
