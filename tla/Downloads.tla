----------------------------- MODULE Downloads ------------------------------
(***************************************************************************)
(* The links to the files of a paid order: the delivery job and requests   *)
(* of the customer issue them and revoke earlier ones, visitors use them,  *)
(* a refund cuts them.  All orders are of one customer.                    *)
(*                                                                         *)
(* A transaction that updates what its statement sees is two steps, what   *)
(* it sees and its commit, since Postgres runs it in READ COMMITTED.       *)
(* Modules Outbox and Payments detail the queue and the handlers.          *)
(***************************************************************************)
EXTENDS Naturals, FiniteSets, Functions

CONSTANTS
    Order,
    Line, OrderOf, \* the digital lines, and the order of each
    Link,          \* rows of download_grants; bounds how many are issued
    Access,        \* rows of purchase_access_tokens; bounds them likewise
    Confirmer,     \* handlings of a payment: the webhook's, those of passes
    Resend,        \* requests for new links in progress
    Visitor,       \* requests for a file in progress
    MaxUses,       \* DOWNLOAD_GRANT_MAX_USES, 5 in the code
    FaultKinds,    \* "mail", "db" and "sign": what may fail
    NoLine, NoOrder, NoLink

ASSUME DownloadsAssumption ==
    /\ OrderOf \in [Line -> Order]
    /\ \A o \in Order : \E l \in Line : OrderOf[l] = o  \* orders with something to deliver
    /\ IsFiniteSet(Order \cup Resend) /\ IsFiniteSet(Link) /\ Order \cap Resend = {}
    /\ MaxUses \in Nat \ {0}
    /\ FaultKinds \subseteq {"mail", "db", "sign"}
    /\ NoLine \notin Line /\ NoOrder \notin Order /\ NoLink \notin Link

VARIABLES
    status,        \* the status column of orders
    delivery,      \* the job DELIVER_DIGITAL of each order
    confirm,       \* the order that each confirmer has read as pending
    retry,         \* the administrator's retry of each order, with its step
    lineOf,        \* the line of each link, NoLine before it is issued
    revoked, expired, uses,  \* columns of the links
    mailed,        \* the links that reached the customer
    issue,         \* what each issuer is doing
    refund,        \* the handling of charge.refunded, with the links it saw
    quiet,         \* history: orders refunded with nothing else under way
    access,        \* the access links by mail
    visit,         \* what each visitor's request is doing
    handed         \* history: how many times each link gave its file

orderVars == <<status, delivery, confirm, retry>>
linkVars  == <<lineOf, revoked, expired, uses, mailed>>
pastVars  == <<quiet, handed>>
vars == <<orderVars, linkVars, issue, refund, access, visit, pastVars>>

\* An issuer is the delivery job of an order, or a request of the customer.
Issuer == Order \cup Resend
NoIssue == [at |-> "idle", on |-> NoOrder, links |-> {}]
NoVisit == [at |-> "idle", on |-> NoLink]

Statuses ==
    {"PENDING_PAYMENT", "PAID", "DELIVERED", "REFUNDED", "NEEDS_REVIEW"}
JobStates == {"none", "queued", "running", "failed", "done"}

TypeOK ==
    /\ status \in [Order -> Statuses]
    /\ delivery \in [Order -> JobStates]
    /\ confirm \in [Confirmer -> Order \cup {NoOrder}]
    /\ retry \in [Order -> {"idle", "read", "requeued"}]
    /\ lineOf \in [Link -> Line \cup {NoLine}]
    /\ revoked \subseteq Link /\ expired \subseteq Link /\ mailed \subseteq Link
    /\ \A g \in revoked \cup expired \cup mailed : lineOf[g] # NoLine
    /\ uses \in [Link -> Nat]
    /\ issue \in [Issuer -> [at : {"idle", "asked", "read", "seen", "issued", "mailed"},
                             on : Order \cup {NoOrder}, links : SUBSET Link]]
    /\ \A o \in Order : delivery[o] = "running" <=> issue[o].at # "idle"
    /\ refund \in [Order -> [at : {"none", "seen", "done"}, links : SUBSET Link]]
    /\ quiet \subseteq Order
    /\ access \in [Access -> {"none", "saved", "mailed", "expired"}]
    /\ visit \in [Visitor -> [at : {"idle", "checked", "counted"}, on : Link \cup {NoLink}]]
    /\ handed \in [Link -> Nat]

Init ==
    /\ status = [o \in Order |-> "PENDING_PAYMENT"]
    /\ delivery = [o \in Order |-> "none"]
    /\ confirm = [c \in Confirmer |-> NoOrder]
    /\ retry = [o \in Order |-> "idle"]
    /\ lineOf = [g \in Link |-> NoLine]
    /\ revoked = {} /\ expired = {} /\ mailed = {}
    /\ uses = [g \in Link |-> 0]
    /\ issue = [i \in Issuer |-> NoIssue]
    /\ refund = [o \in Order |-> [at |-> "none", links |-> {}]]
    /\ quiet = {}
    /\ access = [a \in Access |-> "none"]
    /\ visit = [d \in Visitor |-> NoVisit]
    /\ handed = [g \in Link |-> 0]

LinesOf(o) == {l \in Line : OrderOf[l] = o}
LinksOf(o) == {g \in Link : lineOf[g] \in LinesOf(o)}

-----------------------------------------------------------------------------
(* The order and its jobs.                                                 *)

\* COMPRADOS, of the states a digital order takes.
\* A mutant: a refunded order still counts as bought.
BoughtOrRefunded(o) == status[o] \in {"PAID", "DELIVERED", "REFUNDED"}

Bought(o) == status[o] \in {"PAID", "DELIVERED"}

\* handlePaymentSucceeded, which the webhook and every pass call: it reads an
\* order that is still pending ...
ReadPending(c) ==
    /\ confirm[c] = NoOrder
    /\ \E o \in Order :
          status[o] = "PENDING_PAYMENT" /\ confirm' = [confirm EXCEPT ![c] = o]
    /\ UNCHANGED <<status, delivery, retry, linkVars, issue, refund, access, visit, pastVars>>

\* ... and writes PAID by its id, whatever the status is by now, with the job
\* unless it is there.
ConfirmPayment(c) ==
    LET o == confirm[c] IN
    /\ o # NoOrder
    /\ status' = [status EXCEPT ![o] = "PAID"]
    /\ delivery' = [delivery EXCEPT ![o] = IF @ = "none" THEN "queued" ELSE @]
    /\ confirm' = [confirm EXCEPT ![c] = NoOrder]
    /\ UNCHANGED <<retry, linkVars, issue, refund, access, visit, pastVars>>

ConfirmFails(c) ==
    /\ "db" \in FaultKinds
    /\ confirm[c] # NoOrder
    /\ confirm' = [confirm EXCEPT ![c] = NoOrder]
    /\ UNCHANGED <<status, delivery, retry, linkVars, issue, refund, access, visit, pastVars>>

\* recordFailure of a job: tried again, or given up and escalated whatever the
\* order's status has become.  Outbox counts the attempts and separates the
\* statements.
DeliveryFails(o) ==
    \/ delivery' = [delivery EXCEPT ![o] = "queued"] /\ UNCHANGED status
    \/ /\ delivery' = [delivery EXCEPT ![o] = "failed"]
       /\ status' = [status EXCEPT ![o] = "NEEDS_REVIEW"]

RetryCheck(o) ==
    /\ retry[o] = "idle"
    /\ status[o] = "NEEDS_REVIEW"
    /\ retry' = [retry EXCEPT ![o] = "read"]
    /\ UNCHANGED <<status, delivery, confirm, linkVars, issue, refund, access, visit, pastVars>>

\* reencolarFallidos; with nothing to put back the request ends.
RetryRequeue(o) ==
    /\ retry[o] = "read"
    /\ IF delivery[o] = "failed"
       THEN /\ delivery' = [delivery EXCEPT ![o] = "queued"]
            /\ retry' = [retry EXCEPT ![o] = "requeued"]
       ELSE retry' = [retry EXCEPT ![o] = "idle"] /\ UNCHANGED delivery
    /\ UNCHANGED <<status, confirm, linkVars, issue, refund, access, visit, pastVars>>

RetryMarks(o) ==
    /\ retry[o] = "requeued"
    /\ retry' = [retry EXCEPT ![o] = "idle"]
    /\ status' = [status EXCEPT ![o] = "PAID"]
    /\ UNCHANGED <<delivery, confirm, linkVars, issue, refund, access, visit, pastVars>>

-----------------------------------------------------------------------------
(* Issuing links: emitirEnlaces and the mail that carries them.            *)

Goto(i, step) == issue' = [issue EXCEPT ![i] = step]

\* The job reads the order, whose status it does not look at.
StartDelivery(o) ==
    /\ delivery[o] = "queued"
    /\ delivery' = [delivery EXCEPT ![o] = "running"]
    /\ Goto(o, [at |-> "read", on |-> o, links |-> {}])
    /\ UNCHANGED <<status, confirm, retry, linkVars, refund, access, visit, pastVars>>

\* resendDownloads, with an access link that is still valid.
AskResend(i) ==
    /\ issue[i].at = "idle"
    /\ \E a \in Access : access[a] = "mailed"
    /\ \E o \in Order : Goto(i, [at |-> "asked", on |-> o, links |-> {}])
    /\ UNCHANGED <<orderVars, linkVars, refund, access, visit, pastVars>>

\* Its order must count as bought when it is read.
ReadOrder(i) ==
    LET o == issue[i].on IN
    /\ issue[i].at = "asked"
    /\ IF Bought(o)
       THEN /\ Goto(i, [issue[i] EXCEPT !.at = "read"])
            /\ quiet' = IF refund[o].at = "seen" THEN quiet \ {o} ELSE quiet
       ELSE Goto(i, NoIssue) /\ UNCHANGED quiet
    /\ UNCHANGED <<orderVars, linkVars, refund, access, visit, handed>>

\* The updateMany of the transaction: the links it will revoke.
SeeLinks(i) ==
    /\ issue[i].at = "read"
    /\ Goto(i, [issue[i] EXCEPT !.at = "seen", !.links = LinksOf(issue[i].on) \ revoked])
    /\ UNCHANGED <<orderVars, linkVars, refund, access, visit, pastVars>>

\* A mutant: the new links are created first and revoked with the old ones.
AlsoRevokesNew(seen, new) == seen \cup new

\* The links that the transaction of an issue revokes, of those it saw and
\* those it creates.
Revokes(seen, new) == seen

\* One link for each line of the order.
CommitLinks(i) ==
    LET o == issue[i].on IN
    /\ issue[i].at = "seen"
    /\ \E made \in Injection(LinesOf(o), {g \in Link : lineOf[g] = NoLine}) :
          LET new == {made[l] : l \in LinesOf(o)} IN
          /\ lineOf' = [g \in Link |->
                          IF g \in new THEN CHOOSE l \in LinesOf(o) : made[l] = g ELSE lineOf[g]]
          /\ revoked' = revoked \cup Revokes(issue[i].links, new)
          /\ Goto(i, [at |-> "issued", on |-> o, links |-> new])
    /\ UNCHANGED <<orderVars, expired, uses, mailed, refund, access, visit, pastVars>>

\* A mutant: an exception leaves the job taken.
DropsJob(i) == Goto(i, NoIssue) /\ UNCHANGED <<status, delivery>>

\* An exception ends a request with an error, and the job's attempt.
GivesUp(i) ==
    /\ Goto(i, NoIssue)
    /\ IF i \in Order
       THEN DeliveryFails(i)
       ELSE UNCHANGED <<status, delivery>>

\* The transaction, or the statement after the mail, is rejected.
IssueReverts(i) ==
    /\ "db" \in FaultKinds
    /\ issue[i].at \in {"read", "seen", "mailed"}
    /\ GivesUp(i)
    /\ UNCHANGED <<confirm, retry, linkVars, refund, access, visit, pastVars>>

MailLinks(i) ==
    /\ issue[i].at = "issued"
    /\ mailed' = mailed \cup issue[i].links
    /\ Goto(i, IF i \in Order THEN [issue[i] EXCEPT !.at = "mailed"] ELSE NoIssue)
    /\ UNCHANGED <<orderVars, lineOf, revoked, expired, uses, refund, access, visit, pastVars>>

\* Rejected, or too late: the mail may have gone out.  Only the job tries again.
MailFails(i) ==
    /\ "mail" \in FaultKinds
    /\ issue[i].at = "issued"
    /\ mailed' \in {mailed, mailed \cup issue[i].links}
    /\ GivesUp(i)
    /\ UNCHANGED <<confirm, retry, lineOf, revoked, expired, uses, refund, access, visit, pastVars>>

\* DELIVERED, whatever the status is by now, and the job DONE.
DeliveryEnds(o) ==
    /\ issue[o].at = "mailed"
    /\ status' = [status EXCEPT ![o] = "DELIVERED"]
    /\ delivery' = [delivery EXCEPT ![o] = "done"]
    /\ Goto(o, NoIssue)
    /\ UNCHANGED <<confirm, retry, linkVars, refund, access, visit, pastVars>>

-----------------------------------------------------------------------------
(* The refund.                                                             *)

\* Nothing about the order is under way, so nothing should follow the refund.
Settled(o) ==
    /\ \A c \in Confirmer : confirm[c] # o
    /\ delivery[o] = "done"
    /\ retry[o] = "idle"
    /\ \A i \in Issuer : issue[i].at \in {"read", "seen", "issued", "mailed"} => issue[i].on # o

\* The transaction of handleChargeRefunded, whatever the order's status is, sees
\* the links it will revoke.
RefundSees(o) ==
    /\ refund[o].at = "none"
    /\ refund' = [refund EXCEPT ![o] = [at |-> "seen", links |-> LinksOf(o) \ revoked]]
    /\ quiet' = IF Settled(o) THEN quiet \cup {o} ELSE quiet
    /\ UNCHANGED <<orderVars, linkVars, issue, access, visit, handed>>

\* A mutant: a refund leaves the links alone.
CutsNothing(o) == revoked

CutsLinks(o) == revoked \cup refund[o].links

RefundCommits(o) ==
    /\ refund[o].at = "seen"
    /\ refund' = [refund EXCEPT ![o] = [at |-> "done", links |-> {}]]
    /\ status' = [status EXCEPT ![o] = "REFUNDED"]
    /\ revoked' = CutsLinks(o)
    /\ UNCHANGED <<delivery, confirm, retry, lineOf, expired, uses, mailed, issue, access, visit, pastVars>>

-----------------------------------------------------------------------------
(* The customer's access by mail, and the downloads.                       *)

\* requestAccess, for a customer with purchases.
RequestAccess(a) ==
    /\ access[a] = "none"
    /\ \E o \in Order : Bought(o)
    /\ access' = [access EXCEPT ![a] = "saved"]
    /\ UNCHANGED <<orderVars, linkVars, issue, refund, visit, pastVars>>

\* A failure is swallowed: the row stays and nobody has its link.  Opening the
\* link (findByToken) only sets usedAt, which no code reads.
MailAccess(a) ==
    /\ access[a] = "saved"
    /\ \/ access' = [access EXCEPT ![a] = "mailed"]
       \/ "mail" \in FaultKinds /\ access' = [access EXCEPT ![a] = "expired"]
    /\ UNCHANGED <<orderVars, linkVars, issue, refund, visit, pastVars>>

\* 30 minutes, and 72 hours; a revoked link has no use for its end.
AccessExpires(a) ==
    /\ access[a] = "mailed"
    /\ access' = [access EXCEPT ![a] = "expired"]
    /\ UNCHANGED <<orderVars, linkVars, issue, refund, visit, pastVars>>

LinkExpires(g) ==
    /\ lineOf[g] # NoLine /\ g \notin revoked \cup expired
    /\ expired' = expired \cup {g}
    /\ UNCHANGED <<orderVars, lineOf, revoked, uses, mailed, issue, refund, access, visit, pastVars>>

\* A mutant: a revoked link still works.
WorksUntilItExpires(g) == g \notin expired /\ uses[g] < MaxUses

Works(g) == g \notin revoked \cup expired /\ uses[g] < MaxUses

CheckLink(d) ==
    /\ visit[d].at = "idle"
    /\ \E g \in mailed :
          Works(g) /\ visit' = [visit EXCEPT ![d] = [at |-> "checked", on |-> g]]
    /\ UNCHANGED <<orderVars, linkVars, issue, refund, access, pastVars>>

\* A mutant: the use is counted on the strength of the check.
CountsAnyway(g) == TRUE

\* The condition of the updateMany: the count alone.
HasUsesLeft(g) == uses[g] < MaxUses

CountUse(d) ==
    LET g == visit[d].on IN
    /\ visit[d].at = "checked"
    /\ IF HasUsesLeft(g)
       THEN /\ uses' = [uses EXCEPT ![g] = @ + 1]
            /\ visit' = [visit EXCEPT ![d].at = "counted"]
       ELSE visit' = [visit EXCEPT ![d] = NoVisit] /\ UNCHANGED uses
    /\ UNCHANGED <<orderVars, lineOf, revoked, expired, mailed, issue, refund, access, pastVars>>

\* The signed URL; without it the use is lost.
HandFile(d) ==
    /\ visit[d].at = "counted"
    /\ \/ handed' = [handed EXCEPT ![visit[d].on] = @ + 1]
       \/ "sign" \in FaultKinds /\ UNCHANGED handed
    /\ visit' = [visit EXCEPT ![d] = NoVisit]
    /\ UNCHANGED <<orderVars, linkVars, issue, refund, access, quiet>>

-----------------------------------------------------------------------------
Issuing(i) ==
    \/ SeeLinks(i)
    \/ CommitLinks(i)
    \/ IssueReverts(i)
    \/ MailLinks(i)
    \/ MailFails(i)

OfOrder(o) ==
    \/ RetryCheck(o) \/ RetryRequeue(o) \/ RetryMarks(o)
    \/ StartDelivery(o) \/ DeliveryEnds(o)
    \/ RefundSees(o) \/ RefundCommits(o)

Next ==
    \/ \E o \in Order : OfOrder(o)
    \/ \E c \in Confirmer : ReadPending(c) \/ ConfirmPayment(c) \/ ConfirmFails(c)
    \/ \E i \in Issuer : Issuing(i)
    \/ \E i \in Resend : AskResend(i) \/ ReadOrder(i)
    \/ \E a \in Access : RequestAccess(a) \/ MailAccess(a) \/ AccessExpires(a)
    \/ \E g \in Link : LinkExpires(g)
    \/ \E d \in Visitor : CheckLink(d) \/ CountUse(d) \/ HandFile(d)

Spec == Init /\ [][Next]_vars

-----------------------------------------------------------------------------
(* Properties.                                                             *)

\* Two tabs cannot squeeze through the last use of a link: whatever requests
\* overlap and fail, what it handed out and what is about to be handed out has
\* been counted, and the count stays within the limit
\* (downloads.controller.ts:67-70).
UsesAreCounted ==
    \A g \in Link :
        /\ handed[g] + Cardinality({d \in Visitor : visit[d] = [at |-> "counted", on |-> g]}) <= uses[g]
        /\ uses[g] <= MaxUses

\* However issues overlap, a line that had a link keeps one that is not revoked
\* until a refund: an issue never revokes the last one, nor two issues each
\* other's (digital-delivery.service.ts:46-49).  That one may be expired, used
\* up, or not mailed.
LineKeepsALink ==
    \A l \in Line :
        (refund[OrderOf[l]].at # "done" /\ \E g \in Link : lineOf[g] = l)
            => \E g \in Link \ revoked : lineOf[g] = l

\* Once an order is refunded with its job done and no confirmation, retry or
\* issue under way, no sequence of requests, failures and retries brings a link
\* back to life (payments.service.ts:180-185).  A second confirmation that had
\* read the order as pending may: it writes PAID over REFUNDED.
RefundedStaysClosed ==
    \A o \in quiet : refund[o].at = "done" => LinksOf(o) \subseteq revoked

\* From then on files are handed out only to downloads that had been let in
\* before (payments.service.ts:236).
RefundEndsDownloads ==
    [][\A g \in Link :
          (/\ \E o \in quiet : refund[o].at = "done" /\ lineOf[g] \in LinesOf(o)
           /\ \A d \in Visitor : visit[d].on # g)
             => \A d \in Visitor : visit'[d].on # g]_vars

\* Without that premise it does not hold, and no run checks it: a refund is the
\* end of the order's links (payments.service.ts:180).
RefundEndsLinks ==
    \A o \in Order : refund[o].at = "done" => LinksOf(o) \subseteq revoked

\* Does not hold either, and no run checks it: an order that was refunded is
\* not taken for paid again; the write by id of a late confirmation does it.
RefundedIsNotPaidAgain ==
    [][\A o \in Order : status[o] = "REFUNDED" => status'[o] # "PAID"]_vars

\* Nor does this, with issues that overlap: a line has no two links that are
\* not revoked (digital-delivery.service.ts:72).
OneLiveLink ==
    \A g, h \in Link \ revoked :
        lineOf[g] = lineOf[h] /\ lineOf[g] # NoLine => g = h
=============================================================================
