--------------------------- MODULE DownloadsProofs ---------------------------
(***************************************************************************)
(* The links of orders, for any orders, lines, links and visitors, and     *)
(* whatever fails.                                                         *)
(***************************************************************************)
EXTENDS Downloads, FiniteSetTheorems, TLAPS

\* An order that waits for its payment has no job of delivery yet.
UnpaidIsUndelivered ==
    \A o \in Order : status[o] = "PENDING_PAYMENT" => delivery[o] = "none"

\* Who issues does it for one order, its own if it is a job, and has seen or
\* made links of that order alone.
IssueShape ==
    \A i \in Issuer : issue[i].at # "idle" =>
        /\ issue[i].on \in Order
        /\ i \in Order => issue[i].on = i
        /\ issue[i].links \subseteq LinksOf(issue[i].on)

\* A refund has seen links of its order alone, and a visitor came by mail.
ReadersShape ==
    /\ \A o \in Order : refund[o].links \subseteq LinksOf(o)
    /\ \A d \in Visitor : visit[d].at # "idle" => visit[d].on \in Link

About(g) == {d \in Visitor : visit[d] = [at |-> "counted", on |-> g]}

VisitorsAreFinite == \A g \in Link : IsFiniteSet(About(g))

\* Nobody issues links of an order whose refund found it settled: until the
\* refund ends, it has seen all that work; from then on the order is no longer
\* bought.
QuietOrders ==
    \A o \in quiet :
        /\ delivery[o] = "done" /\ retry[o] # "requeued"
        /\ \A c \in Confirmer : confirm[c] # o
        /\ \A i \in Issuer :
              issue[i].at \in {"read", "seen", "issued", "mailed"} => issue[i].on # o
        /\ refund[o].at # "none"
        /\ refund[o].at = "seen" => LinksOf(o) \ revoked \subseteq refund[o].links
        /\ refund[o].at = "done" => status[o] = "REFUNDED"

DownloadInv ==
    /\ TypeOK
    /\ UnpaidIsUndelivered
    /\ IssueShape
    /\ ReadersShape
    /\ VisitorsAreFinite
    /\ UsesAreCounted
    /\ LineKeepsALink
    /\ QuietOrders
    /\ RefundedStaysClosed

-----------------------------------------------------------------------------
(* Types.                                                                  *)

Issues == [at : {"idle", "asked", "read", "seen", "issued", "mailed"},
           on : Order \cup {NoOrder}, links : SUBSET Link]
Refunds == [at : {"none", "seen", "done"}, links : SUBSET Link]
Visits == [at : {"idle", "checked", "counted"}, on : Link \cup {NoLink}]

\* TypeOK with its types named.
Typed ==
    /\ status \in [Order -> Statuses]
    /\ delivery \in [Order -> JobStates]
    /\ confirm \in [Confirmer -> Order \cup {NoOrder}]
    /\ retry \in [Order -> {"idle", "read", "requeued"}]
    /\ lineOf \in [Link -> Line \cup {NoLine}]
    /\ revoked \subseteq Link /\ expired \subseteq Link /\ mailed \subseteq Link
    /\ \A g \in revoked \cup expired \cup mailed : lineOf[g] # NoLine
    /\ uses \in [Link -> Nat]
    /\ issue \in [Issuer -> Issues]
    /\ \A o \in Order : delivery[o] = "running" <=> issue[o].at # "idle"
    /\ refund \in [Order -> Refunds]
    /\ quiet \subseteq Order
    /\ access \in [Access -> {"none", "saved", "mailed", "expired"}]
    /\ visit \in [Visitor -> Visits]
    /\ handed \in [Link -> Nat]

LEMMA Types == (TypeOK <=> Typed) /\ (TypeOK' <=> Typed')
  BY DEF TypeOK, Typed, Issues, Refunds, Visits

LEMMA LinksAreIssued ==
    ASSUME TypeOK, NEW o \in Order, NEW g \in LinksOf(o)
    PROVE  g \in Link /\ lineOf[g] \in Line /\ lineOf[g] # NoLine /\ OrderOf[lineOf[g]] = o
  BY DownloadsAssumption DEF LinksOf, LinesOf

\* An issue makes one new link for each line of its order, and leaves the others.
LEMMA CommitMakesLinks ==
    ASSUME DownloadInv, NEW i \in Issuer, CommitLinks(i)
    PROVE  LET o == issue[i].on IN
           \E new \in SUBSET Link :
              /\ o \in Order
              /\ \A g \in new : lineOf[g] = NoLine /\ lineOf'[g] \in LinesOf(o)
              /\ \A l \in LinesOf(o) : \E g \in new : lineOf'[g] = l
              /\ \A g \in Link \ new : lineOf'[g] = lineOf[g]
              /\ lineOf' \in [Link -> Line \cup {NoLine}]
              /\ revoked' = revoked \cup issue[i].links
              /\ issue' = [issue EXCEPT ![i] = [at |-> "issued", on |-> o, links |-> new]]
<1>. DEFINE o == issue[i].on
<1>1. o \in Order /\ LinesOf(o) \subseteq Line /\ Typed
  BY Types DEF DownloadInv, IssueShape, CommitLinks, LinesOf
<1>2. PICK made \in Injection(LinesOf(o), {g \in Link : lineOf[g] = NoLine}) :
         LET new == {made[l] : l \in LinesOf(o)} IN
          /\ lineOf' = [g \in Link |->
                          IF g \in new THEN CHOOSE l \in LinesOf(o) : made[l] = g ELSE lineOf[g]]
          /\ revoked' = revoked \cup Revokes(issue[i].links, new)
          /\ Goto(i, [at |-> "issued", on |-> o, links |-> new])
  BY DEF CommitLinks
<1>. DEFINE new == {made[l] : l \in LinesOf(o)}
<1>3. /\ \A l \in LinesOf(o) : made[l] \in Link /\ lineOf[made[l]] = NoLine
      /\ \A l, m \in LinesOf(o) : made[l] = made[m] => l = m
  BY <1>2 DEF Injection, IsInjective
<1>4. new \in SUBSET Link /\ \A g \in new : lineOf[g] = NoLine
  BY <1>3
<1>5. \A g \in new : \E l \in LinesOf(o) : made[l] = g
  OBVIOUS
<1>6. \A g \in Link : lineOf'[g] = IF g \in new THEN CHOOSE l \in LinesOf(o) : made[l] = g
                                   ELSE lineOf[g]
  BY <1>2
<1>7. ASSUME NEW g \in new
      PROVE  lineOf'[g] \in LinesOf(o) /\ made[lineOf'[g]] = g
  BY <1>4, <1>5, <1>6
<1>8. \A l \in LinesOf(o) : \E g \in new : lineOf'[g] = l
  <2>1. ASSUME NEW l \in LinesOf(o)
        PROVE  made[l] \in new /\ lineOf'[made[l]] = l
    BY <1>3, <1>7
  <2>. QED  BY <2>1
<1>9. lineOf' \in [Link -> Line \cup {NoLine}]
  <2>1. \A g \in Link : lineOf'[g] \in Line \cup {NoLine}
    BY <1>1, <1>6, <1>7 DEF Typed
  <2>2. lineOf' = [g \in Link |-> lineOf'[g]]
    BY <1>2
  <2>. HIDE DEF new
  <2>. QED  BY <2>1, <2>2
<1>10. revoked' = revoked \cup issue[i].links
       /\ issue' = [issue EXCEPT ![i] = [at |-> "issued", on |-> o, links |-> new]]
  BY <1>2 DEF Revokes, Goto
<1>. HIDE DEF new, o
<1>. QED  BY <1>1, <1>4, <1>6, <1>7, <1>8, <1>9, <1>10 DEF o

\* What an issuer does next is an issue again.
LEMMA NextIssue ==
    ASSUME NEW q \in Issues
    PROVE  /\ \A at \in {"read", "mailed"} :
                 LET n == [q EXCEPT !.at = at] IN
                 n \in Issues /\ n.at = at /\ n.on = q.on /\ n.links = q.links
           /\ NoIssue \in Issues /\ NoIssue.at = "idle"
<1>1. \A at \in {"read", "mailed"} :
          LET n == [q EXCEPT !.at = at] IN
          n \in Issues /\ n.at = at /\ n.on = q.on /\ n.links = q.links
  BY DEF Issues
<1>2. NoIssue \in Issues /\ NoIssue.at = "idle"
  BY DEF NoIssue, Issues
<1>. QED  BY <1>1, <1>2

LEMMA TypeStep ==
    ASSUME DownloadInv, [Next]_vars
    PROVE  TypeOK'
<1>. TypeOK /\ Typed /\ UnpaidIsUndelivered /\ IssueShape /\ ReadersShape
  BY Types DEF DownloadInv
<1>. SUFFICES Typed'
  BY Types
<1>. USE DownloadsAssumption DEF Typed, Statuses, JobStates, orderVars, linkVars, pastVars, Issuer
<1>1. ASSUME NEW o \in Order, RetryCheck(o) \/ RetryRequeue(o) \/ RetryMarks(o)
      PROVE  Typed'
  <2>1. /\ status' \in [Order -> Statuses] /\ retry' \in [Order -> {"idle", "read", "requeued"}]
        /\ UNCHANGED <<confirm, linkVars, issue, refund, access, visit, pastVars>>
    <3>1. CASE RetryCheck(o)
      BY <3>1 DEF RetryCheck
    <3>2. CASE RetryRequeue(o)
      BY <3>2 DEF RetryRequeue
    <3>3. CASE RetryMarks(o)
      BY <3>3 DEF RetryMarks
    <3>. QED  BY <1>1, <3>1, <3>2, <3>3
  <2>2. /\ delivery' \in [Order -> JobStates]
        /\ \A q \in Order : delivery'[q] = "running" <=> delivery[q] = "running"
    BY <1>1 DEF RetryCheck, RetryRequeue, RetryMarks
  <2>. QED  BY <2>1, <2>2
<1>18. ASSUME NEW c \in Confirmer, ReadPending(c) \/ ConfirmPayment(c) \/ ConfirmFails(c)
       PROVE  Typed'
  <2>1. /\ status' \in [Order -> Statuses] /\ confirm' \in [Confirmer -> Order \cup {NoOrder}]
        /\ UNCHANGED <<retry, linkVars, issue, refund, access, visit, pastVars>>
    BY <1>18 DEF ReadPending, ConfirmPayment, ConfirmFails
  <2>2. /\ delivery' \in [Order -> JobStates]
        /\ \A q \in Order : delivery'[q] = "running" <=> delivery[q] = "running"
    BY <1>18 DEF ReadPending, ConfirmPayment, ConfirmFails
  <2>. QED  BY <2>1, <2>2
<1>2. ASSUME NEW o \in Order, StartDelivery(o)
      PROVE  Typed'
  BY <1>2 DEF StartDelivery, Goto, Issues
<1>3. ASSUME NEW o \in Order, DeliveryEnds(o)
      PROVE  Typed'
  BY <1>3 DEF DeliveryEnds, Goto, Issues, NoIssue
<1>4. ASSUME NEW o \in Order, RefundSees(o)
      PROVE  Typed'
  <2>1. refund' \in [Order -> Refunds]
    BY <1>4 DEF RefundSees, LinksOf, Refunds
  <2>. QED  BY <1>4, <2>1 DEF RefundSees
<1>5. ASSUME NEW o \in Order, RefundCommits(o)
      PROVE  Typed'
  <2>1. revoked' \subseteq Link /\ \A g \in revoked' : lineOf[g] # NoLine
    BY <1>5, LinksAreIssued DEF RefundCommits, CutsLinks, ReadersShape
  <2>2. refund' \in [Order -> Refunds] /\ status' \in [Order -> Statuses]
    BY <1>5 DEF RefundCommits, Refunds
  <2>. QED  BY <1>5, <2>1, <2>2 DEF RefundCommits
<1>6. ASSUME NEW i \in Issuer, SeeLinks(i)
      PROVE  Typed'
  <2>. DEFINE seen == LinksOf(issue[i].on) \ revoked
              n == [issue[i] EXCEPT !.at = "seen", !.links = seen]
  <2>1. seen \in SUBSET Link /\ issue[i] \in Issues
    BY DEF LinksOf
  <2>2. n \in Issues /\ n.at = "seen"
    <3>1. ASSUME NEW q \in Issues, NEW S \in SUBSET Link
          PROVE  LET m == [q EXCEPT !.at = "seen", !.links = S] IN
                 m \in Issues /\ m.at = "seen"
      BY DEF Issues
    <3>. HIDE DEF seen
    <3>. QED  BY <2>1, <3>1
  <2>3. issue' = [issue EXCEPT ![i] = n] /\ issue[i].at = "read"
    BY <1>6 DEF SeeLinks, Goto
  <2>4. UNCHANGED <<orderVars, linkVars, refund, access, visit, pastVars>>
    BY <1>6 DEF SeeLinks
  <2>. HIDE DEF n
  <2>. QED  BY <2>2, <2>3, <2>4
<1>7. ASSUME NEW i \in Issuer, CommitLinks(i)
      PROVE  Typed'
  <2>. DEFINE o == issue[i].on
  <2>1. PICK new \in SUBSET Link :
              /\ o \in Order
              /\ \A g \in new : lineOf[g] = NoLine /\ lineOf'[g] \in LinesOf(o)
              /\ \A g \in Link \ new : lineOf'[g] = lineOf[g]
              /\ lineOf' \in [Link -> Line \cup {NoLine}]
              /\ revoked' = revoked \cup issue[i].links
              /\ issue' = [issue EXCEPT ![i] = [at |-> "issued", on |-> o, links |-> new]]
    BY <1>7, CommitMakesLinks
  <2>2. \A g \in Link : lineOf[g] # NoLine => lineOf'[g] # NoLine
    BY <2>1
  <2>3. \A g \in issue[i].links : g \in Link /\ lineOf[g] # NoLine
    BY <1>7, <2>1, LinksAreIssued DEF IssueShape, CommitLinks
  <2>4. /\ revoked' \subseteq Link
        /\ \A g \in revoked' \cup expired' \cup mailed' : lineOf'[g] # NoLine
    BY <1>7, <2>1, <2>2, <2>3 DEF CommitLinks
  <2>5. /\ issue' \in [Issuer -> Issues]
        /\ \A q \in Order : delivery[q] = "running" <=> issue'[q].at # "idle"
    BY <1>7, <2>1 DEF CommitLinks, Issues
  <2>. QED  BY <1>7, <2>1, <2>4, <2>5 DEF CommitLinks
<1>8. ASSUME NEW i \in Issuer, GivesUp(i)
      PROVE  /\ issue' \in [Issuer -> Issues]
             /\ status' \in [Order -> Statuses] /\ delivery' \in [Order -> JobStates]
             /\ \A q \in Order : delivery'[q] = "running" <=> issue'[q].at # "idle"
  <2>1. /\ issue' \in [Issuer -> Issues] /\ issue'[i].at = "idle"
        /\ \A q \in Order : q # i => issue'[q] = issue[q]
    BY <1>8 DEF GivesUp, Goto, NoIssue, Issues
  <2>2. CASE i \in Order
    <3>1. DeliveryFails(i)
      BY <1>8, <2>2 DEF GivesUp
    <3>2. /\ \A q \in Order : q # i => delivery'[q] = delivery[q]
          /\ delivery'[i] \in {"queued", "failed"} /\ delivery' \in [Order -> JobStates]
      BY <2>2, <3>1 DEF DeliveryFails
    <3>3. status' \in [Order -> Statuses]
      BY <2>2, <3>1 DEF DeliveryFails
    <3>. QED  BY <2>1, <2>2, <3>2, <3>3
  <2>3. CASE i \notin Order
    BY <1>8, <2>1, <2>3 DEF GivesUp
  <2>. QED  BY <2>2, <2>3
<1>9. ASSUME NEW i \in Issuer, issue[i].at = "issued"
      PROVE  issue[i].links \subseteq Link /\ \A g \in issue[i].links : lineOf[g] # NoLine
  BY <1>9, LinksAreIssued DEF IssueShape
<1>10. ASSUME NEW i \in Issuer, IssueReverts(i)
       PROVE  Typed'
  BY <1>8, <1>10 DEF IssueReverts
<1>11. ASSUME NEW i \in Issuer, MailFails(i)
       PROVE  Typed'
  BY <1>8, <1>9, <1>11 DEF MailFails
<1>12. ASSUME NEW i \in Issuer, MailLinks(i)
       PROVE  Typed'
  <2>1. /\ issue' \in [Issuer -> Issues]
        /\ \A q \in Order : delivery[q] = "running" <=> issue'[q].at # "idle"
    <3>1. CASE i \in Order
      BY <1>12, <3>1, NextIssue DEF MailLinks, Goto
    <3>2. CASE i \notin Order
      BY <1>12, <3>2 DEF MailLinks, Goto, NoIssue, Issues
    <3>. QED  BY <3>1, <3>2
  <2>. QED  BY <1>9, <1>12, <2>1 DEF MailLinks
<1>13. ASSUME NEW i \in Resend, AskResend(i) \/ ReadOrder(i)
       PROVE  Typed'
  <2>1. issue' \in [Issuer -> Issues]
    <3>1. CASE AskResend(i)
      BY <3>1 DEF AskResend, Goto, Issues
    <3>2. CASE ReadOrder(i)
      <4>1. issue[i] \in Issues
        OBVIOUS
      <4>2. \E n \in Issues : issue' = [issue EXCEPT ![i] = n]
        BY <3>2, <4>1, NextIssue DEF ReadOrder, Goto
      <4>. QED  BY <4>2
    <3>. QED  BY <1>13, <3>1, <3>2
  <2>2. \A q \in Order : issue'[q] = issue[q]
    BY <1>13 DEF AskResend, ReadOrder, Goto
  <2>3. quiet' \subseteq Order
    BY <1>13 DEF AskResend, ReadOrder
  <2>. QED  BY <1>13, <2>1, <2>2, <2>3 DEF AskResend, ReadOrder
<1>14. ASSUME NEW a \in Access, RequestAccess(a) \/ MailAccess(a) \/ AccessExpires(a)
       PROVE  Typed'
  <2>1. access' \in [Access -> {"none", "saved", "mailed", "expired"}]
    BY <1>14 DEF RequestAccess, MailAccess, AccessExpires
  <2>2. UNCHANGED <<orderVars, linkVars, issue, refund, visit, pastVars>>
    BY <1>14 DEF RequestAccess, MailAccess, AccessExpires
  <2>. QED  BY <2>1, <2>2
<1>15. ASSUME NEW g \in Link, LinkExpires(g)
       PROVE  Typed'
  BY <1>15 DEF LinkExpires
<1>16. ASSUME NEW d \in Visitor, CheckLink(d) \/ CountUse(d) \/ HandFile(d)
       PROVE  Typed'
  <2>1. visit' \in [Visitor -> Visits]
    BY <1>16 DEF CheckLink, CountUse, HandFile, NoVisit, Visits
  <2>2. uses' \in [Link -> Nat] /\ handed' \in [Link -> Nat]
    <3>1. CASE CheckLink(d)
      BY <3>1 DEF CheckLink
    <3>2. CASE CountUse(d)
      BY <3>2 DEF CountUse, ReadersShape
    <3>3. CASE HandFile(d)
      BY <3>3 DEF HandFile, ReadersShape
    <3>. QED  BY <1>16, <3>1, <3>2, <3>3
  <2>3. UNCHANGED <<orderVars, lineOf, revoked, expired, mailed, issue, refund, access, quiet>>
    BY <1>16 DEF CheckLink, CountUse, HandFile
  <2>. QED  BY <2>1, <2>2, <2>3
<1>17. CASE UNCHANGED vars
  BY <1>17 DEF vars
<1>. QED
  BY <1>1, <1>2, <1>3, <1>4, <1>5, <1>6, <1>7, <1>10, <1>11, <1>12, <1>13, <1>14, <1>15, <1>16,
     <1>17, <1>18 DEF Next, OfOrder, Issuing, Issuer

-----------------------------------------------------------------------------
(* What a step does to the links, an order and an issuer.                  *)

LEMMA LinksStay ==
    ASSUME DownloadInv, [Next]_vars
    PROVE  /\ \A g \in Link : lineOf[g] # NoLine => lineOf'[g] = lineOf[g]
           /\ revoked \subseteq revoked'
           /\ \A o \in Order : LinksOf(o) \subseteq LinksOf(o)'
           /\ \/ UNCHANGED <<lineOf, revoked>>
              \/ UNCHANGED lineOf /\ \E o \in Order : RefundCommits(o)
              \/ \E i \in Issuer : CommitLinks(i)
<1>1. \/ UNCHANGED <<lineOf, revoked>>
      \/ UNCHANGED lineOf /\ \E o \in Order : RefundCommits(o)
      \/ \E i \in Issuer : CommitLinks(i)
  BY DEF Next, OfOrder, Issuing, ReadPending, ConfirmPayment, ConfirmFails, RetryCheck,
       RetryRequeue, RetryMarks, StartDelivery, DeliveryEnds, RefundSees, RefundCommits, SeeLinks,
       IssueReverts, MailLinks, MailFails, AskResend, ReadOrder, RequestAccess, MailAccess,
       AccessExpires, LinkExpires, CheckLink, CountUse, HandFile, vars, linkVars
<1>2. ASSUME NEW i \in Issuer, CommitLinks(i)
      PROVE  /\ \A g \in Link : lineOf[g] # NoLine => lineOf'[g] = lineOf[g]
             /\ revoked \subseteq revoked'
  BY <1>2, CommitMakesLinks
<1>3. /\ \A g \in Link : lineOf[g] # NoLine => lineOf'[g] = lineOf[g]
      /\ revoked \subseteq revoked'
  BY <1>1, <1>2 DEF RefundCommits, CutsLinks
<1>4. ASSUME NEW o \in Order, NEW g \in LinksOf(o)
      PROVE  g \in LinksOf(o)'
  <2>1. g \in Link /\ lineOf[g] # NoLine /\ lineOf[g] \in LinesOf(o)
    BY LinksAreIssued DEF DownloadInv, LinksOf
  <2>. QED  BY <1>3, <2>1 DEF LinksOf, LinesOf
<1>. QED  BY <1>1, <1>3, <1>4

\* A new link of an order is made by an issue of that order.
LEMMA NewLinks ==
    ASSUME DownloadInv, [Next]_vars, NEW o \in Order,
           \A i \in Issuer : issue[i].at = "seen" => issue[i].on # o
    PROVE  LinksOf(o)' = LinksOf(o)
<1>1. CASE UNCHANGED lineOf
  BY <1>1 DEF LinksOf, LinesOf
<1>2. ASSUME NEW i \in Issuer, CommitLinks(i), NEW g \in Link, lineOf'[g] \in LinesOf(o)
      PROVE  lineOf[g] \in LinesOf(o)
  <2>1. issue[i].on # o
    BY <1>2 DEF CommitLinks
  <2>2. lineOf'[g] = lineOf[g] \/ lineOf'[g] \in LinesOf(issue[i].on)
    BY <1>2, CommitMakesLinks
  <2>. QED  BY <1>2, <2>1, <2>2 DEF LinesOf
<1>. QED  BY <1>1, <1>2, LinksStay DEF LinksOf, LinesOf

\* The status of an order follows its payment, its job, a retry or its refund.
OrderMoves(o) ==
    /\ \/ status'[o] = status[o] /\ delivery'[o] = delivery[o]
       \/ /\ \E c \in Confirmer : confirm[c] = o
          /\ status'[o] = "PAID"
       \/ /\ delivery[o] \in {"queued", "running", "failed"}
          /\ status'[o] \in {status[o], "NEEDS_REVIEW", "DELIVERED"}
       \/ retry[o] = "requeued" /\ status'[o] = "PAID" /\ delivery'[o] = delivery[o]
       \/ RefundCommits(o)
    /\ retry'[o] = "requeued" => retry[o] = "requeued" \/ delivery[o] = "failed"
    /\ \/ refund'[o] = refund[o] /\ (o \in quiet' => o \in quiet)
       \/ RefundSees(o)
       \/ RefundCommits(o)

LEMMA OrdersMove ==
    ASSUME DownloadInv, [Next]_vars, NEW o \in Order
    PROVE  OrderMoves(o)
<1>. Typed
  BY Types DEF DownloadInv
<1>. USE DownloadsAssumption DEF OrderMoves, Typed, orderVars, pastVars, Issuer
<1>1. ASSUME NEW q \in Order, RetryCheck(q) \/ RetryRequeue(q) \/ RetryMarks(q)
      PROVE  OrderMoves(o)
  BY <1>1 DEF RetryCheck, RetryRequeue, RetryMarks
<1>11. ASSUME NEW c \in Confirmer, ReadPending(c) \/ ConfirmPayment(c) \/ ConfirmFails(c)
       PROVE  OrderMoves(o)
  BY <1>11 DEF ReadPending, ConfirmPayment, ConfirmFails
<1>2. ASSUME NEW q \in Order, StartDelivery(q) \/ DeliveryEnds(q)
      PROVE  OrderMoves(o)
  BY <1>2 DEF StartDelivery, DeliveryEnds
<1>3. ASSUME NEW q \in Order, RefundSees(q) \/ RefundCommits(q)
      PROVE  OrderMoves(o)
  <2>1. CASE q = o
    BY <1>3, <2>1 DEF RefundSees, RefundCommits
  <2>2. CASE q # o
    BY <1>3, <2>2 DEF RefundSees, RefundCommits
  <2>. QED  BY <2>1, <2>2
<1>4. ASSUME NEW i \in Issuer, IssueReverts(i) \/ MailFails(i)
      PROVE  OrderMoves(o)
  <2>1. /\ GivesUp(i) /\ issue[i].at # "idle"
        /\ retry' = retry /\ refund' = refund /\ quiet' = quiet
    BY <1>4 DEF IssueReverts, MailFails
  <2>. QED  BY <2>1 DEF GivesUp, DeliveryFails
<1>5. ASSUME UNCHANGED <<status, delivery, retry, refund>>, quiet' \subseteq quiet
      PROVE  OrderMoves(o)
  BY <1>5
<1>6. ASSUME NEW i \in Issuer, SeeLinks(i) \/ CommitLinks(i) \/ MailLinks(i)
      PROVE  OrderMoves(o)
  BY <1>5, <1>6 DEF SeeLinks, CommitLinks, MailLinks
<1>7. ASSUME NEW i \in Resend, AskResend(i) \/ ReadOrder(i)
      PROVE  OrderMoves(o)
  BY <1>5, <1>7 DEF AskResend, ReadOrder
<1>8. ASSUME NEW a \in Access, RequestAccess(a) \/ MailAccess(a) \/ AccessExpires(a)
      PROVE  OrderMoves(o)
  BY <1>5, <1>8 DEF RequestAccess, MailAccess, AccessExpires
<1>9. ASSUME NEW d \in Visitor, CheckLink(d) \/ CountUse(d) \/ HandFile(d)
      PROVE  OrderMoves(o)
  BY <1>5, <1>9 DEF CheckLink, CountUse, HandFile
<1>10. CASE (\E g \in Link : LinkExpires(g)) \/ UNCHANGED vars
  BY <1>5, <1>10 DEF LinkExpires, vars
<1>. QED
  BY <1>1, <1>2, <1>3, <1>4, <1>6, <1>7, <1>8, <1>9, <1>10, <1>11 DEF Next, OfOrder, Issuing

\* Who sets out to confirm an order has found it pending.
LEMMA ConfirmersRead ==
    ASSUME DownloadInv, [Next]_vars, NEW o \in Order, status[o] # "PENDING_PAYMENT",
           \A c \in Confirmer : confirm[c] # o
    PROVE  \A c \in Confirmer : confirm'[c] # o
<1>. confirm \in [Confirmer -> Order \cup {NoOrder}]
  BY DEF DownloadInv, TypeOK
<1>1. CASE UNCHANGED confirm
  BY <1>1
<1>2. ASSUME NEW c \in Confirmer, ReadPending(c) \/ ConfirmPayment(c) \/ ConfirmFails(c)
      PROVE  \A d \in Confirmer : confirm'[d] # o
  BY <1>2, DownloadsAssumption DEF ReadPending, ConfirmPayment, ConfirmFails
<1>. QED
  BY <1>1, <1>2 DEF Next, OfOrder, Issuing, RetryCheck, RetryRequeue, RetryMarks, StartDelivery,
       DeliveryEnds, RefundSees, RefundCommits, SeeLinks, CommitLinks, IssueReverts, MailLinks,
       MailFails, AskResend, ReadOrder, RequestAccess, MailAccess, AccessExpires, LinkExpires,
       CheckLink, CountUse, HandFile, vars, orderVars

\* An issuer goes on with its order, ends, or begins with one.
IssueMoves(i) ==
    \/ issue'[i] = issue[i]
    \/ issue'[i].at = "idle"
    \/ /\ i \in Order /\ delivery[i] = "queued"
       /\ issue'[i] = [at |-> "read", on |-> i, links |-> {}]
    \/ /\ i \in Resend /\ issue[i].at = "idle"
       /\ \E o \in Order : issue'[i] = [at |-> "asked", on |-> o, links |-> {}]
    \/ /\ issue[i].at = "asked" /\ Bought(issue[i].on) /\ UNCHANGED refund
       /\ refund[issue[i].on].at = "seen" => issue[i].on \notin quiet'
       /\ issue'[i].at = "read" /\ issue'[i].on = issue[i].on
       /\ issue'[i].links = issue[i].links
    \/ /\ issue[i].at = "read" /\ UNCHANGED lineOf
       /\ issue'[i].at = "seen" /\ issue'[i].on = issue[i].on
       /\ issue'[i].links \subseteq LinksOf(issue[i].on)
    \/ CommitLinks(i)
    \/ /\ issue[i].at = "issued"
       /\ issue'[i].at = "mailed" /\ issue'[i].on = issue[i].on
       /\ issue'[i].links = issue[i].links

LEMMA IssuesMove ==
    ASSUME DownloadInv, [Next]_vars, NEW i \in Issuer
    PROVE  IssueMoves(i)
<1>. Typed
  BY Types DEF DownloadInv
<1>. USE DownloadsAssumption DEF IssueMoves, Typed, orderVars, linkVars, pastVars, Issuer
<1>1. CASE UNCHANGED issue
  BY <1>1
<1>2. ASSUME NEW o \in Order, StartDelivery(o) \/ DeliveryEnds(o)
      PROVE  IssueMoves(i)
  <2>1. CASE StartDelivery(o)
    BY <2>1 DEF StartDelivery, Goto
  <2>2. CASE DeliveryEnds(o)
    BY <2>2 DEF DeliveryEnds, Goto, NoIssue
  <2>. QED  BY <1>2, <2>1, <2>2
<1>3. ASSUME NEW o \in Order, \/ RetryCheck(o) \/ RetryRequeue(o) \/ RetryMarks(o)
                              \/ RefundSees(o) \/ RefundCommits(o)
      PROVE  IssueMoves(i)
  BY <1>1, <1>3 DEF RetryCheck, RetryRequeue, RetryMarks, RefundSees, RefundCommits
<1>13. ASSUME NEW c \in Confirmer, ReadPending(c) \/ ConfirmPayment(c) \/ ConfirmFails(c)
       PROVE  IssueMoves(i)
  BY <1>1, <1>13 DEF ReadPending, ConfirmPayment, ConfirmFails
<1>4. ASSUME NEW j \in Issuer, IssueReverts(j) \/ MailFails(j)
      PROVE  IssueMoves(i)
  BY <1>4 DEF IssueReverts, MailFails, GivesUp, Goto, NoIssue
<1>5. ASSUME NEW j \in Issuer, SeeLinks(j)
      PROVE  IssueMoves(i)
  <2>1. ASSUME NEW q \in Issues, NEW S \in SUBSET Link
        PROVE  LET m == [q EXCEPT !.at = "seen", !.links = S] IN
               m.at = "seen" /\ m.on = q.on /\ m.links = S
    BY DEF Issues
  <2>. DEFINE seen == LinksOf(issue[j].on) \ revoked
              n == [issue[j] EXCEPT !.at = "seen", !.links = seen]
  <2>2. issue' = [issue EXCEPT ![j] = n] /\ issue[j].at = "read" /\ UNCHANGED lineOf
    BY <1>5 DEF SeeLinks, Goto
  <2>3. seen \in SUBSET Link /\ seen \subseteq LinksOf(issue[j].on) /\ issue[j] \in Issues
    BY DEF LinksOf
  <2>4. n.at = "seen" /\ n.on = issue[j].on /\ n.links = seen
    <3>. HIDE DEF seen
    <3>. QED  BY <2>1, <2>3
  <2>. HIDE DEF n, seen
  <2>. QED  BY <2>2, <2>3, <2>4
<1>6. ASSUME NEW j \in Issuer, CommitLinks(j)
      PROVE  IssueMoves(i)
  <2>1. CASE j = i
    BY <1>6, <2>1
  <2>2. CASE j # i
    BY <1>6, <2>2, CommitMakesLinks
  <2>. QED  BY <2>1, <2>2
<1>7. ASSUME NEW j \in Issuer, MailLinks(j)
      PROVE  IssueMoves(i)
  <2>. DEFINE n == [issue[j] EXCEPT !.at = "mailed"]
  <2>1. issue[j] \in Issues
    OBVIOUS
  <2>2. n.at = "mailed" /\ n.on = issue[j].on /\ n.links = issue[j].links
    BY <2>1, NextIssue
  <2>3. /\ issue[j].at = "issued"
        /\ issue' = [issue EXCEPT ![j] = n] \/ issue' = [issue EXCEPT ![j] = NoIssue]
    BY <1>7 DEF MailLinks, Goto
  <2>. HIDE DEF n
  <2>. QED  BY <2>2, <2>3 DEF NoIssue
<1>8. ASSUME NEW j \in Resend, AskResend(j)
      PROVE  IssueMoves(i)
  <2>1. PICK o \in Order :
           /\ issue[j].at = "idle"
           /\ issue' = [issue EXCEPT ![j] = [at |-> "asked", on |-> o, links |-> {}]]
    BY <1>8 DEF AskResend, Goto
  <2>2. CASE j = i
    BY <2>1, <2>2
  <2>3. CASE j # i
    BY <2>1, <2>3
  <2>. QED  BY <2>2, <2>3
<1>9. ASSUME NEW j \in Resend, ReadOrder(j)
      PROVE  IssueMoves(i)
  <2>. DEFINE n == [issue[j] EXCEPT !.at = "read"]
  <2>1. issue[j] \in Issues
    OBVIOUS
  <2>2. n.at = "read" /\ n.on = issue[j].on /\ n.links = issue[j].links
    BY <2>1, NextIssue
  <2>3. /\ issue[j].at = "asked" /\ UNCHANGED refund
        /\ \/ /\ Bought(issue[j].on) /\ issue' = [issue EXCEPT ![j] = n]
              /\ refund[issue[j].on].at = "seen" => issue[j].on \notin quiet'
           \/ issue' = [issue EXCEPT ![j] = NoIssue]
    BY <1>9 DEF ReadOrder, Goto
  <2>. HIDE DEF n
  <2>. QED  BY <2>2, <2>3 DEF NoIssue
<1>10. ASSUME NEW a \in Access, RequestAccess(a) \/ MailAccess(a) \/ AccessExpires(a)
       PROVE  IssueMoves(i)
  BY <1>1, <1>10 DEF RequestAccess, MailAccess, AccessExpires
<1>11. ASSUME NEW d \in Visitor, CheckLink(d) \/ CountUse(d) \/ HandFile(d)
       PROVE  IssueMoves(i)
  BY <1>1, <1>11 DEF CheckLink, CountUse, HandFile
<1>12. CASE (\E g \in Link : LinkExpires(g)) \/ UNCHANGED vars
  BY <1>1, <1>12 DEF LinkExpires, vars
<1>. QED
  BY <1>2, <1>3, <1>4, <1>5, <1>6, <1>7, <1>8, <1>9, <1>10, <1>11, <1>12, <1>13
     DEF Next, OfOrder, Issuing

-----------------------------------------------------------------------------
(* The invariant, part by part.                                            *)

LEMMA UnpaidStep ==
    ASSUME DownloadInv, [Next]_vars
    PROVE  UnpaidIsUndelivered'
<1>. SUFFICES ASSUME NEW o \in Order, status'[o] = "PENDING_PAYMENT"
              PROVE  delivery'[o] = "none"
  BY DEF UnpaidIsUndelivered
<1>1. Typed /\ UnpaidIsUndelivered /\ OrderMoves(o)
  BY Types, OrdersMove DEF DownloadInv
<1>. QED  BY <1>1 DEF OrderMoves, UnpaidIsUndelivered, RefundCommits, Typed

LEMMA IssueStep ==
    ASSUME DownloadInv, [Next]_vars
    PROVE  IssueShape'
<1>. SUFFICES ASSUME NEW i \in Issuer, issue'[i].at # "idle"
              PROVE  /\ issue'[i].on \in Order
                     /\ i \in Order => issue'[i].on = i
                     /\ issue'[i].links \subseteq LinksOf(issue[i].on)'
  BY DEF IssueShape
<1>1. Typed /\ IssueShape /\ IssueMoves(i) /\ \A o \in Order : LinksOf(o) \subseteq LinksOf(o)'
  BY Types, IssuesMove, LinksStay DEF DownloadInv
<1>2. CASE CommitLinks(i)
  <2>. DEFINE o == issue[i].on
  <2>1. PICK new \in SUBSET Link :
              /\ o \in Order
              /\ \A g \in new : lineOf'[g] \in LinesOf(o)
              /\ issue' = [issue EXCEPT ![i] = [at |-> "issued", on |-> o, links |-> new]]
    BY <1>2, CommitMakesLinks
  <2>2. issue'[i].on = o /\ issue'[i].links = new
    BY <1>1, <2>1 DEF Typed
  <2>3. new \subseteq LinksOf(o)'
    BY <2>1 DEF LinksOf, LinesOf
  <2>4. i \in Order => o = i
    BY <1>1, <1>2 DEF IssueShape, CommitLinks
  <2>. QED  BY <2>1, <2>2, <2>3, <2>4
<1>3. CASE issue[i].at # "idle" /\ issue'[i].on = issue[i].on /\ issue'[i].links \subseteq
           issue[i].links \cup LinksOf(issue[i].on)
  BY <1>1, <1>3 DEF IssueShape
<1>4. CASE i \in Order /\ issue'[i] = [at |-> "read", on |-> i, links |-> {}]
  BY <1>4
<1>5. ASSUME NEW o \in Order, i \in Resend, issue'[i] = [at |-> "asked", on |-> o, links |-> {}]
      PROVE  /\ issue'[i].on \in Order
             /\ i \in Order => issue'[i].on = i
             /\ issue'[i].links \subseteq LinksOf(issue[i].on)'
  BY <1>5, DownloadsAssumption
<1>. QED  BY <1>1, <1>2, <1>3, <1>4, <1>5 DEF IssueMoves

LEMMA ReadersStep ==
    ASSUME DownloadInv, [Next]_vars
    PROVE  ReadersShape'
<1>. Typed /\ ReadersShape
  BY Types DEF DownloadInv
<1>1. ASSUME NEW o \in Order
      PROVE  refund'[o].links \subseteq LinksOf(o)'
  <2>1. LinksOf(o) \subseteq LinksOf(o)' /\ OrderMoves(o)
    BY LinksStay, OrdersMove
  <2>2. refund'[o] = refund[o] \/ refund'[o].links \subseteq LinksOf(o)
    BY <2>1 DEF OrderMoves, RefundSees, RefundCommits, Typed
  <2>. QED  BY <2>1, <2>2 DEF ReadersShape
<1>2. ASSUME NEW d \in Visitor, visit'[d].at # "idle"
      PROVE  visit'[d].on \in Link
  <2>1. CASE UNCHANGED visit
    BY <1>2, <2>1 DEF ReadersShape
  <2>2. ASSUME NEW e \in Visitor, CheckLink(e) \/ CountUse(e) \/ HandFile(e)
        PROVE  visit'[d].on \in Link
    BY <1>2, <2>2 DEF CheckLink, CountUse, HandFile, NoVisit, ReadersShape, Typed, Visits
  <2>. QED
    BY <2>1, <2>2 DEF Next, OfOrder, Issuing, ReadPending, ConfirmPayment, ConfirmFails,
       RetryCheck, RetryRequeue, RetryMarks, StartDelivery, DeliveryEnds, RefundSees,
       RefundCommits, SeeLinks, CommitLinks, IssueReverts, MailLinks, MailFails, AskResend,
       ReadOrder, RequestAccess, MailAccess, AccessExpires, LinkExpires, vars
<1>. QED  BY <1>1, <1>2 DEF ReadersShape

\* What a step does to the count of a link and to those it let in.
UsesMove(g) ==
    \/ About(g)' = About(g) /\ uses'[g] = uses[g] /\ handed'[g] = handed[g]
    \/ \E d \in Visitor \ About(g) :
          /\ About(g)' = About(g) \cup {d}
          /\ uses[g] < MaxUses /\ uses'[g] = uses[g] + 1 /\ handed'[g] = handed[g]
    \/ \E d \in About(g) :
          /\ About(g)' = About(g) \ {d}
          /\ uses'[g] = uses[g] /\ handed'[g] \in {handed[g], handed[g] + 1}

LEMMA UsesMoves ==
    ASSUME DownloadInv, [Next]_vars, NEW g \in Link
    PROVE  UsesMove(g)
<1>. Typed /\ ReadersShape
  BY Types DEF DownloadInv
<1>. USE DownloadsAssumption DEF UsesMove, Typed, pastVars, linkVars
<1>1. CASE UNCHANGED <<uses, visit, handed>>
  BY <1>1 DEF About
<1>2. ASSUME NEW d \in Visitor, CheckLink(d)
      PROVE  UsesMove(g)
  BY <1>2 DEF CheckLink, About
<1>3. ASSUME NEW d \in Visitor, CountUse(d)
      PROVE  UsesMove(g)
  <2>1. visit[d].on \in Link /\ visit[d].at = "checked" /\ visit[d] \in Visits
    BY <1>3 DEF CountUse, ReadersShape
  <2>2. CASE HasUsesLeft(visit[d].on)
    <3>1. /\ visit' = [visit EXCEPT ![d] = [at |-> "counted", on |-> visit[d].on]]
          /\ uses' = [uses EXCEPT ![visit[d].on] = @ + 1] /\ handed' = handed
      BY <1>3, <2>1, <2>2 DEF CountUse, Visits
    <3>2. CASE visit[d].on = g
      <4>1. About(g)' = About(g) \cup {d} /\ d \notin About(g)
        BY <2>1, <3>1, <3>2 DEF About
      <4>. QED  BY <2>2, <3>1, <3>2, <4>1 DEF HasUsesLeft
    <3>3. CASE visit[d].on # g
      <4>1. About(g)' = About(g)
        BY <2>1, <3>1, <3>3 DEF About
      <4>. QED  BY <2>1, <3>1, <3>3, <4>1
    <3>. QED  BY <3>2, <3>3
  <2>3. CASE ~HasUsesLeft(visit[d].on)
    BY <1>3, <2>1, <2>3 DEF CountUse, About, NoVisit
  <2>. QED  BY <2>2, <2>3
<1>4. ASSUME NEW d \in Visitor, HandFile(d)
      PROVE  UsesMove(g)
  <2>1. /\ visit[d].on \in Link /\ visit[d] = [at |-> "counted", on |-> visit[d].on]
        /\ visit' = [visit EXCEPT ![d] = NoVisit] /\ uses' = uses
        /\ \/ handed' = [handed EXCEPT ![visit[d].on] = @ + 1]
           \/ handed' = handed
    BY <1>4 DEF HandFile, ReadersShape, Visits
  <2>2. CASE visit[d].on = g
    <3>1. d \in About(g) /\ About(g)' = About(g) \ {d}
      BY <2>1, <2>2 DEF About, NoVisit
    <3>. QED  BY <2>1, <2>2, <3>1
  <2>3. CASE visit[d].on # g
    <3>1. About(g)' = About(g)
      BY <2>1, <2>3 DEF About, NoVisit
    <3>. QED  BY <2>1, <2>3, <3>1
  <2>. QED  BY <2>2, <2>3
<1>. QED
  BY <1>1, <1>2, <1>3, <1>4 DEF Next, OfOrder, Issuing, ReadPending, ConfirmPayment, ConfirmFails,
       RetryCheck, RetryRequeue, RetryMarks, StartDelivery, DeliveryEnds, RefundSees,
       RefundCommits, SeeLinks, CommitLinks, IssueReverts, MailLinks, MailFails, AskResend,
       ReadOrder, RequestAccess, MailAccess, AccessExpires, LinkExpires, vars

LEMMA CountedIs ==
    LET Counted == \A g \in Link : /\ handed[g] + Cardinality(About(g)) <= uses[g]
                                   /\ uses[g] <= MaxUses
    IN  (UsesAreCounted <=> Counted) /\ (UsesAreCounted' <=> Counted')
  BY DEF UsesAreCounted, About

LEMMA UsesStep ==
    ASSUME DownloadInv, [Next]_vars
    PROVE  VisitorsAreFinite' /\ UsesAreCounted'
<1>. SUFFICES ASSUME NEW g \in Link
              PROVE  /\ IsFiniteSet(About(g)')
                     /\ handed'[g] + Cardinality(About(g)') <= uses'[g]
                     /\ uses'[g] <= MaxUses
  BY CountedIs DEF VisitorsAreFinite
<1>1. /\ IsFiniteSet(About(g)) /\ uses[g] \in Nat /\ handed[g] \in Nat /\ MaxUses \in Nat
      /\ handed[g] + Cardinality(About(g)) <= uses[g] /\ uses[g] <= MaxUses
  BY Types, CountedIs, DownloadsAssumption DEF DownloadInv, VisitorsAreFinite, Typed
<1>2. Cardinality(About(g)) \in Nat
  BY <1>1, FS_CardinalityType
<1>3. ASSUME NEW d \in Visitor \ About(g)
      PROVE  /\ IsFiniteSet(About(g) \cup {d})
             /\ Cardinality(About(g) \cup {d}) = Cardinality(About(g)) + 1
  BY <1>1, FS_AddElement
<1>4. ASSUME NEW d \in About(g)
      PROVE  /\ IsFiniteSet(About(g) \ {d})
             /\ Cardinality(About(g) \ {d}) = Cardinality(About(g)) - 1
  BY <1>1, FS_RemoveElement
<1>5. UsesMove(g)
  BY UsesMoves
<1>6. CASE About(g)' = About(g) /\ uses'[g] = uses[g] /\ handed'[g] = handed[g]
  BY <1>1, <1>6
<1>7. ASSUME NEW d \in Visitor \ About(g), About(g)' = About(g) \cup {d},
             uses[g] < MaxUses, uses'[g] = uses[g] + 1, handed'[g] = handed[g]
      PROVE  /\ IsFiniteSet(About(g)')
             /\ handed'[g] + Cardinality(About(g)') <= uses'[g]
             /\ uses'[g] <= MaxUses
  BY <1>1, <1>2, <1>3, <1>7
<1>8. ASSUME NEW d \in About(g), About(g)' = About(g) \ {d},
             uses'[g] = uses[g], handed'[g] \in {handed[g], handed[g] + 1}
      PROVE  /\ IsFiniteSet(About(g)')
             /\ handed'[g] + Cardinality(About(g)') <= uses'[g]
             /\ uses'[g] <= MaxUses
  <2>1. IsFiniteSet(About(g)') /\ Cardinality(About(g)') = Cardinality(About(g)) - 1
    BY <1>4, <1>8
  <2>. QED  BY <1>1, <1>2, <1>8, <2>1
<1>. QED  BY <1>5, <1>6, <1>7, <1>8 DEF UsesMove

LEMMA LineStep ==
    ASSUME DownloadInv, [Next]_vars
    PROVE  LineKeepsALink'
<1>. SUFFICES ASSUME NEW l \in Line, refund'[OrderOf[l]].at # "done",
                     NEW k \in Link, lineOf'[k] = l
              PROVE  \E g \in Link \ revoked' : lineOf'[g] = l
  BY DEF LineKeepsALink
<1>. Typed /\ TypeOK /\ ReadersShape /\ IssueShape /\ LineKeepsALink
  BY Types DEF DownloadInv
<1>1. refund[OrderOf[l]].at # "done"
  <2>1. OrderOf[l] \in Order /\ OrderMoves(OrderOf[l])
    BY OrdersMove, DownloadsAssumption
  <2>. QED  BY <2>1 DEF OrderMoves, RefundSees, RefundCommits
<1>2. ASSUME NEW h \in Link, lineOf[h] = l
      PROVE  \E g \in Link \ revoked : lineOf[g] = l /\ lineOf'[g] = l
  <2>1. PICK g \in Link \ revoked : lineOf[g] = l
    BY <1>1, <1>2 DEF LineKeepsALink
  <2>2. l # NoLine
    BY DownloadsAssumption
  <2>. QED  BY <2>1, <2>2, LinksStay
<1>3. CASE UNCHANGED <<lineOf, revoked>>
  BY <1>2, <1>3
<1>4. ASSUME UNCHANGED lineOf, NEW o \in Order, RefundCommits(o)
      PROVE  \E g \in Link \ revoked' : lineOf'[g] = l
  <2>1. OrderOf[l] # o
    BY <1>4 DEF RefundCommits, Typed
  <2>2. revoked' = revoked \cup refund[o].links /\ refund[o].links \subseteq LinksOf(o)
    BY <1>4 DEF RefundCommits, CutsLinks, ReadersShape
  <2>3. \A g \in refund[o].links : lineOf[g] # l
    BY <2>1, <2>2, LinksAreIssued
  <2>. QED  BY <1>2, <1>4, <2>2, <2>3
<1>5. ASSUME NEW i \in Issuer, CommitLinks(i)
      PROVE  \E g \in Link \ revoked' : lineOf'[g] = l
  <2>. DEFINE o == issue[i].on
  <2>1. PICK new \in SUBSET Link :
              /\ o \in Order
              /\ \A g \in new : lineOf[g] = NoLine /\ lineOf'[g] \in LinesOf(o)
              /\ \A m \in LinesOf(o) : \E g \in new : lineOf'[g] = m
              /\ \A g \in Link \ new : lineOf'[g] = lineOf[g]
              /\ revoked' = revoked \cup issue[i].links
    BY <1>5, CommitMakesLinks
  <2>2. issue[i].links \subseteq LinksOf(o)
    BY <1>5 DEF CommitLinks, IssueShape
  <2>3. CASE l \in LinesOf(o)
    <3>1. PICK g \in new : lineOf'[g] = l
      BY <2>1, <2>3
    <3>2. g \notin revoked /\ g \notin issue[i].links
      BY <2>1, <2>2, LinksAreIssued DEF Typed
    <3>. QED  BY <2>1, <3>1, <3>2
  <2>4. CASE l \notin LinesOf(o)
    <3>1. lineOf[k] = l
      BY <2>1, <2>4
    <3>2. \A g \in issue[i].links : lineOf[g] # l
      BY <2>1, <2>2, <2>4 DEF LinksOf
    <3>. QED  BY <1>2, <2>1, <3>1, <3>2
  <2>. QED  BY <2>3, <2>4
<1>. QED  BY <1>3, <1>4, <1>5, LinksStay

LEMMA QuietStep ==
    ASSUME DownloadInv, [Next]_vars
    PROVE  QuietOrders' /\ RefundedStaysClosed'
<1>. SUFFICES ASSUME NEW o \in Order, o \in quiet'
              PROVE  /\ delivery'[o] = "done" /\ retry'[o] # "requeued"
                     /\ \A c \in Confirmer : confirm'[c] # o
                     /\ \A i \in Issuer :
                           issue'[i].at \in {"read", "seen", "issued", "mailed"}
                               => issue'[i].on # o
                     /\ refund'[o].at # "none"
                     /\ refund'[o].at = "seen" => LinksOf(o)' \ revoked' \subseteq refund'[o].links
                     /\ refund'[o].at = "done" => status'[o] = "REFUNDED"
                     /\ refund'[o].at = "done" => LinksOf(o)' \subseteq revoked'
  <2>1. quiet' \subseteq Order
    BY TypeStep, Types DEF Typed
  <2>. QED  BY <2>1 DEF QuietOrders, RefundedStaysClosed
<1>. Typed /\ UnpaidIsUndelivered /\ IssueShape
  BY Types DEF DownloadInv
<1>1. OrderMoves(o) /\ revoked \subseteq revoked'
  BY OrdersMove, LinksStay
<1>2. CASE o \in quiet
  <2>1. /\ delivery[o] = "done" /\ retry[o] # "requeued" /\ status[o] # "PENDING_PAYMENT"
        /\ \A c \in Confirmer : confirm[c] # o
        /\ \A i \in Issuer :
              issue[i].at \in {"read", "seen", "issued", "mailed"} => issue[i].on # o
        /\ refund[o].at \in {"seen", "done"}
        /\ refund[o].at = "seen" => LinksOf(o) \ revoked \subseteq refund[o].links
        /\ refund[o].at = "done" => status[o] = "REFUNDED" /\ LinksOf(o) \subseteq revoked
    BY <1>2 DEF DownloadInv, QuietOrders, RefundedStaysClosed, UnpaidIsUndelivered, Typed, Refunds
  <2>2. delivery'[o] = "done" /\ retry'[o] # "requeued"
    BY <1>1, <2>1 DEF OrderMoves, RefundCommits, orderVars
  <2>3. ASSUME NEW i \in Issuer, issue'[i].at \in {"read", "seen", "issued", "mailed"},
               issue'[i].on = o
        PROVE  FALSE
    <3>1. IssueMoves(i)
      BY IssuesMove
    <3>2. ~CommitLinks(i)
      <4>1. ASSUME CommitLinks(i)
            PROVE  issue[i].at = "seen" /\ issue'[i].on = issue[i].on
        <5>1. issue[i].at = "seen"
          BY <4>1 DEF CommitLinks
        <5>2. \E n : issue' = [issue EXCEPT
                         ![i] = [at |-> "issued", on |-> issue[i].on, links |-> n]]
          BY <4>1, CommitMakesLinks
        <5>. QED  BY <5>1, <5>2 DEF Typed
      <4>. QED  BY <2>1, <2>3, <4>1
    <3>3. ~(issue[i].at = "asked" /\ Bought(issue[i].on) /\ issue[i].on = o
            /\ (refund[o].at = "seen" => o \notin quiet'))
      BY <2>1 DEF Bought
    <3>4. ~(i \in Order /\ delivery[i] = "queued"
            /\ issue'[i] = [at |-> "read", on |-> i, links |-> {}])
      BY <2>1, <2>3
    <3>5. ASSUME NEW q \in Order, issue'[i] = [at |-> "asked", on |-> q, links |-> {}]
          PROVE  FALSE
      BY <2>3, <3>5
    <3>. QED  BY <2>1, <2>3, <3>1, <3>2, <3>3, <3>4, <3>5 DEF IssueMoves
  <2>4. /\ LinksOf(o)' = LinksOf(o)
        /\ \A c \in Confirmer : confirm'[c] # o
    BY <2>1, NewLinks, ConfirmersRead
  <2>5. CASE refund'[o] = refund[o] /\ ~RefundCommits(o)
    <3>1. status'[o] = status[o]
      BY <1>1, <2>1, <2>5 DEF OrderMoves
    <3>. QED  BY <1>1, <2>1, <2>2, <2>3, <2>4, <2>5, <3>1
  <2>6. CASE RefundCommits(o)
    <3>1. /\ refund'[o].at = "done" /\ status'[o] = "REFUNDED" /\ refund[o].at = "seen"
          /\ revoked' = revoked \cup refund[o].links
      BY <2>6 DEF RefundCommits, CutsLinks, Typed
    <3>. QED  BY <2>1, <2>2, <2>3, <2>4, <3>1
  <2>7. ~RefundSees(o)
    BY <2>1 DEF RefundSees
  <2>. QED  BY <1>1, <2>5, <2>6, <2>7 DEF OrderMoves
<1>3. CASE o \notin quiet
  <2>1. RefundSees(o)
    BY <1>1, <1>3 DEF OrderMoves, RefundCommits, pastVars
  <2>2. Settled(o) /\ UNCHANGED <<delivery, confirm, retry, issue, lineOf, revoked>>
    BY <1>3, <2>1 DEF RefundSees, orderVars, linkVars
  <2>3. refund'[o].at = "seen" /\ refund'[o].links = LinksOf(o) \ revoked
    BY <2>1 DEF RefundSees, Typed
  <2>4. LinksOf(o)' = LinksOf(o)
    BY <2>2 DEF LinksOf, LinesOf
  <2>. QED  BY <2>2, <2>3, <2>4 DEF Settled
<1>. QED  BY <1>2, <1>3

-----------------------------------------------------------------------------
(* The theorems.                                                           *)

LEMMA DownloadInitially ==
    ASSUME Init
    PROVE  DownloadInv
<1>. USE DownloadsAssumption DEF Init
<1>1. TypeOK
  BY Types DEF Typed, Statuses, JobStates, Issues, Refunds, Visits, NoIssue, NoVisit, Issuer
<1>2. UnpaidIsUndelivered /\ IssueShape /\ ReadersShape
  BY DEF UnpaidIsUndelivered, IssueShape, ReadersShape, NoIssue, NoVisit
<1>3. \A g \in Link : About(g) = {}
  BY DEF About, NoVisit
<1>4. VisitorsAreFinite /\ UsesAreCounted
  <2>1. VisitorsAreFinite
    BY <1>3, FS_EmptySet DEF VisitorsAreFinite
  <2>2. ASSUME NEW g \in Link
        PROVE  handed[g] + Cardinality(About(g)) <= uses[g] /\ uses[g] <= MaxUses
    <3>1. Cardinality(About(g)) = 0
      BY <1>3, FS_EmptySet
    <3>. QED  BY <3>1
  <2>. QED  BY <2>1, <2>2, CountedIs
<1>5. LineKeepsALink /\ QuietOrders /\ RefundedStaysClosed
  BY DEF LineKeepsALink, QuietOrders, RefundedStaysClosed
<1>. QED  BY <1>1, <1>2, <1>4, <1>5 DEF DownloadInv

LEMMA DownloadStep ==
    ASSUME DownloadInv, [Next]_vars
    PROVE  DownloadInv'
  BY TypeStep, UnpaidStep, IssueStep, ReadersStep, UsesStep, LineStep, QuietStep DEF DownloadInv

LEMMA DownloadsAlways == Spec => []DownloadInv
  BY DownloadInitially, DownloadStep, PTL DEF Spec

\* Rows, jobs and requests are of their types, only issued links are mailed,
\* revoked or expired, and a job runs exactly while it issues.
THEOREM DownloadTypes == Spec => []TypeOK
<1>1. DownloadInv => TypeOK
  BY DEF DownloadInv
<1>. QED  BY <1>1, DownloadsAlways, PTL

\* However many downloads of a link overlap and fail, it never gives more files
\* than it counted, nor counts more than its limit (consume, updateMany).
THEOREM NoUseIsUncounted == Spec => []UsesAreCounted
<1>1. DownloadInv => UsesAreCounted
  BY DEF DownloadInv
<1>. QED  BY <1>1, DownloadsAlways, PTL

\* However many issues overlap, a line that had a link keeps, until the refund,
\* one that was not revoked - which may be expired, used up or never mailed
\* (emitirEnlaces revokes what it saw and creates in one transaction).
THEOREM IssuesLeaveALink == Spec => []LineKeepsALink
<1>1. DownloadInv => LineKeepsALink
  BY DEF DownloadInv
<1>. QED  BY <1>1, DownloadsAlways, PTL

\* No link of an order works after a refund that found nothing under way about
\* it - no confirmation, retry or issue, and its job done -, whatever requests,
\* retries and failures follow (handleChargeRefunded).
THEOREM RefundsCloseForGood == Spec => []RefundedStaysClosed
<1>1. DownloadInv => RefundedStaysClosed
  BY DEF DownloadInv
<1>. QED  BY <1>1, DownloadsAlways, PTL

\* From then on no visitor is let in to one of its links.
LEMMA NobodyIsLetIn ==
    ASSUME DownloadInv, [Next]_vars, NEW g \in Link,
           \E o \in quiet : refund[o].at = "done" /\ lineOf[g] \in LinesOf(o),
           \A d \in Visitor : visit[d].on # g
    PROVE  \A d \in Visitor : visit'[d].on # g
<1>. Typed
  BY Types DEF DownloadInv
<1>1. g \in revoked
  BY DEF DownloadInv, RefundedStaysClosed, LinksOf
<1>2. CASE UNCHANGED visit
  BY <1>2
<1>3. ASSUME NEW e \in Visitor, CheckLink(e)
      PROVE  \A d \in Visitor : visit'[d].on # g
  BY <1>1, <1>3 DEF CheckLink, Works, Typed
<1>4. ASSUME NEW e \in Visitor, CountUse(e) \/ HandFile(e)
      PROVE  \A d \in Visitor : visit'[d].on # g
  BY <1>4, DownloadsAssumption DEF CountUse, HandFile, NoVisit, Typed, Visits
<1>. QED
  BY <1>2, <1>3, <1>4 DEF Next, OfOrder, Issuing, ReadPending, ConfirmPayment, ConfirmFails,
       RetryCheck, RetryRequeue, RetryMarks, StartDelivery, DeliveryEnds, RefundSees,
       RefundCommits, SeeLinks, CommitLinks, IssueReverts, MailLinks, MailFails, AskResend,
       ReadOrder, RequestAccess, MailAccess, AccessExpires, LinkExpires, vars

\* After such a refund a link lets nobody in who was not in before
\* (downloads.controller.ts checks the link, handleChargeRefunded cuts it).
THEOREM ClosedOrdersLetNobodyIn == Spec => RefundEndsDownloads
<1>1. DownloadInv /\ [Next]_vars =>
        [\A g \in Link :
          (/\ \E o \in quiet : refund[o].at = "done" /\ lineOf[g] \in LinesOf(o)
           /\ \A d \in Visitor : visit[d].on # g)
             => \A d \in Visitor : visit'[d].on # g]_vars
  BY NobodyIsLetIn
<1>. QED  BY <1>1, DownloadsAlways, PTL DEF Spec, RefundEndsDownloads
=============================================================================
