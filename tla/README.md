# Verification of the kori backend

TLA+ models of the kori backend (NestJS, Prisma, Postgres): a wall of notes and
a small store of printed and digital products. The models cover the store from
the checkout to the download of what was paid, because that is where several
processes, Stripe, the mail provider and an administrator act on the same rows
of the database without locks; and then what else acts at the same time or can
fail half-way: the sessions of the panel, the files of the public bucket, the
circuit breaker and the boot of a deployment. Every definition is translated from
the source; `PROJECT.json` ("map") gives the lines.

## 1. Inventory

| Component | State | Operations | Hard behaviour |
|---|---|---|---|
| Checkout (`checkout.service.ts`) | `orders` row, session at Stripe | `createSession` | failure between the order, the session and saving its id |
| Webhooks (`payments.service.ts`, `stripe-webhook.controller.ts`) | `webhook_events`, `orders` | claim, `handlePaymentSucceeded`, `handleSessionExpired`, `handleChargeRefunded` | lost, late, duplicated and reordered events; crash after the claim |
| Reconciliation (`order-reconciliation.service.ts`, `order-maintenance.scheduler.ts`, `internal-orders.controller.ts`) | none of its own | `run`, `purgarSinCobro` | overlapping passes, state read before calls to Stripe, page limit, irreversible delete |
| Outbox (`outbox.service.ts`, `outbox.scheduler.ts`) | `outbox_jobs`, one flag per process | enqueue, claim, execute, record failure, escalate, purge | several instances, crashes, retries, repeated mails |
| Administrator's retry (`admin-retry.controller.ts`) | none | `retry` | three statements without a transaction, against a running queue |
| Digital delivery, downloads, purchases (`orders/`) | `download_grants` | issue, revoke, download, resend | refund against issue, limit of downloads |
| Contact form (`contact.service.ts`) | `contact_messages` | receive, remove | message saved but not enqueued, deleted before its mail |
| E-mail (`notifications/`) | circuit breaker | send with a 10 s timeout | a late mail counts as failed |
| Circuit breaker (`common/resilience`) | state, failures, time | `run` | concurrent probes, late answers |
| Sessions (`auth/`) | `refresh_tokens` | login, refresh, change password, logout | rotation that is not atomic |
| Catalogue (`catalog/`) and storage | products, variants, files | publish, edit, delete, upload | check of a publication against concurrent edits; files of sold items |
| Notes wall (`notes/`, `admin-notes.service.ts`) | notes, files | create, hide, delete | upload, then insert, with compensation |
| Configuration, boot, health (`env.validation.ts`, `main.ts`, constructors and hooks, `health.controller.ts`, `docker-entrypoint.sh`) | environment, `reachable` | validate, build, connect, probe, listen, readiness | two readers of one variable with different defaults; failed boot that is only logged; answer noted once |
| Subscribers, signal, settings, telemetry, statistics | one table each, or none | one statement per request | none |

Interactions: the checkout creates the order and the session; Stripe answers by
webhook and when the reconciliation asks; both call the same handler, which
marks the order PAID and puts two jobs in the outbox in one transaction; the
outbox executes them and moves the order on; the administrator retries what was
given up; a refund by Stripe changes the order and revokes its links; the
purges delete old orders and old jobs. All of it meets in `orders.status`, which
is written unconditionally by five of these paths.

What makes each correct: the queue never executes a job in two places, counts
attempts, and settles every job; nothing is DONE that was not done; a paid order
is never left in silence; only charged orders are confirmed; no charged order is
cancelled or deleted; every payment and every expiry is recognised without
webhooks; a refund reaches the order; links do not outlive the refund and are
used at most five times; a refresh token is used once and a password change
ends every session; what is on sale can be produced and downloaded.

## 2. Plan

1. `Outbox` with `JobLedger` (abstract) and the proofs of its invariant - done.
2. `Payments` with `OrderSale` (abstract) - done.
3. `OutboxProofs` goes on: `Outbox` implements `JobLedger` - done.
4. `Catalog`: publication check, edits, deletion, files of sold items - done.
5. `CircuitBreaker`: concurrent calls, late answers, more than one probe, and
   `BreakerProofs` - done.
6. `Downloads`: grants, downloads at their limit, resending, refunds - done.
7. `Sessions`: login, refresh, change of password, logout at once - done.
8. `Uploads`: images of a product and drawings of the wall: object, then row,
   with compensation; maximum, order and primary image - done.
9. `Startup`: validation against constructors, boot and readiness, and
   `StartupProofs` - done.
10. `PaymentsProofs`, with `OrderSale` as its refinement, `CatalogProofs`,
   `DownloadsProofs`, `SessionsProofs`, `UploadsProofs` - done. Every invariant
   and action property of the passing runs is now a theorem too, two of them
   under a condition that section 6 states.
11. Left: action properties worth stating of the sale beyond the abstract one
   (what a pass may never do to an order that a webhook has just confirmed), and
   the orders' links as a refinement of "a right to so many downloads" in place
   of the separate invariants of `Downloads`.

## 3. Modules

- `StoreTypes`: order and job states, the deduplication key of jobs, and
  `createMany` with `skipDuplicates`.
- `Outbox`: the queue. One step is one awaited statement or mail, so everything
  that can happen between two awaits can happen between two steps. `job`,
  `attempts`, `status` and the rest are columns; `due` and `ahead` stand for
  `nextAttemptAt` (who is due, and in which order); `pc`, `batch` and `cur` are
  the memory of each process, `pc = "idle"` being `running = false`. Payments
  and refunds are two environment actions, the transactions of the handlers.
  `sent` are the jobs whose mail went out. An instance without `RESEND_API_KEY`,
  which the validation does not ask for, writes the mail to its log and calls
  that success (`email.service.ts:107-112`): `Keyless` are such instances and
  `logged` what they wrote.
- `JobLedger`: what a queue promises: one worker at a time, settled only by its
  holder, exactly `Tries` tries, DONE for good. Jobs may be lost with their
  worker; the code has this behaviour too, see the run `outbox_restart`.
- `OutboxLedger`: the refinement mapping. A job is held by the run that has it
  in its batch or in hand.
- `OutboxInvariant`: the inductive invariant `IInv`.
- `OutboxProofs`: the proofs of the invariants and of the refinement.
- `Payments`: checkout, Stripe (external: modelled from the calls and events the
  code uses), webhooks, reconciliation, purge. `webhook[e]` is the row of an
  event and how far its only handling has come; a duplicate finds the row and
  changes nothing. `step`, `todo` are the memory of a pass. `confirmed` stands
  for the three things the payment transaction writes together: `paidAt`,
  `stripePaymentIntentId` and the two jobs. `watched` and `swept` are history
  variables used only to say what 30 days are long enough for.
- `OrderSale`: what selling promises: offered, then charged or dropped, granted
  only when charged.
- `Catalog`: products, variants and the private bucket against the orders. A
  request of several awaited steps is the `task` of a clerk and carries what it
  has read; one of a single statement or transaction is one step. `session` is
  what Stripe knows, `order` what the row says. An order has one line. Images
  are only counted, by one step that compares the number with the maximum and a
  later one that adds a row; `Uploads` has them. `halted` is history: variants
  the removal of whose file was cut short.
- `CircuitBreaker`: `estado`, `fallosSeguidos` and `abiertoHasta` (`descanso`:
  not yet reached) of one instance; `call` is what each caller has in progress,
  "doomed" when only its timer will end it. The breakers of the e-mail, the
  checkout and the private store are instances of the class with other numbers.
- `Downloads`: `download_grants` of the lines of an order, the confirmations of
  its payment (`confirm`: the order each has read as pending and will write PAID,
  whatever it is by then), the job that issues the links, the buyer's resend, the
  administrator's retry, the refund and the requests for a file. A transaction whose statements see what was committed
  before each (READ COMMITTED) is two steps, what it saw and what it commits:
  `issue` and `refund` hold what was seen. `handed` and `quiet` are history:
  files handed out, and orders whose refund nothing overlapped (`Settled`).
- `Sessions`: `refresh_tokens` of one account. The tabs of a device share its
  `cookie`; a request is one step per statement and one for its answer.
  `origin` remembers where the session of a token began and whether a change of
  the password overtook the request that issued it; `excused` holds devices that
  lost their session for a reason other than their own lone tab. Whoever steals
  a cookie becomes another device that holds the same token (`TokenStolen`) and
  presents it when it likes; thief and victim are excused from then on.
- `Uploads`: the public bucket with the rows that name its objects, images of a
  product and drawings of notes, and the requests on them (`task`). A call to
  the bucket that fails may have had its effect: a store leaves an object nobody
  has the path of, a deletion a row without its file. `left`, `broken` and
  `raced` are history: objects left behind, notes whose deletion failed after
  their file was gone, and publications or deletions that overlapped.
- `Startup`: `env` maps 26 variables to the classes of values the code tells
  apart; `Accepts` is `validateEnvironment`, one operator per check;
  `StorageThrows`, `TokensThrow` and `StrategyThrows` are the constructors;
  `phase` is how far the boot is; `ImagesCanBeStored` is what an upload needs.
  Variables that are checked alike are one key.
- `PaymentsProofs`, `CatalogProofs`, `DownloadsProofs`, `SessionsProofs`,
  `UploadsProofs`, `BreakerProofs`, `StartupProofs`: per component, the inductive
  invariant and the proofs (section 6).
- `MCOutbox`, `MCPayments`, `MCCatalog`, `MCDownloads`, `MCSessions`,
  `MCUploads`, `MCStartup`: instances for TLC.

The modules meet in the database. `Outbox` has payments and refunds as two
transactions; `Payments` has the delivery as one step; `Catalog` has payments as
the end of a session; `Downloads` composes the four that write to the links of
an order (delivery job, retry, resend, refund) with the requests that use them,
and with late confirmations, each reduced to the statements that touch the order,
its job and its links.

Definitions introduced by "A mutant:" are wrong variants of the definition
below them; they are used by no specification, only to see that the properties
notice such a mistake.

## 4. Runs

| Run | Shows |
|---|---|
| `outbox_safety` | two instances, one without a key for its mails, a digital order, two jobs, two attempts, retry, crash, rejected statements: the safety properties, and that the queue implements `JobLedger` |
| `outbox_live` | one instance, a physical order that may be refunded and a contact message, no crashes: every job is settled, a paid order moves on |
| `outbox_restart` (violated) | with crashes a PROCESSING job stays so for ever |
| `payments_safety` | two orders, all faults: only charged orders are confirmed, charged orders are neither cancelled nor deleted, `OrderSale` is implemented |
| `payments_live` | two orders on a page of one: one pass after the other recognises payments and closes abandoned orders, webhooks and checkouts failing at will, except where older orders that stay pending keep filling the page |
| `payments_refund_lost` (violated) | a refund event that fails after its claim is never applied |
| `catalog_safety` | two requests of administrators and a customer on one product, the bucket and statements failing and requests dying: confirmed sales survive deletions, a deletion removes no sold file, no variant points to nothing but by the removal of its file |
| `breaker` | three callers, a service that falls silent and returns: a closed breaker is below its threshold, a silent service is cut off, one that is back for good is used for good |
| `downloads_safety` | one order, two links, two downloads, a resend, a retry, two confirmations and a refund at once, mails, statements and signatures failing: uses are never lost or exceeded, overlapping issues leave a link that is not revoked, a refund that nothing overlaps closes the order for good |
| `sessions_safety` | two tabs on one device, one on another, lost answers, rejected statements and stolen cookies: ended sessions stay so, a change of the password leaves none of before but what it overtook, a lone tab is not thrown out by the others unless its cookie was stolen |
| `uploads_safety` | two requests on a product's images and on notes, with rejected writes, calls to the bucket that fail before or after their effect and restarts: how far the maximum is passed, which rows and objects can lose each other, when a published product is left without an image |
| `startup` | four deployments, any two of 26 variables rewritten, database and bucket coming and going, crashes: what is accepted can be built, is whole and can store images but for one value nobody looks at, and the probe answers again whenever the database allows it |

Bounds. Two instances and two jobs are enough for overlapping pages, for partial
claims and for a batch with a rest; two attempts give one retry and one
exhaustion. In `outbox_safety` one of the instances has no key, and refunds are
left to `outbox_live`, where they write the same column; in `outbox_live` and
`outbox_restart` every instance has its key. Two orders are enough for a page
that holds them all (`payments_safety`) and for one that does not
(`payments_live`). Both have one pass at a time and webhooks beside it; that
passes overlap (`internal-orders.controller.ts`) is in the theorems, which are for
any number. `BatchSize`, `MaxAttempts` and `PageSize` are constants of the code (10, 5
and 50) and small here. One product with one variant makes all requests of
`catalog_safety` meet; two paths allow a file and its replacement, or two uploads
at once, and when they are used up (`used`) an upload fails; three paths, a file
and two replacements at once, were checked too (1.9 million states).
`MaxImages` is 10 in the code and 1 here, and two uploads that overlap pass it. `downloads_safety` has one order with one line: links of different lines
never touch each other's rows, and the requests that matter meet on one; a limit
of one use makes two downloads meet at it; two links allow one issue and one
that revokes it; two confirmations are the webhook and a pass. In `sessions_safety` three tokens allow a rotation that is
reused while another session lives; one change of the password is before some
requests and after others. `uploads_safety` has
a maximum of two images, which two overlapping uploads pass by one, and four
objects, so that a drawing or an orphan is there besides; the id of an object
that nothing names any more is used again, so this bounds what exists at once
and not the length of a behaviour. In `breaker` three callers and a threshold of three let a call of
before the opening end after the probe. `startup`: two edits from four
deployments reach every pair of values that any check or constructor compares;
the proof covers any number. Nothing else is bounded. In
`catalog_safety` and `uploads_safety` the clerks and paths, in
`sessions_safety` the tokens and the tabs of one device, in `downloads_safety`
the links, visitors and confirmations, are interchangeable, hence the symmetry
sets; the two instances of `outbox_safety` differ, and the runs with liveness use
none. In `catalog_safety` the removal of a file deletes the object before it
clears the row (`digital-asset.service.ts:83-85`), so a rejected statement or a
crash between the two leaves a row that points to nothing: `RowsPointToFiles`
lets it (`halted`), and nothing else. The systems may stop
(everything settled, nobody buys), so deadlock is not checked.

Fairness. `FairSpec` of `Outbox`: the interval of `outbox.scheduler.ts` starts
runs for ever and time passes; nothing makes a mail succeed, a customer pay or
an administrator retry. `PassFairness`: the timer of
`order-maintenance.scheduler.ts` starts passes, a pass goes on, a checkout ends,
time passes. `WebhookFairness` (only in `DeliveringSpec`): Stripe delivers every
event at least once. `payments_live` does not assume it, so the reconciliation
is shown to be enough by itself - but for what a page hides: a pass takes the
oldest pending orders and leaves those that Stripe has open or unpaid as they
are, so as many of them as fit on a page keep a younger order from being looked
at (`Hidden`; `order-reconciliation.service.ts:76-84`). `CircuitBreaker`: callers try again (the
queue's interval), every call ends by its timer at the latest
(`email.service.ts:139-161`), time passes; nothing makes the service answer.
`Startup`: docker starts what ended (`restart: unless-stopped`) and a process
that boots takes its next step; nothing makes the database or the bucket
answer, and the property assumes that the database stays up in the end.
`Downloads`, `Sessions` and `Uploads` state no liveness: what their requests
leave undone, nobody does later.

Time. There are no clocks. The backoff of a job is a set (`due`) and an order
(`ahead`). In `Payments` an order is fresh, due (35 minutes) or old (30 days);
the guards of `BecomesDue` and `BecomesOld` say what these delays are longer
than: a checkout; a session; the life of a voucher; and whole passes without an
error about the order. Without the last guard a Stripe outage of 30 days deletes
charged orders, which is not taken as a claim of the code.

## 5. Where the code and its comments part

Two runs show a violation of what the repository says of itself, and
`PROJECT.json` quotes the lines: `outbox_restart` (`EveryJobSettles`) and
`payments_refund_lost` (`RefundReachesOrder`). The properties below are stated
in the modules from a comment, and TLC refutes each within seconds when it is
named in the configuration of the passing run of its module, with other
constants where the table gives them.

| Property | Where it is from | What happens |
|---|---|---|
| `Outbox.PaidHasItsDelivery` | `admin-retry.controller.ts:73-74` | the retried job is given up again before the retry writes PAID: the order is PAID and nothing delivers it |
| `Payments.EveryChargeIsRecognised`, with the constants and the specification of `payments_live` | `order-reconciliation.service.ts:28-43` | a voucher that stays unpaid fills the page of every pass, and the payment behind it, whose webhook was lost, is not looked at |
| `Payments.ConfirmedOnce` | `payments.service.ts:89-90` | webhook and pass both confirm; DELIVERED goes back to PAID |
| `Payments.ChargedIsNotPurged`, with `PageSize = 1` | `order.constants.ts:9,22-23` | a page full of unpaid vouchers hides a charged order until the purge deletes it |
| `Catalog.SoldFileIsKept` | `schema.prisma:465-467` | removing or replacing the file of a variant deletes what earlier customers bought |
| `Catalog.ChargedIsNotErased` | `catalog.service.ts:227-230` | deleting a product erases an order that Stripe has charged and whose event is on its way |
| `Catalog.PublishedIsProducible` | `catalog.service.ts:390-391` | `createVariant` checks nothing, `updateProduct` can change the type of what is published, and the check and the publication are two statements |
| `CircuitBreaker.OneProbeAtATime` | `circuit-breaker.ts:16-17` | in "tanteando" every call passes |
| `Downloads.RefundEndsLinks` | `payments.service.ts:180` | links issued by a job or a resend that overlaps the refund stay alive |
| `Downloads.RefundedIsNotPaidAgain` | `payments.service.ts:89-90` | a confirmation that had read the order as pending writes PAID by id over REFUNDED, and a resend then issues links |
| `Downloads.OneLiveLink` | `digital-delivery.service.ts:72` | two issues that overlap each revoke what they saw, and leave a link each |
| `Sessions.OneLiveTokenEach` | `schema.prisma:184-185` | two tabs that refresh at once get a token each |
| `Uploads.PublishedNeverEmpty` | `product-images.service.ts:174-175` | two deletions count the image of the other; or a publication overlaps a deletion |
| `Uploads.PositionsDiffer` | `product-images.service.ts:65-74` | two uploads at once take the same `sortOrder` |
| `Startup.NoUploadFindsItOut` | `env.validation.ts:56-57` | an `S3_PUBLIC_ENDPOINT` in quotes, or that is no URL, is accepted, and every upload of an image fails |
| `Startup.ReadinessTellsTheTruth` | `health.controller.ts:42` | the answer about the images is the one of the boot; `storage.service.ts:209-212` promises 503 "until it is restored", but uploads do not look at `reachable` and it never turns true again |

Some properties hold only because they say what they leave out, and what they
leave out happens. `EndedStaysEnded` and `PasswordEndsSessions` do not count
requests in flight: a refresh or a login that read its row before a logout, a
closing of all sessions (`auth.service.ts:200`) or a change of the password saves
a new session after it, which lives on; and access tokens, which no table keeps,
outlive them all, although `set-admin-password.ts:60-61` says that whoever came in
with the old password loses access. `LoneTabStaysIn` does not speak of a device
that lost an answer, whose tabs share a cookie or whose token was stolen: a token
of theirs that comes back closes its own session and everybody's. `DoneWasDelivered`
takes the log of an instance without `RESEND_API_KEY` for a mail: nothing was
delivered and the job is DONE, the outcome that `email.service.ts:98-100` gives as
the reason for throwing when a mail fails (a buyer "without a mail and without a
trace of the failure").
`RowsPointToFiles` lets a removal be cut short: `digital-asset.service.ts:83-85`
deletes the object first, the order that `catalog.service.ts:245-247` argues
against. `PublishedShowsAnImage` speaks of one deletion or publication at a time.

What else the models contain and no property is about: a confirmation mail that
is given up marks the order NEEDS_REVIEW, and the delivery of the same batch
overwrites that with IN_PRODUCTION (`outbox.service.ts:317-319` says the
exhausted job is not forgotten); two instances that read overlapping pages can
claim a part each, after which both discard their batch (`outbox.service.ts:155`)
and the claimed rows stay PROCESSING; for the breaker an answer of the mail
provider that is an error is a success (`email.service.ts:119-133`); a product
can have images and no primary one; `deleteNote` deletes the drawing before the
note (`admin-notes.service.ts:82-86`), the opposite of what
`catalog.service.ts:245-247` reasons for products; `docker-entrypoint.sh:36`
strips the quotes of "all the variables the backend reads" but not of the
`S3_PUBLIC_*` credentials and endpoint nor of the reconciliation's settings; a
`SUPABASE_URL` of another scheme is accepted and ends every boot
(`AcceptedIsWhole` names it); and a `DATABASE_URL` that is no URL is accepted and
refused by `prisma.service.ts:63-72`.

## 6. Proofs

`OutboxProofs` proves, for every set of orders, messages and instances, every
batch size and number of attempts and every kind of fault, from the assumptions
`StoreAssumption` and `OutboxAssumption`:

- `TypeCorrect`, `ClaimsAreExclusive`, `AttemptsAreRespected`,
  `DoneMeansDelivered`: the invariants of `outbox_safety`;
- `SettledJobsStay`: its action property;
- `OutboxImplementsLedger` (with `LedgerAssumption`):
  every step of the outbox is a step of `JobLedger` or changes nothing of it.

The argument is one inductive invariant, `IInv`. `ClaimIsExclusive` needs to
know that the job in hand is not in the batch any more and which steps have one
(`RunShape`); `AttemptsMatchStatus` needs that a held job is PROCESSING
(`ClaimIsExclusive`), and the type of `attempts` needs that such a job has an
attempt left; `DoneWasDelivered` needs what each step has achieved
(`RunProgress`; where all instances have a key, that is a mail), which for a deleted message needs that jobs exist only for
saved messages (`MessageBeforeJob`). `QueueSteps`, `RunSteps` and `PastIsKept`
say which steps can disturb what, and `JobMoves` lists everything that can
happen to a job; the other lemmas use them instead of going through all actions.
For the refinement, `ClaimIsExclusive` makes `Holder` a function of the runs
(`HolderIs`), and `LedgerStep` names, for each action, the step of the ledger it
is and how `Holder` changes; a claim that takes only a part of its page is
`Take` by nobody.

`BreakerProofs` proves `TypeOK` and `ClosedIsBelowThreshold` of the breaker, for
any callers and threshold (`BreakerAssumption`). The two are inductive together:
`Success` and `Failure` say what the end of a call leaves, whatever state the
call began in.

`StartupProofs` proves `TypeOK` and `AcceptedIsWhole`, for whatever environments a
deployment starts from and any number of edits. The invariant adds that a process past the
validation has an environment it accepts, and one that was built an environment
its storage takes (`PastValidation`), since an edit makes the container again;
`AcceptedCanBeBuilt`, `AcceptedHasNoHalves` and `AcceptedCanStore` then speak of
the environment alone, with no type of its values: the defaults of the
validation and of the constructors agree for every value. The exceptions are in
the statement: a `SUPABASE_URL` of another scheme ends the boot, and an
`S3_PUBLIC_ENDPOINT` that is no URL is found out by the first upload.

`PaymentsProofs` proves, for any orders, passes, page size and kinds of fault,
`TypeOK`, `ConfirmedWasCharged`, `ChargedIsNotCancelled`, `ChargedIsNotPurged` and
`KeepsThePromise` (every step is a step of `OrderSale` or changes nothing of it).
Nothing is read and acted on in one step, so the invariant `SaleInv` says why what
was read is still good: an event that has a row was emitted (`EventsAreTrue`);
what Stripe answered to a pass still holds when it acts, since "paid" and
"expired" are final (`PassesAreTrue`); and a cancelled order has a session that
nobody can pay any more, or none (`CancelledForGood`), without which a payment
after the cancellation would break `ChargedIsNotCancelled`. The purge adds
`KeepInv`: a charged order that a pass set out to see is still ahead of it or was
recognised (`ChargedIsSeen`), and what is old was seen (`OldIsOver`). This part, and
so the refinement, assumes `[]PageIsEnough`: what is overdue fits on one page of
the reconciliation. The code orders a page by age and takes 50
(`order-reconciliation.service.ts:81-82`), and with more unpaid vouchers than places a charged
order behind them is not looked at; with `PageSize = 1` TLC finds the purge that
deletes it (section 5), so the assumption cannot be dropped. Runs with as many
places as orders satisfy it in every state.

`SessionsProofs` proves `TypeOK`, `PasswordEndsSessions`, `LoneTabStaysIn` and
`EndedStaysEnded`, for any devices, tabs, tokens and changes. A request that has
read the password knows the current one or was overtaken
(`RequestsKnowThePassword`); the token of a device that was not stolen from is
known to no other (`OneDeviceEach`), so that a reuse by another closes all
sessions, which excuses every device, or does not touch its own; a token on its
way to a device is new to everybody (`AnswersAreNew`), so that a theft cannot have
taken it yet; and a device without an excuse has one request, which ends with a token that
works (`LoneRequests`).

`DownloadsProofs` proves `TypeOK`, `UsesAreCounted`, `LineKeepsALink`,
`RefundedStaysClosed` and `RefundEndsDownloads`, for any orders, lines, links,
visitors and any limit. `UsesAreCounted` is by the cardinality of the downloads
that are counted and not handed out. The refund rests on `QuietOrders`: of an
order whose refund found it settled nobody issues links, and no confirmation is
left that would write PAID; until the refund ends, it has seen all that work, and
then the order is no longer bought. The invariant
also needs that whoever issues saw links of its own order alone (`IssueShape`).

`CatalogProofs` proves `TypeOK`, `SweptFilesAreUnsold`, `SalesAreKept` and
`RowsPointToFiles`, for any products, variants, orders, paths and clerks. The
invariant is about who knows a path: a new one is known to nobody else
(`NewIsUnknown`), two variants never share one (`OneFileEach`), what a request is
about to delete is in no row (`OldIsLeft`), and a line's file is of its variant or
of none (`LinesHaveTheirFile`). `DeletedAreOver` carries the argument of
`deleteProduct`: the paths it read before its transaction are of its own product,
and after the transaction no line is left that has them. `RowsPointToFiles` is
proved for every kind of fault; `ClearEnds` and `HaltedStays` say that a removal
that leaves its row behind has put the variant in `halted`.

`UploadsProofs` proves `TypeOK`, `ImagesWithinReach`, `RowsHaveObjects`,
`OrphansAreAccountedFor` and `PublishedShowsAnImage`, for any number of requests,
any objects and any maximum. `ImagesWithinReach` is not inductive: an upload that
has counted adds its image whatever the others did meanwhile. `ReachOfUploads`
counts the uploads between the count and the row along with the images; the last
one to count found room, and all the others may be on their way. The primary
image is one at most because the successor that a deletion chose is another one
than what it deletes (`DeletionsKnow`). For the objects, what a request brings is
known to it alone and already stored (`BroughtIsNew`), what it deletes is in no
row (`DeletionsKnow`), and `ObjectsAreKept` says that a request gives up an object
only to a row, to another step of its own, to the bucket's deletion or to `left`.
A note in `broken` is one whose file is gone and whose deletion was given up; a
deletion puts it there whether its call to the bucket or its last statement
failed (`PastMoves`). `PublishedShowsAnImage` needs `LoneSeesTrue`: while no two publications and
deletions overlap, what one of them saw of the images is still so. In each of
these modules, lemmas like `TasksMove`, `ImagesMove` and `ObjectsMove` list once
what any action does to one part of the state; the steps of the invariant use them
instead of going through all the actions again.

`CommitLinks` gives each line a new link by an injection, so that the proofs know
that no two lines get the same one.

Only model-checked. Liveness under fairness (`EveryJobSettles`, `PaidOrderMovesOn`,
`ChargedIsRecognised`, `AbandonedIsClosed`, `SilentServiceIsCutOff`,
`ServiceIsUsedAgain`, `ServesWhenItCan`) is out of the prover's reach, as is what
needs ENABLED. The two violated properties are refuted by TLC. Every
assumption on a constant that a proof uses is evaluated by a run.

## 7. Not modelled

The texts of mails and logs, prices and amounts, addresses, the statistics and
lists that only read, and the components marked `not_modelled` in
`PROJECT.json`: they keep no state, or change it by one statement per request,
or are scripts that somebody runs by hand outside the program.

- `Outbox`: a database that applies the update to DONE and answers with an
  error, and two retries of one order at the same time.
- `Payments`: partial refunds, which the handler ignores, and events without an
  order, which it logs.
- `Catalog`: transactions are one step, so two of them that each look only at
  what the other changes (READ COMMITTED allows it) are not interleaved:
  `PublishedIsProducible`, which does not hold anyway, could tell, and the number
  of images left on sale, which `Uploads` has step by step. The count of an upload
  and its row are two steps, and nothing bounds the number here:
  `ImagesWithinReach` of `Uploads` does. Cascades of an erased order (its events, jobs and links) and the
  statistics that count it.
- `CircuitBreaker`: the count of failures above the threshold, which nothing
  reads.
- `Downloads`: `findByToken` only reads; the signed URL, once handed out, is out
  of the backend's control (`HandFile`).
- `Sessions`: access tokens, which no table keeps: a change of the password asks
  for one and may come from a device whose cookie is gone (`ChangeCheck`); and
  the limit of requests that locks out a guesser.
- `Uploads`: the checks of type and size of a file, the positions of what is not
  an image, the text of notes.
- `Startup`: intervals and mail settings, CORS, the API's documentation, the
  migrations and the pipeline, strings of blanks, and credentials that are set
  and wrong. That Node ends a process
  whose `listen()` was rejected, with no socket and only timers that were
  `unref`'d, is taken from `outbox.scheduler.ts:59-61`,
  `order-maintenance.scheduler.ts:99` and the documentation of Node.
