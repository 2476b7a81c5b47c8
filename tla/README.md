# cpay in TLA+

A verification development for the payment backend: TLA+ models of its
services, TLC runs on small instances, and TLAPS proofs for all instances.
Paths below are relative to the repository; line numbers are in `PROJECT.json`
("map").

    tlasany Checkout.tla                                             parse
    tlc -workers 2 -config CheckoutCalls.cfg MCCheckoutViews.tla     check one run
    tlapm CheckoutProofs.tla                                         check the proofs

| module | what it is | proofs |
|---|---|---|
| `PayoutLedger` | abstract: what merchants are told about bills, sweeps and payouts | |
| `PayoutScheduler` (implements `PayoutLedger`) | the payout worker, any number of replicas, with the chain it sweeps on | `PayoutSchedulerProofs` |
| `Pricing` | the pricing rules, as operators | |
| `Quote` (extends `Pricing`) | price sources, a quoted amount, and its being paid | `ServicesProofs` |
| `Checkout` (extends `Pricing`) | one checkout session and everyone who assesses it | `CheckoutProofs` |
| `CheckoutViews` (extends `Checkout`) | those who look at that session meanwhile | `CheckoutProofs` |
| `EventDelivery` | abstract: what the outbox promises to its listeners | |
| `OutboxRelay` (implements `EventDelivery`) | the outbox and the replicas that empty it | `OutboxRelayProofs` |
| `Webhooks` | deliveries of webhook-service, attempts and retries | `DispatchersProofs` |
| `Emails` (on `EventDelivery`) | notifications of email-service over NATS and by polling | `DispatchersProofs` |
| `MockTransfers` (on `EventDelivery`) | simulated transfers from the request to the confirm | `DispatchersProofs` |
| `Subscriptions` | subscriptions, cycles and vaults, RPCs and scheduler | `WorkersProofs` |
| `Access` | bootstrap, tokens and API keys of auth-service | `GatewayProofs` |
| `Gateway` (extends `Access`) | authenticated and idempotent calls, overlapping | `GatewayProofs` |
| `Routes` | every creating and changing route, with lost answers and repeats | `GatewayProofs` |
| `Catalog` | products, images and payment links of a merchant | `SessionsProofs` |
| `Sessions` (extends `Catalog`) | sessions of links, conversion events, statistics | `SessionsProofs` |
| `Storefront` (extends `Sessions`) | the customer's way from a page to a session | `SessionsProofs` |
| `Listings` | lists read page by page while they change | `ServicesProofs` |

`MCPayoutScheduler`, `MCCheckout`, `MCCheckoutViews`, `MCWorkers` and
`MCServices` give TLC its instances. The last two put several modules next to
each other, one behaviour exercising one of them, so that their runs answer for
one layer of the system each; `WorkersProofs` and `ServicesProofs` also prove
that these compositions have the invariants of their parts.

## Inventory

The system is a set of Go processes around one Postgres database and a NATS
server. Every process may run in several replicas; they share nothing but
rows, NATS messages and the chain.

| component | state | operations | must hold |
|---|---|---|---|
| payout worker (`workers/payout_scheduler.go`, `payout_executor.go`) | `payouts`, `payout_items`, `payment_intents.status`, `deposit_addresses.status`; in memory the batch and the current item | every tick: schedulePayouts, completeDuePayouts, processPayout, executor, completePayoutItem, markItemFailed, finishPayoutIfComplete, markPayoutRetry | nothing is settled that was not swept; a completed payout swept its items; one event per completion; what has an item is swept in the end |
| checkout service (`checkoutsvc/service.go`) | `checkout_sessions`, `payment_intents`, `chain_transactions`, `invoices` | createSession, price lookup, ConfirmCheckoutSession, reads | session and intent agree; an intent counts what was sent, once; one invoice; no session of a closed link |
| pricing rules (`domain/payment/pricing.go`) | none | ComputeBounds, ResolveIntentStatus, IntentStatusIsPaid | confirmed = within the tolerance; paid is monotone |
| chain observer (`workers/chain_observer.go`) | none of its own: reads and writes the checkout tables | receipt loop, deposit loop with expiry | a transfer is found and followed; overdue intents expire |
| gateway (`gateway/`) | `idempotency_keys`, `conversion_events`, products, object store | HTTP handlers over RPC, idempotency, statistics, pages | a retried request runs once, overlaps apart; an answer is that of its own request; a page differs from the next one only after an edit, or by terms that it does not show |
| mock transfer indexer | none | NATS message to confirm | what is recorded was requested; a request is forgotten only for a reason |
| outbox (`platform/outbox`), relay (`workers/outbox_relay.go`) | `outbox_events` | EnqueueTx, Enqueue; publish, mark, back off | every committed event is published at least once, again only after a failure |
| webhook dispatcher | `webhook_deliveries` | on event, retries | a delivery is retried up to its limit, and stranded only by a crash or a lost update |
| email dispatcher | `email_notifications` | on event, polling | at most one mail per event and recipient, one in the end |
| subscription scheduler and RPCs | `subscriptions`, `subscription_cycles`, `vault_authorizations` | create, pause, resume, due cycles | a vault pays once per cycle; paused is not charged |
| payment links (`paymentlinksvc`) | `payment_links`, `link_options` | create, update, archive, read, list | what is announced can be read; archived stays so |
| auth service | `users`, `merchants`, `api_keys` | bootstrap, login, refresh, keys | one bootstrap; nobody new gets in with a revoked key |
| catalog (products, in the gateway) | `products`, images, default links | create, update, delete, upload | a shown image is stored; a product without a link costs a failure |
| deposit wallets, migrations, configuration, legacy API, generated code | keys, start-up | see "Not modelled" | - |

Interaction. Handlers and workers write their events into the outbox in the
transaction that makes the change; the relay publishes them to NATS; webhook
and email dispatchers and the indexer subscribe. Checkout service, observer
and payout worker never call each other (the observer calls
ConfirmCheckoutSession in-process): they meet in `payment_intents`, which all
of them update without a condition on what the others wrote. The gateway
calls the services over RPC and has tables of its own; a request is a chain
of separate statements there, with other requests between any two of them.

What is hard here:

- several writers of one intent under READ COMMITTED, aggregates that are
  computed before and written after another commit;
- row locks that end before the work they were taken for begins
  (completeDuePayouts), and selections that lock nothing (webhooks);
- external effects (sweep, NATS publish, mail, webhook, object store) between
  or inside transactions, with crashes and lost replies on either side;
- loops that select by status: a row whose status moves out of the selection
  at the wrong time is never looked at again;
- answers looked up before and stored after the operation they stand for;
- checks of a link in one statement after the other, before the commit they
  are made for; pages of two queries;
- statements whose errors are ignored.

The list at the line where each one bites is "hazards" in `PROJECT.json`.

## PayoutScheduler

One step per database transaction, executor call or in-memory decision.

| model | code |
|---|---|
| `ListGroups`, `SchedulePayout`, `SkipGroup` | schedulePayouts: the group query, the transaction of a group, its failure |
| `CompleteDuePayouts`, `DueQueryFails` | completeDuePayouts up to its commit |
| `LoadItems`, `StartItem`, `PrepareFails` | processPayout: the item query; per item the prerequisites and `processing` |
| `ExecutePayout`, `ExecuteFails` | EVMPayoutExecutor.ExecutePayout: estimate, broadcast |
| `CompletePayoutItem`, `PersistFails` | completePayoutItem; an error may come before or after the commit took effect |
| `MarkItemFailed`, `LoseItems`, `FinishPayoutIfComplete`, `FinishFails`, `MarkPayoutRetry` | the functions of these names and the error paths around them |
| `Crash` | the process dies anywhere in a pass; locals are lost |
| `Deposit`, `Mine`, `AssessIntent`, `ExpireIntent` | customers, the chain, and the other writers of `payment_intents` |

A payout's total is the set `counted` of intents whose amounts went into it;
an item is the intent it pays (the column is UNIQUE); the events of the outbox
are counted per payout. `sent` and `mempool` are history and environment: how
often a sweep of an address was broadcast, and which of them are not mined.

`PayoutLedger` is what the worker is for, without workers: `Bill` a payout of
intents that no payout owes, which it owes all or, where the driver refuses the
items, none of; `Sweep` what is owed, `Settle` what was swept, `Announce` a
payout once, when all it owes was swept. `Reopen` is there because a late
assessment may take "settled" back; that it does not lead to a second item is
part of the promise. `PayoutScheduler` implements it (`ImplementsLedger`) with
the items of a payout (`Owed`), the intents that were ever swept and that are
settled now (`Swept`, `Settled`), its totals and its events; passes, retries and
replicas are hidden.

`NestedExec` is the one unusual constant. schedulePayouts, completeDuePayouts
and ExpireOldIntents run statements on a transaction while rows of that
transaction are open, and drop the error. With pgx v5 such a statement fails
("conn busy") without reaching the server, so `{FALSE}` is what the driver
does; `{TRUE}` is what the code means; `{TRUE, FALSE}` covers both. Every
passing run has both outcomes, in each transaction anew, and every theorem holds
for both: no property that passes rests on the inserts taking effect.
What does rest on them, and what documents say all the same, are the three runs
`payout_busy`, `checkout_busy` and `subscriptions_busy`, which have the driver's
outcome and fail ("What goes wrong"). With that outcome alone no item is ever
inserted, and what is said of items holds because there are none; the other
outcome is kept for what the code does once the rows are closed first.

Left out: `attempt_count` and `error_message` (no behaviour depends on them),
the wording of hashes, MockPayoutExecutor, gas funding (its failure is an
executor error). The executor does not wait for a receipt, so neither does
the model. Single statements outside a transaction whose error is ignored
(marking an item) are taken to succeed; `LoseItems` and `Crash` cover the
connection that breaks. A deposit that arrives after scheduling is not swept,
as in the code, where an item's amount is frozen.

## Pricing and Quote

float64 amounts that are rounded to eight places are integers in units of
10^-8, a tolerance is in basis points. The rounding is modelled (`Rounded`,
halves up); binary representation errors below half a unit are not. Expected
amounts and tolerances below zero are clamped as in the code; a tolerance may
exceed 100%.

`Quote` starts where a session gets its price: `TokenPrice` asks the sources of
a token in turn (a later one only if the earlier ones have no price), with any
answer of each, and `SettlementAmount` rounds what comes out; only dollars are
quoted. `Proposed` is what browserWalletTransaction asks of a wallet, in base
units of the token, and `BaseUnits` what the payout executor can represent.
Money arrives one unit at a time, so that every amount and depth is met.

## Checkout and CheckoutViews

| model | code |
|---|---|
| `Init` | createSession has committed |
| `ReportTransfer`, `BeginConfirm`, `CommitConfirm`, `AbortConfirm` | ConfirmCheckoutSession: upsert and aggregate; the updates, events and commit; failure or death |
| `Upsert`, `Assess`, `WriteVerdict` | the upsert, the aggregate with its status, the updates |
| `InsertInvoice`, `EnqueueInvoice` | what follows the commit, a transaction each |
| `SelectRecorded`, `PollReceipt`, `EndPolling` | the observer's loop over recorded transactions |
| `ExpireOldIntents`, `SelectDeposit`, `ReadBalance`, `ConfirmObservedBalance`, `ScanLogs` | the observer's loop over deposits |
| `CancelSession` | the conversion handler's checkout_canceled |
| `Settle` | completePayoutItem, as far as a session sees it |
| `Transfer`, `Block`, `TimePasses` | the customer, the chain, the clock |
| `ReadSession`, `HandleGetPublicCheckoutSession` | the two queries of the public page |
| `HandleGetCheckoutSession`, `HandleGetPaymentIntent` | the merchant's queries, one statement each |

A confirm is two steps. In the first it has written its `chain_transactions`
row (invisible to others, but its hash is locked) and computed the verdict
from that row and the committed ones; in the second it commits and overwrites
intent and session. Between them anyone else may commit: this is exactly what
READ COMMITTED allows, and no read of the code lies elsewhere. A caller's
values between steps (request, verdict, polling, balance) are what the code
holds in local variables, stale when used.

Hashes are numbers in the order of the transfers. Depths count up to
`Required`, beyond which the code does not distinguish them. The receipt loop
computes them from the latest block of its pass, read once per chain and kept
(`latest`), while the chain goes on. `TrueReports` tells whether clients only
report transfers that happened, with the depth they have now or had earlier; the
API accepts anything. The runs use true reports; the theorems about money assume
them, the others do not. `credited` is history: the deposit loop has counted
what it found at an address, which it reports as fully confirmed whatever its
depth (chain_observer.go:415). From then on the rows do not tell what an intent
is paid with, and the properties about money say so.

Left out: the 36-hour window and LIMIT 100 of the observer's queries (one
session); log scanning in several chunks; receipts of failed transactions;
tokens in the address before the session; negative amounts. `CancelSession` is
one step, as it is one guarded UPDATE, whose guard Postgres evaluates again
when a commit to the session's row came between.

## OutboxRelay and EventDelivery

`Enqueue` is a committed transaction that wrote an event. `SelectBatch` is
the FOR UPDATE SKIP LOCKED query of one of the `Relays`: due rows that nobody
else has locked, oldest first, up to the limit. `PublishEvent` and
`RefuseEvent` publish one event and mark it, or fail to and set its back-off;
`MarkPublishedFails` and `MarkFailedFails` are the statement's failure, which
ends the pass with a rollback; `CommitBatch`, `CommitFails` and
`RelayCrashes` end it otherwise. NATS keeps nothing for a subscriber that is
away, and Publish only hands a message to the client's buffer.

`EventDelivery` is the promise in two actions, `Commit` and `Deliver`, with
fairness of the first delivery. `OutboxRelay` implements it under the obvious
mapping (committed rows, events published at least once). `Emails` and
`MockTransfers` use its actions as their source of messages, so that each
composes with what the relay is shown to do instead of with the relay.

## Webhooks, Emails, MockTransfers

`Webhooks` has a thread for the NATS callback and one for the ticker in each
dispatcher. `HandleIncoming`, `InsertDelivery`, `ProcessScheduled`,
`NextScheduled`, `Post`, `DecryptFails` and `UpdateDelivery` are
handleIncoming, the insert, the query of due deliveries, deliver with its
request and the update of its outcome (`Outcome` is scheduleFailure's
decision). `UpdateLost` is an update whose ignored error left no trace,
`LoseMessage` a message no dispatcher was there for.

`Emails` has the same two threads, and both end in `HandleEvent`,
`ReserveNotification` (the INSERT ... ON CONFLICT that decides who sends),
`Send` and `MarkNotification`. `DispatchOutboxEvents` polls the newest
`PollLimit` events, published or not.

`MockTransfers` follows a request from `CreateMockTransfer` (the gateway's
validation and defaults), over the relay, to `ProcessMessage` and the confirm
(`ConfirmTransfer`, `ConfirmIsForgotten`), which here is the upsert of a hash;
what else a confirm does is in `Checkout`.

## Subscriptions

`CreateSubscription`, `PauseSubscription`, `ResumeSubscription` are the RPCs;
`BillingDateComes` lets time pass. A pass of the scheduler is `SelectDue`, which
locks cycle, subscription and vault, and `CommitPass`, where `Charge` pays or
fails each cycle and inserts the next; `AbortPass` is its rollback. `nestedExec`
is either outcome of a statement while rows are open, as in `PayoutScheduler`:
with the driver's "conn busy" a pass leaves nothing behind. `BillingIsExact`
does not depend on which; that a due cycle is processed (`DueIsProcessed`) is what
README.md:85 says, and fails (run `subscriptions_busy`).

## Access, Gateway, Routes

`Access` is EnsureBootstrap in two steps (count, then insert), Login, Refresh,
the API key RPCs and the settings. Tokens are records with an expiry on a
clock. `Gateway` adds the calls: `AuthenticateUser` and `AuthenticateKey`
admit, `LookUp`, `Run` and `Store` are the three statements of withIdempotency
around an operation, and `CallFails` the errors between them; two callers meet
at one key. CreateApiKey stands for the operations, as withIdempotency does
not look at what it wraps.

`Routes` looks at what it wraps: the keyed and the changing routes (links,
sessions of merchants and of the public, subscriptions, webhook endpoints;
update, archive, pause, resume), their events and clicks. A request may be asked
again at any time with the same header, also while calls that serve it are under
way. A call of a creating route goes through `LookUpAnswer` (or `Replay`), its
transaction, `RecordCreation` where the event follows the row, and
`StoreAnswer`; a call for a session through `CheckLink` and, later, the commit
of `CreateSession`. `LoseCall` is the error or death of a call between any two.
`Scope` is the key the gateway builds: merchant, route with a literal ":id",
header. History tells what the properties need to be exact: `raced`, whether
another call of the scope was under way at a look-up; `late`, whether a session
was committed for an archived link; `closing`, how many calls had checked a link
when it was archived.

## Catalog, Sessions, Storefront, Listings

`Catalog`: a product request of an editor is as many steps as it has
statements (`CreateProduct`, `CreateDefaultLink`, `CreateOptions`;
`UpdateProduct`, `UpdateTokens`; `StartUpload`, `PutImage`, `ShowImage`), and
`EditorFails` may come between any two. Links are created, updated and archived
by paymentlinksvc in one transaction each. A link's terms are a record in which an
optional column is a set of at most one value.

`Sessions`: a buyer in createSession is at one of its checks (`LoadLink`,
`CheckReusable`, `CheckLimit`, `CheckPrice`) and finally commits an order
(`CommitSession`). Meanwhile links are edited and orders are paid, fall back,
settle or expire, as `Checkout` has them. `RecordEvent` is a conversion event;
the handler of checkout_canceled is `CancelCheckout`, the guarded UPDATE, and
`RecordCancel`, the INSERT, which `CancelFails` (or a crash before it) may keep
from happening. `CountEvents` and `CountOutcomes` are the two queries of the
statistics.

`Storefront`: the page of a product (`HandleGetPublicProduct`), which shows the
product's amount and its link's tokens, that of a link (`LinkPage`: mode, amount
and tokens, no adjust_percent, bounds or limits), an image, and the request for
a session, which charges what createSession computes, one after the other, with
the editors' steps between. `PriceOn` is what a customer would take the price to
be; each step compares what it finds with what the step before showed. `edited`
remembers whose amount was changed.

`Listings`: rows with one order (created_at descending), inserts that begin
before they commit, deletes, and a reader who asks for page after page
(`HandleListPayments` and the others, with their ways to clip a limit, to
count and to tell the reader there is more).

## Runs

Each finishes within four minutes on two cores.

| run | instance | question |
|---|---|---|
| `payout_worker` | one worker, two intents in one group, two payout ids, both outcomes of the inserts, one failure of any kind, fairness | can a failure or crash anywhere complete what was not swept, sweep twice too often or after settlement, or leave an item unswept for ever? |
| `payout_replicas` | two workers, one intent, two payout ids, both outcomes, locks held by others, reports without cover, one crash, refused call or failed commit | is the ledger kept when two replicas process one payout, in any interleaving? |
| `checkout_calls` | two callers, two true transfers, expiry, cancellation, settlement, invoice, and one failure, the receipt loop or one viewer | do session, intent, events, invoice and page stay consistent, and is money counted once? |
| `checkout_deposits` | both loops, two transfers of 1 to 3 at a price of 2, expiry, two failures, fairness | does the deposit loop find what nobody reports, also after expiry, and count it once? |
| `checkout_reported` | a client, both loops, one transfer, depth two, one failure, fairness | is what was reported too early followed to its depth, and who may make it paid before? |
| `workers` | two relays and three events; two dispatchers, one endpoint, three attempts, two failures; two events to mail with a poll of one; two transfers; two subscriptions, two schedulers, three cycles; one failure each, fairness | what may the background services lose, double or overtake, and what ends well all the same? |
| `services` | two replicas, callers, editors, buyers; two merchants, keys and orders; one link, product and image; one failure per module; three requests and items, two calls at once; lists of four rows; prices 0, 1, 7, 40 with tolerances from below zero to above 100% | what can requests that overlap, are repeated or fail in the middle do to each other? |
| `payout_busy`, `checkout_busy`, `subscriptions_busy` | the driver's outcome, one actor, no failure but one in `checkout_busy` | is what README.md:83-85 says of payouts, expiry and billing true of the driver? (no) |
| `checkout_lost_update`, `checkout_unsettle` | two callers; one caller and a payout | do amounts add up, does settled stay? (no) |

Why the bounds are enough: two callers are enough for every lost update and
every race to a row, as each race is between one who holds something stale and
one who commits; two transfers tell a sum from its parts; two intents make a
payout that succeeds in part; one failure can hit every step of every schedule
(two where the failures of a retry matter: a delivery that is stranded while
another one's update is lost). Amounts 1, 2 and 3 at a price of 2
are partial, exact and overpaid. Three events and a batch of two make one that
waits; three attempts are a first one, one that a ticker makes and schedules
again, which two dispatchers may do behind each other's back, and a last one; a
poll of one event among two is
a window that one falls out of; three cycles are one that has a predecessor and
a successor. Three requests are a link, and two for sessions of it or changes
to it, or two under one header; two calls at once are two that miss each
other's answer, or two that have both checked a link when it is archived; two merchants tell a scope with the merchant from one without;
pages of one to three rows of four have a first, a middle and a last one. For
the proved properties the bounds do not matter.

`MCWorkers` and `MCServices` choose one module per behaviour, since the modules
in one of them share no state (the merchant is the same everywhere): running
two at once would only multiply states. What does meet is composed:
`Storefront` runs the steps of `Sessions` and `Catalog`, `Gateway` those of
`Access`, `CheckoutViews` those of `Checkout`. `MCServices` also keeps the
instances small where a module alone is too large: sessions are checked
without conversion events; statistics with one buyer at a time, of a link that
is not edited, and asked for once; the gateway's calls with one replica of
auth-service up and one login; the storefront with one product request under
way, which does not fail half-way (in the catalog it does); routes with requests
that differ, of which the last one names an item, with a session as the last
item, and with calls at once of one route only. In `MCCheckoutViews` a behaviour
has, besides the clients, failures, the receipt loop or a viewer (`company`),
and passes of the deposit loop that expire nothing are skipped;
`checkout_reported` has failures and both loops together. `workers` and `services` do not
check deadlock, because their behaviours end: the events, rows and requests of
an instance run out.

Safety properties that answer one question are parts of one conjunction, which
a run checks; the parts are named and commented next to it, and the theorems
speak of both:

| checked | parts |
|---|---|
| `SettlementIsReal` (PayoutScheduler) | `SettledWasSwept`, `OneCompletionEvent` |
| `PaidIsToldOnce` (Checkout) | `PaidIsAnnounced`, `OneInvoice` |
| `ViewIsTrue` (CheckoutViews) | `ViewIsCovered`, `ViewIsConsistent` |
| `PublicationsAreCounted` (OutboxRelay) | `MarkedWasPublished`, `RepeatsNeedFailure` |
| `StatusIsTrue` (Webhooks) | `GivesUpAfterMaxRetries`, `DeliveredWasAccepted`, `StrandedCostsFailure` |
| `MailsAreCounted` (Emails) | `AtMostOneMail`, `SentWasMailed`, `UnmailedCostsFailure` |
| `RequestsAreRecorded` (MockTransfers) | `RecordedWasRequested`, `ForgottenCostsFailure` |
| `BillingIsExact` (Subscriptions) | `CyclesInOrder`, `VaultIsConserved` |
| `ProductsAreWhole` (Catalog) | `HalfMadeCostsFailure`, `ImageIsStored` |
| `AccessIsLimited` (Gateway) | `BootstrapHappensOnce`, `LateUsesWereAdmitted` |
| `QuoteIsHonored` (Quote) | `ConfirmedIsWithinTolerance`, `WithinToleranceIsAccepted`, `ProposedIsAccepted` |
| `PageIsHonored` (Storefront) | `SurpriseCostsChange`, `ShownImageIsFetched`, `AnnouncedIsReadable` |
| `ListIsReadOnce` (Listings) | `MissedCostDeletions`, `RepeatsCostInserts` |
| `RepeatsAreHarmless` (Routes) | `AnswerIsOfRequest`, `RetriesCostFailures`, `AnnouncedOnce` |
| `TypesOK` | the type invariants of the modules of `MCWorkers` and `MCServices` |

Symmetry is over the callers, keys or workers and only in runs without
temporal properties other than action properties.

Fairness. `PayoutScheduler`: weak fairness of `Work(w)`, because a ticker
starts pass after pass and no step of a pass waits for anyone; `Mine(i)`,
because a broadcast sweep is mined. `Checkout`: strong fairness of the two
loops, which their tickers restart for ever; it is strong because a step may
find the row of its hash locked by a caller again and again, and Postgres
serves waiters on a row lock in order. Weak fairness of a call that has begun
(it ends) and of `Block`. `OutboxRelay` and `Emails`: weak fairness of each pass
or thread (their tickers and callbacks run on while the process does), and of
time that makes a back-off elapse. `Webhooks`: of what the ticker of each
dispatcher does and of time; a callback need never end. `Subscriptions`: of a
pass's beginning in some scheduler and of its end. The promise of a first delivery in `EventDelivery` is
one that `OutboxRelay` is shown to keep under this fairness
(`ImplementsDelivery`). No failure is ever fair. Nobody is obliged to report,
transfer, cancel, settle or let time pass, and no client to call.

Seeded faults. Operators commented "Seeded fault" are variants of the
definition after them with a plausible mistake (a lost condition, an ignored
error, an unguarded update). They are used nowhere. Putting one in place of
its original must make TLC report the property named with it under "mutants" in
`PROJECT.json`, which shows that the property tells the two apart.

## What goes wrong

Five runs expect a violation, each a disagreement between code and
documentation or tests (`PROJECT.json`, "findings"). Three are about the driver,
which refuses a statement ("conn busy") while rows of its transaction are open;
the code drops the error:

- `payout_busy`: a payout gets a total and no items, completes at once and
  announces the total, which nobody was paid.
- `checkout_busy`: ExpireOldIntents commits and expires nothing
  (README.md:83 "expires stale pending payment intents").
- `subscriptions_busy`: a pass charges nothing and its cycle stays due
  (README.md:85 "processes due cycles against prepaid vault balances").
- `checkout_lost_update`: two overlapping confirms; the intent's amount lacks
  one of the recorded transactions.
- `checkout_unsettle`: a confirm after the payout makes a settled intent
  confirmed again. The item is completed and UNIQUE, so it is not paid twice.

The rest contradicts no document, but is why instances and properties are what
they are.

Payouts, where the inserts take effect. A crash between broadcast and
completePayoutItem, or a commit there that is lost, leaves an item that is
retried against an address already empty, for ever (`ScheduledIsSwept` asks only
that the sweep happens). An item whose intent stops being paid is never eligible
again and keeps its payout open. markItemFailed looks at no status, so after a
commit that took effect and reported an error it makes a completed item failed;
what holds is that nothing is swept for a settled intent
(`SettledIsSweptNoMore`), with one worker. Two may each sweep what the other has
recorded.

Assessment. The deposit loop takes a balance for fully confirmed
(chain_observer.go:415), so that with more than one confirmation required it
makes a session paid by transfers that lie at depth one:
`PaidIsConfirmedOnChain` asks for the depth until that loop has counted
something (`credited`), and after that only for mined transfers, where nobody
else reports. A client that reports single transfers and the deposit loop that
reports their total under the last hash together count the first transfer twice
(`ReceivedIsOnChain` fails with a client and `deposits` in `Observing` and two
transfers). A transfer recorded before its depth, whose intent then expires, is
followed by neither loop, and one that makes the intent overpaid before its
depth is not polled any more (`ExactTransferIsPaid` fails with `Required` two
and expiry, or two transfers). After a partial payment, a top-up that nobody
reports is not found. The public page shows no transactions for an observed
balance, and may show a paid session above transactions whose confirmations were
lowered meanwhile (`ViewIsConsistent` says what does hold).

Links and prices. What a page shows is not what a session costs: the link's page
shows no adjust_percent, min_amount, max_amount or limits, all of which
createSession applies, and the product's page shows the product's amount, which
its link need not ask. `SurpriseCostsChange` names these as exceptions and
allows no others. A link that is archived while createSession runs still gets
its session (service.go:172, :363; `ArchivedIsOver` bounds how many).
max_payments and reusable are asked when a session is created, so that several
sessions opened in time may all be paid. The link page excludes a link at its
expires_at, which createSession accepts, and does not look at max_payments and
reusable. adjust_percent may move the price outside the bounds. A product with
default_amount 0 gets a fixed link nobody can use; an update of default_amount
leaves the link's amount; an empty list of tokens allows any; UpdatePaymentLink
validates nothing. Without its options row, which a failure may cost, a link
cannot be read. Images of deleted products stay stored. Bybit's index price of 0
is no reason to ask for its last price. A reported amount with more decimals
than the token is never paid out.

Requests. A retry that overlaps the call it repeats finds no answer stored and
runs as well (server.go:285): `RetriesCostFailures` counts these runs (`raced`)
next to lost answers. The scope of an idempotency key has a literal ":id" in it:
the key used again for another link or product is answered with the first one's
answer, as request_hash is never compared (`AnswerIsOfRequest` therefore speaks
of merchant, route and header). Keys never expire, public sessions and DELETE
are never keyed, errors are not stored, and a stored answer is given after its
API key was revoked. Pause and resume that are repeated late undo each other.
Two replicas that bootstrap at once make two merchants, between which Login
picks either. The events of API keys, sessions and endpoints follow their rows
and may be lost.

Delivery. The slower of two webhook dispatchers may turn a delivered or failed
delivery back into a scheduled one; a crash or a lost update leaves one pending,
which nothing selects; nothing makes (event, endpoint) unique, so every
dispatcher delivers. Failed and pending mails are never sent again, and an event
that NATS lost is mailed only while it is among the newest 200. A mock transfer
whose message or confirm is lost is forgotten.

Subscriptions. A vault may start above its max_total, expires_at is not looked
at, a failed cycle ends billing, and past_due is never reached.

Lists. A limit out of range becomes the default instead of the maximum; the
page of payments past the end says that there are none at all; rows that are
inserted between two pages are shown twice, and deleted ones hide others
(`RepeatsCostInserts`, `MissedCostDeletions` bound both).
Statistics read events and sessions by two queries, and count a payment for any
confirmed report, also of a part.

## Proofs

Every invariant and every action property that a passing run checks is
proved, for all constants that satisfy the named ASSUMEs; a theorem that needs
more says so in its own ASSUME. Only fairness is left to TLC. Each proof rests on
an inductive invariant, because hardly any of the properties is inductive as
it stands.

The ASSUMEs are what the code, its schema or its configuration guarantee
(positive amounts of an intent, at least one attempt, a batch of at least one
event), and that the sets which a property counts are finite. `IdleAssumption`
of `MCServices` only says that its idle modules have an initial state.

### Payouts

`PayoutSchedulerProofs`:

- `TypeCorrect` (`TypeOK`), strengthened with the worker's locals
  (`LocalsOK`: a worker at an item has an item, at a payout a payout).
- `SettlementIsBacked` (`SettledWasSwept`), `CompletionIsAnnouncedOnce`
  (`OneCompletionEvent`): from `SafeInv`. A sweep is recorded by a worker at
  `persist`, so `RecordedWasSent` says it was broadcast; `CompletedItemsSent`
  keeps that for payouts that have completed, whose items another replica may
  still mark failed; `BatchesExist` and `ItemsBelong` keep a worker from
  touching an unused payout id, which would reset its events.
- `CompletedPayoutIsPaid` (`CompletedPayoutPaysItems`), for either outcome of the
  inserts: from `CompletedItemsSent` and `LedgerInv`, by which a payout has
  the items of its total or none, an unused payout has neither, and workers only
  hold intents that have items. That a completed payout paid its total
  (`CompletedPayoutPaysTotal`) is false with the driver: `payout_busy`.
- `LedgerIsKept` (`ImplementsLedger`), for any replicas and failures and either
  outcome of the inserts: the initial states correspond, and each step is one of the
  ledger or a stutter (`StepKeepsLedger`). By `LedgerInv` what is swept
  has an item, and what is scheduled next has none.
- `OneWorkerRarelyResends` (`ResendsBoundedByFaults`): with one worker,
  from `ResendInv`, which ties what was sent to what is recorded and to the
  failures so far. With two replicas it does not hold.
- `SettledStaysUnswept` (`SettledIsSweptNoMore`): with one worker and any failures,
  those included in which a commit takes effect and reports an error. From
  `ResendInv` and `TodoUnsettled`: the worker's work is unsettled, but
  for an item it is about to mark failed, and only it settles.

### Checkout

`CheckoutProofs`:

- `CheckoutTypes` (`TypeOK`): verdicts contain sums over rows and depths that are
  a least element. That a sum of naturals is a natural is not to be had by
  induction here (see below); the lemmas on `Sum` take a set on which it fails
  and is smallest, remove one row, and contradict.
- `InvoicedOnce`, `PaymentIsAnnounced` from `AnnounceInv`: at most one caller
  is between the invoice row and its event, and it inserted the row
  (`InvoicesOK`); the verdict's `paid` is a truth value (`ShapeOK`).
- `SessionAndIntentAgree` from `FollowInv`: every verdict in a caller's hands,
  however stale, is coherent in itself (`AssessIsCoherent`), so writing it
  whole keeps session and intent together. That no verdict says "confirmed"
  without "paid" needs that all rows are deep when the shallowest is
  (`MinIsLeast`, `ResolveIsCoherent`).
- `NeverMoreThanSent` (`ReceivedIsOnChain`), from `MoneyInv`: rows, requests
  and what the receipt loop has selected are transfers of the chain, no deeper
  than these lie, nor than the latest block a pass has cached allows (`LatestInv`); a
  caller's verdict counts at most the rows that are committed and its own; whatever
  is paid is covered by the deep transfers. All of it is monotone in the chain and the
  rows, so that no verdict can be too stale. The theorem assumes true reports and
  speaks of all that happens until the deposit loop counts a balance (`credited`):
  from then on, with clients, the property is false ("What goes wrong").
- `PaidByDeepTransfers` (`PaidIsConfirmedOnChain`), for true reports of any clients and
  both loops: `CountedInv` is `MoneyInv` until the deposit loop has counted; what the
  property still promises after that, without clients, is from `ObservedInv`.
- `ObservedIsOnChain` (`ReceivedIsOnChain` again) for the opposite case, no
  clients: `ObservedInv` says that the two loops record one transaction at
  most, and the receipt loop only repeats it.
- `PageAddsUp` (`ViewIsTrue`, until the deposit loop has counted): the page reads the session before the rows, whose
  sum never falls (`RecordedOnlyGrows`). Its other half, `PaidIsShownPaid`, and
  `ConfirmedStays` need no assumption: the steps of `CheckoutViews` are those of
  `Checkout` or leave its state alone, so that `FollowInv` carries over, and one
  statement reads session and intent in one state.

### Workers

`OutboxRelayProofs`: `OutboxTypeCorrect`, `RepeatsCostFailures`,
`MarkedEventsWerePublished` from an invariant that accounts for every
publication of an event: it is marked, or in the batch of a relay that
has marked it, or has cost a failure. Disjoint batches (SKIP LOCKED) make the
account come out. `OrderIsKept` (`OvertakesOnlyBackoff`): `known` are
the rows that were due and free when a relay read its batch. Until its pass is aborted a
relay has published, failed to publish or still has before it every row it locked
(`HandledOK`); the rows of `known` that the LIMIT cut off are younger than all of
these; and it takes the oldest. `RelayImplementsDelivery` proves the refinement of
`EventDelivery`'s safety part, step by step; its fairness is model-checked
(`ImplementsDelivery`).

`DispatchersProofs`, mails: `NobodyIsMailedTwice` and `SentIsTrue` from `MailInv`
(a thread that sends has reserved, and nobody else has, `ReservedOnce`).
`MailsAreAccounted` (`MailsAreCounted`) adds the set `Unmailed` of
notifications that nobody will send any more and bounds its size by the
failures; only a failure puts one into it, and a crash two, one for each thread.

`DispatchersProofs`, webhooks: `GivenUpAfterAllAttempts` and `DeliveredIsTrue`
from `WebhookInv`, which says that a scheduled row has made all attempts below
the one it stands at (`AttemptsOK`), as has every row that a thread holds from
an older query, and that a reply is of the attempt the thread is at
(`RepliesOK`). `OriginInv` says where deliveries come from: a callback makes
first attempts only, of rows nobody else has yet, and a ticker later ones, each
once per query. From it follow `DeliveryStatusIsTrue` (`StatusIsTrue`; only a
failure strands a row) and `AttemptsAreBounded` (`AttemptsBounded`), by a budget:
the posts of an attempt, the dispatchers that may still make it (`Ready`) and
the threads that will schedule it (`Refused`) are together at most what the
posts of the attempt before and the failures allow.

`DispatchersProofs`, simulated transfers: `TransfersAreTyped`,
`TransfersAreRequested` (`RequestsAreRecorded`) by the set of forgotten
requests, each of which has cost a failure, and `TransfersAreDelivered`: what
the indexer reads is a behaviour of `EventDelivery`'s safety part.

`WorkersProofs`: `VaultPaysOncePerCycle`, `BillingIsInOrder` and
`PauseStopsBilling` from an invariant in which the amount gone from a vault is
the price times the number of paid cycles, and cycles are a run of paid ones
followed by at most one that is due or failed. `WorkersAreTyped` (`TypesOK`) and
`WorkersAreSafe` are about all workers of `MCWorkers` next to each other: a step
of one is a step of its module and a stutter of all others
(`WorkersAreIndependent`), so that the theorems of the modules carry over.

### Services

`GatewayProofs`: `OneRunPerHeader` (`EffectOncePerKey`) and
`RevokedKeysAdmitNobody` (`LateUsesWereAdmitted`) from `GatewayInv`, which
counts the calls between look-up and store against the runs of their scope;
`OneBootstrapMerchant`, `AdmissionExpires`, `AnswersStay` from `AccessInv`.
About `Routes`: `AnswersAreOfTheirRequest`, `RetriesRunOnce`,
`CreatedIsAnnouncedOnce` and `ArchivedStaysOver` from `RouteInv`: the runs under a
scope are at most the first, those that looked for an answer while another call was
under way (`raced`) and those after a lost answer (`RunsCost`, in which a
scope is `Spare` as long as nothing was run under it or the one run awaits its
store); an item without its event has a call that will announce it, or a failure
(`SilenceCosts`); and the sessions committed for an archived link, with the
calls that have checked it (`CheckedOn`), are at most those that had when it was
archived (`LateWereChecked`).

`SessionsProofs`: `OnlyOpenLinksAdmit`, `StatisticsAgree`, `ShownImagesAreStored`
from an invariant in which a buyer past a check holds a link that passed it
when it was read, and an editor past a statement has the row it wrote.
`ProductsAreComplete` (`ProductsAreWhole`) from `HalfMade`, which counts
products without a link, links without options and archived links without
their event only when no request in progress is to complete them: each has
cost one failure. Requests in progress are then matched with the rows they are
to complete, one to one. `PagesAgree`, `ImagesOfPagesAreStored` and
`AnnouncedLinksAreReadable` about `Storefront` add that what a visitor was shown
was so when the page was read, or an edit has come since (`PageOK`), and that the
price he was quoted is what createSession computes from the terms he was not
shown (`PricesOK`). `StatisticsAgree` counts a canceled session by the guarded
UPDATE alone, as its event may never come.

`ServicesProofs`: lemmas that bound `Rounded` on both sides, from them
`OnlyTolerableIsConfirmed`, `TolerableIsAccepted`, `ProposalIsAccepted`, and
`PaidStaysPaid` because the bounds do not move and the cases are ordered by
the amount. `ListsAreTyped` and `ListsAreReadOnce` (`ListIsReadOnce`) follow
the reader's offset: a row it skipped (`Skipped`) has moved before the offset,
which takes a deletion, and one that will come again (`Returning`) has moved
behind it, which takes an insert. `ServicesAreTyped` (`TypesOK`) and
`ServicesAreSafe` are about `MCServices` as a whole, as with the workers; there,
customers come in the storefront only (`VisitorAway`), and the steps of the
storefront are steps of the sessions.

### Corollaries, and what is not proved

The conjunctions that runs check are corollaries of the theorems about their
parts: `SettlementHolds`, `PaymentIsToldOnce`, `MarksCount`, `BillsAreExact`,
`AccessStaysLimited`, `RepeatsDoNoHarm`, `QuotesAreHonored`, `PagesAreHonored`,
`DeliveryStatusIsTrue`. No run checks `AdmittedIsFresh`, `AnswerIsKept`,
`PausedIsNotCharged`, `PaidIsKept` and `ConfirmedStaysShown`, which are proved
(`AdmissionExpires`, `AnswersStay`, `PauseStopsBilling`, `PaidStaysPaid`,
`ConfirmedStays`).

Sums and counts. The library's induction theorems take an operator, which no
prover here can instantiate. What would be an induction over a finite set is
proved by a smallest counterexample (the library's theorem that the subset
relation on finite sets is well-founded speaks of sets, not of operators), and
what relates the sizes of two sets by an injection or by removing one element.

Only model-checked, because fairness and ENABLED are out of the prover's
reach: `ScheduledIsSwept`, `ExactTransferIsPaid`, `ScheduledEnds`,
`CommittedIsReserved`, and the liveness half of `ImplementsDelivery`. Not proved
either, since they are false in general: `ResendsBoundedByFaults` and
`SettledIsSweptNoMore` for several workers; `ReceivedIsOnChain` and `ViewIsTrue`
with clients after the deposit loop has counted; and, with the driver, what
the runs `payout_busy`, `checkout_busy` and `subscriptions_busy` refute.

## Not modelled

- Deposit wallets: key derivation and CREATE2 are cryptography; that a session
  gets an address of its own is part of `CommitSession`.
- Migrations and configuration: sequential start-up. Constraints of the schema that
  decide what a statement does are in the actions that run it.
- The legacy API server (`internal/api`): no command imports it.
- Generated RPC code; HTTP fields, JSON and the wording of errors.
- MockPayoutExecutor, which answers every request with a hash.

## What is left

1. `Settlement`: `Checkout` and `PayoutScheduler` composed, with amounts: what is
   frozen in an item against what is assessed and deposited later. The two
   now meet in the abstract writes `AssessIntent` and `Settle`.
2. A payment (awaiting, paid, over) that `Checkout` implements, as
   `PayoutScheduler` implements `PayoutLedger`.
3. `Webhooks` on `EventDelivery`, as the other listeners are, with events that
   are published again; then one delivery per event and endpoint up to repeats.

Modules to be proved about use no RECURSIVE operator, keep one action per
operation, and state invariants as conjunctions of named parts.
