# BlockSpaces Connect: a verification project

TLA+ models of the back end of BlockSpaces Connect (`src/core/src`, a NestJS
application over MongoDB), the TLC runs that check them, and TLAPS proofs of every
safety property those runs check. Paths below are relative to the repository; `core/` stands for `src/core/src/`.

Run `tlc -config X.cfg M` for a row of the table of runs, and
`tlapm M.tla` for a module `M` of proofs: the eight whose names end in `_proofs`.

## 1. The system

Connect sells networks (a lightning node, a POKT gateway) to users and bills them
through Stripe. One process, `core`, serves the API, receives Stripe's webhooks
and runs a cron job; it may run in several replicas. All of them share one
MongoDB. Stripe, QuickBooks, lightning nodes, Cyclr, Vault, AppID and the mail
service are external.

| component | state | operations | how it interacts | hard behaviour | correct when |
|---|---|---|---|---|---|
| task queue (`core/task-queue`) | task documents: status, attempts, runDate, recurrence, audit trail | create (scheduled, instant), set the last run date, delete, fetch pending, claim, run, record | cron job of every replica; jobs call subscriptions, nodes, QuickBooks | overlapping ticks, a runner that dies, copies held while a job runs | no outcome is lost; the status agrees with the trail; nothing stays stuck |
| subscription invoices (`core/connect-subscription`, `core/stripe`) | mirror of each renewal invoice: status, payment, metered period, lines, QuickBooks id | ensure created, open, void, payment, payment error | Stripe webhooks, QuickBooks | events reordered, duplicated, lost by a failed handler; handlers that overlap | never a draft again, a paid one has its payment, mirrors Stripe |
| subscriptions (same) | status, metered period, items and networks, usage audit trail, id of its task | activate, renew, follow the status, report usage, cancel, terminate | webhooks, jobs of the queue, requests of the user | three kinds of actors saving whole copies of one document | each period billed once, a canceled one stays canceled and its services end |
| cart (`core/cart`) | one open checkout per user: status, items, subscription | init, add item, billing info, pending payment, confirm, error, complete, expire | user requests, Stripe webhooks, subscriptions | requests that race with the payment | a paid cart completes once; one open cart |
| user networks (`core/user-network`) | the services a user has, their status | add, activate, disable, terminate | cart, subscriptions, tasks | provisioned twice, terminated halfway | one per network, ends with its subscription |
| lightning nodes (`core/networks/lightning/onboarding`) | the pool of nodes and who owns them | provision, claim, initialise, open a channel, reset | users, a task, a provisioner by message | find then update: two users, one node | a node has one owner, and is wiped before its next one |
| invoices (`core/networks/lightning/invoices`, `core/networks/bitcoin`) | canonical invoice with a lightning and an on-chain side, quotes | create, quote, status, cancel, refresh | payers, tenants, the node, events | paid on both sides, quoted when canceled | paid once, one payment event |
| integrations (`core/integrations`, `core/cyclr`) | none here: the cycles and connectors of the tenant's Cyclr account | add, activate, stop, remove | users, Cyclr, the webhooks' subscriptions | calls for all cycles at once, one of which fails; requests repeated or overlapping | what was answered took effect |
| webhooks and events (`core/webhooks`) | the tenant's subscriptions to events, the record of each event | subscribe, unsubscribe, emit | invoices emit, integrations subscribe, endpoints are called | endpoints that refuse or break off, results nobody waits for, subscriptions changed meanwhile | posted until taken, three times at most, recorded as it ended |
| QuickBooks (`core/quickbooks`) | tokens | refresh, send | tasks, requests | concurrent refresh of one token | the last token is the stored one |
| registration, authentication, tenants | users, sessions, api keys | register, log in, verify | AppID, Vault, Jira | steps across services | a user ends registered or not at all |
| endpoints and haproxy | endpoints and the proxy's copy | create, delete, limit | haproxy API, a task | two stores | the proxy has what the database has |
| flow executor (`src/backend`) | none | run a flow's steps | gRPC | recursion over a flow | a function of its input |
| others | none, or external | reads and wrappers | | | |

`PROJECT.json` lists every component with its sources and what is left out and why,
and every hazard at the line where it bites.

### What a save does

Everything below depends on what Mongoose does in
`MongooseRepository.updateByIdAndSave(id, data)` (`core/mongoose/services/MongooseRepository.ts:130-158`):
it reads the document, assigns `data` to it and saves it. Mongoose is not part
of the repository; the models assume:

- `data` a live document: only the paths modified in that copy are written.
- `data` a plain object (`toObject()`): every field that differs from the stored
  one is written. When an array is among them, the write is conditional on the
  version `__v` of the copy and increments it, else it throws `VersionError`; when
  none is, nothing is checked and the last save wins.
- No document: the result is null and the caller's `toObject()` throws.
- Required fields are validated at every save (`scheduledTaskId` of an Active
  subscription).

The models keep the version as the field `v`, the copy a handler holds as a
record, and say at each save which of the two kinds it is.

## 2. The modules

| module | models | state ↔ code |
|---|---|---|
| `TaskLog` | the promise of the queue: tasks are created, deleted once, and their outcomes are an append-only log | abstract |
| `TaskQueue` | `TaskQueueItemDataService`, `TasksRunnerService` | `tasks` the documents, `work[r][t]` what tick `r` does with task `t` and the copy it holds, `lost` workers lost |
| `TaskQueue_proofs` | theorems about `TaskQueue` | |
| `SubscriptionInvoice_proofs` | theorems about `SubscriptionInvoice` | |
| `SubscriptionInvoice` | the invoice handlers of `ConnectSubscriptionService`, called by `StripeController` | `doc` the connect invoices, `stripe` and `sent` the environment, `quickbooks` invoices created there, `work` the handlers |
| `ConnectSubscription` | activation, renewal, usage, cancelation, termination of a subscription | `sub` the document, `task` and `ending` its two tasks, `service` the user network, `billed` Stripe's usage records, `work` the handlers |
| `ConnectSubscription_proofs` | theorems about `ConnectSubscription`, however handlers interleave | |
| `SubscriptionPrompt_proofs` | theorems about `ConnectSubscription` where work is done promptly: cancelation and renewal | |
| `Cart` | `CartService`, with what a checkout does to the subscription and the user networks | `carts`, `subs` (with Stripe's status), `services` user networks per network, `sent` events on their way, `work` the requests and webhooks |
| `Cart_proofs` | theorems about `Cart` | |
| `NodePool` | `LightningTasksService`, `LightningOnboardService`, `LightningMacaroonService`, the node controller, the setup pages of the front end, `CancellationService` for the lightning offering | `node` the documents in `lightningnodes`, `wallet` and `chan` what LND has, `service` the user network, `ending` the termination task, `request` what a tenant's request does next, `left` and `requested` the provisioning task and the provisioner |
| `NodePool_proofs` | theorems about `NodePool` | |
| `PaymentBook` | what the invoices promise: a payment that arrived is entered once, and in the end | abstract |
| `CanonicalInvoice` | `LightningInvoiceService`, `BitcoinInvoiceService`: one invoice that two rails can pay | `off`, `on` the two documents, `quotes`, `onQuote` their quotes, `lnd`, `txn` the node and the chain, `extra`, `onExtra` invoices the hourly task made, `request` polls and cancelations, `refresh` the task |
| `CanonicalInvoice_proofs` | theorems about `CanonicalInvoice` | |
| `EventDelivery` | what a tenant is promised of an event: posted until taken, never again, recorded as it ended, over in the end | abstract |
| `Integrations` | `IntegrationsService`, what it needs of `CyclrService`, `WebhookService`, `EventEmitService` | `cycle`, `connector` the Cyclr account, `docs` the webhook subscriptions of the tenant and the Cyclr url, `req` the tenant's requests, `event`, `loop` what `triggerWebhooks` and `callWebhookWithRetry` do next, `answers` how the calls of an endpoint ended, `records` the stored events; `answered`, `raced` only remember, for `RequestTakesEffect` |
| `Integrations_proofs` | theorems about `Integrations` | |
| `MCTaskQueue`, `MCSubscriptionInvoice`, `MCConnectSubscription`, `MCCart`, `MCNodePool`, `MCCanonicalInvoice` | the modules TLC runs, with the symmetries that are sound | |

One action is what the code does between two awaits that matter: a handler reads
(`Read`, `HandleCron`), calls other services (`Fetch`, `Report`, `Terminate`), and saves
(`Save`, `PostProcess`, ...). A thrown exception ends the handler: the
webhook catches it and answers 2xx (`StripeController.ts:50-59`), the task queue records
an error, a user gets an error. `Throws` and `LoseWorker` do it at any await.

**TaskQueue.** `HandleCron` reads all pending tasks; each is then a worker of its
own (`Promise.all`). `PreProcess` is the claim, with a live copy; `PostProcess` is the
end of the job, the audit entry, rescheduling, and the save of the plain copy.
Other services create, delete and give a last run date in between. Time is
counted in ticks of the cron job, relative to now, so that the clock is no
counter.

**SubscriptionInvoice.** `StripeStep` is the life of an invoice in Stripe and the
events it sends; `Webhook` takes one, again and again up to `MaxDups`, in any order
unless `InOrder`. `Create` and its unique index, `Update`, `Mark`, `CaptureError` with live copies,
`CapturePayment` with a plain one.

**ConnectSubscription.** Two ticks of the clock are a billing cycle: one to the end of
the metered period, two days early (`calculateMeteredUTCEndDate`), one to the end
of the cycle. `billed[n]` counts the usage records sent to Stripe whose period
covers tick `n`; Stripe adds records up (its default is `increment`). The tasks
are reduced to their due date and state, since the queue has its own module. Parts
of one `customer.subscription.updated` event (period, status, cancelation) are events
of their own here.

**Cart.** The API calls may come in any order, for any cart; `Accepts` and `Restarts` are what the code
lets through. Every handler is cut at its awaits: `Clear`, `Cancel`, `Delete`, `Empty` are `clearCartHelper`;
`Token` and `Link` are the two sides of the creation of a subscription at Stripe. The subscription keeps only its status,
Stripe's status and how often it was activated; `ConnectSubscription` starts where this ends. An offer has one of three tiers: paid, free with a
credit card (Stripe's subscription is active and its empty invoice paid at once), and free.

**NodePool.** `CountPool` and `Ask` are the hourly task: it counts the documents without a tenant, then sends one message per
missing node; the provisioner (`Provisioned`, external) creates the document. `Claim`, `FindUnclaimed`, `Assign` are the three accesses of
`findOrClaimNodeForUser`. `OpenSetup` to `Register` are the wizard of the front end, which talks to the node itself and
then to core; `OnboardingStep` is `heyhowareya`, which tells the front end where to go. `OpenChannel` asks a BEN for an inbound channel and
`RecordChannel` stores the first pending one. `Reset` clears the document (and returns the node to the pool) before `Wipe` wipes it.
`CancelService` to `Terminate` end the offering. One tenant is one session: its requests follow each other. `Faults` opens what the
code does not guard against: `"race"` lets claims and resets of different tenants overlap, `"inactive"` takes the peer of
a channel offline, `"silent"` leaves a question to LND unanswered.

**CanonicalInvoice.** A poll (`getCanonicalInvoiceStatus`) reads the lightning side (`Poll` to `PollAgain`: the document, the quotes,
each quote at the node, the update, the deletion of the quotes), then the on-chain side (`PollOnchain` to `PollOnchainAgain`), then cancels what
was not paid (`PollDecides`). `CancelOffchain` to `DropQuotes` and `CancelOnchain` to `DropOnchainQuote` are `cancelInvoice` of the two services, for a poll or
for the merchant. `Refresh` to `RefreshClear` is `refreshInvoices`, `ScanChain` `refreshOnchainTxns`. `EnteredOnce` is the refinement of
`PaymentBook`: `received` is what LND has settled, `entered` counts the documents with that `settledPayreq`, whatever their status.

**Integrations.** An integration is one cycle per template in the tenant's Cyclr account. `Begin` to `WriteSubscription` are the four
requests: `ReadAccount` (`getTemplatesByTag` or `getCycles`), `InstallConnector`, one `CyclrCall` per cycle or template in any order
(`Promise.all`), `CallsReturned`, then `Authenticate`, or `DeleteConnector`, `FindSubscription` and `WriteSubscription`. `Promise.all` is left at the
first rejection; the model waits for the other calls before it answers, so a request counts as in progress while calls it left behind do; a failed
request does nothing else. What Cyclr does is external: installing a template always makes another cycle (`NextCopy`), a run-once cycle
stops by itself (`RunsOnce`). An event is `Emit`, `FindSubscribed`, then `RecordFailure`, or for each subscription the loop of
`CallWebhookUrl`, and `RecordResults`. `RecordingFails` is a rejection in the callbacks of `forEach`, which ends the process (`main.ts:72`).
`DeliversOnce` is the refinement of `EventDelivery`.

## 3. The runs

| run | instance | checks | shows |
|---|---|---|---|
| `task_queue` | 1 task, 2 ticks, 1 lost worker, 2 attempts, 2 audit entries | `TypeOK`, `StatusMatchesAudit`, `CopiesAreVersioned`, `ImplementsTaskLog`, `EveryTaskSettles` | with ticks that overlap, a task changed and deleted meanwhile and a runner that dies, outcomes are never lost, and no task stays claimed or is retried for ever |
| `invoice_sequential` | 1 invoice, 1 handler, 2 duplicates, 1 fault, any order | `TypeOK`, `PaidHasPayment`, `PeriodStaysOverridden`, `NeverBackToDraft` | what holds if handlers do not overlap (`TypeOK` and `NeverBackToDraft` are proved for handlers that do) |
| `invoice_in_order` | 2 invoices, 2 handlers, events in order and once | `Synchronised`, `PaymentIsRecorded` | what holds if Stripe waits |
| `subscription_cycles` | 4 cycles, 3 failed charges, prompt | `BilledOnce`, `BilledCompletely`, `WindowFollowsCycle`, `StatusSynchronised` | renewal and metered billing are right when nothing overlaps |
| `subscription_cancel` | 3 cycles, 2 failed charges, prompt | `TypeOK`, `CancelationStays`, `SubscriptionEnds` | the three ways to cancel end the subscription and its services |
| `subscription_concurrent` | 1 cycle, 2 handlers, 1 fault | `CopiesAreVersioned`, `AuditOnlyGrows` | the version check keeps every usage report, however saves interleave |
| `subscription_billed_twice` (violation) | 2 cycles, prompt | `BilledOnce` | a user who cancels between the metered end and the cycle's end pays that period twice |
| `cart` | 2 networks, 3 tiers, 2 carts, 2 subscriptions, 3 additions, 1 duplicate, 1 handler | `TypeOK`, `OneOpenCart`, `PaidIsServed`, `CartCanBeCleared`, `NoOrphan`, `CompleteStays` | a checkout strands no cart, no payment and no subscription, if requests are served one by one while events come late and out of order |
| `node_pool` | 2 tenants, 2 nodes, 2 channels, a pool of 1, 1 reset, no faults | `TypeOK`, `OneNodePerTenant`, `WalletIsOwn`, `PoolBounded`, `CountedIsClaimable`, `OneInbound`, `ClaimIsExclusive` | a node passes from tenant to tenant through the pool only and clean, whatever resets, wipes that fail, abandoned setups and decommissions come in between |
| `node_termination` (violation) | the same | `ClosedBeforeTermination` | the check for active channels reads a field that is not there, so a service ends with its channel open |
| `canonical_invoice` | 2 bolt11s, 1 transaction, 1 request, 1 task | `TypeOK`, `PaidIsReceived`, `PollCloses`, `EnteredOnce` | a payment over lightning is entered once and in the end; a poll that saw one rail paid leaves the other closed |
| `integrations` | 2 templates (one runs once), 2 copies of each, 2 requests at once and 3 in all, 1 event, 1 fault | `TypeOK`, `RequestTakesEffect`, `DeliversOnce` | what a request of the tenant answered took effect, whatever failed or was broken off before; an event is posted until its endpoint takes it and never again, recorded as it ended, and over in the end |

The two violations are the findings of `PROJECT.json`, with the line that says
otherwise. Deadlock is checked for the task queue, whose clock always ticks. The
other models stop when Stripe has nothing left to send or the clock reaches its bound,
and a user may do nothing more, hence `CHECK_DEADLOCK FALSE`.

### Bounds

Two actors are what every race of this code needs: each is a read and a save of one
against a read and a save of the other. `MaxAudit = 2` allows a lost and a rewritten
entry; `LimboAge = 2` and `Period = 3` let a job outlive its limbo threshold and a recurring task
come back; `MaxLag` cuts off how late a late task is. One invoice is enough where invoices share
nothing; two are used where fairness must not be spent on one. Four cycles are
two more than the period arithmetic remembers. Two subscriptions and three additions let a cart be cleared, used again and joined by an active subscription. `MaxDups`, `MaxFaults`, `MaxCharges` and
`MaxLost` bound the environment, never the code. Two nodes let one be held while the other is in the pool, and a node be given to a
second tenant after a reset; two channels are one more than a node may have. Two bolt11s are what one payment that replaces another needs;
polls and cancelations read and write in so many steps that one request and one task, which overlap at each of them, reach the races described;
for more of them the safety properties are proved (section 4).
In `integrations`, three requests are what a second copy of a subscription takes: two that overlap create it, the third finds it; and what it
takes to repeat a request that failed and then undo it. Two copies of a cycle are one more than an integration needs. One fault may
be any failing call, or the end of the process, in any step; with two the run passes too, in twice the states.

### Known divergences the models reproduce

These are disagreements between the code and its comments that the models show when
the constants of a run are changed as said; they are kept out of the list of runs.

| property | change | what happens |
|---|---|---|
| `PaidHasPayment` | `invoice_sequential` with two handlers | a payment error read while the invoice was Open saves the error but no status, over a Paid invoice (`ConnectSubscriptionService.ts:920`; "payment is required in order to mark invoice Paid", `ConnectSubscriptionInvoiceSchema.ts:89`) |
| `PeriodStaysOverridden` | the same | the payment handler saves the copy it read before its two external calls, with the old period (`:780`; "very important", `:813`) |
| `PaymentIsRecorded` | `invoice_in_order` with `InOrder = FALSE` | a payment event that overtakes the creation is answered 2xx and lost (`StripeController.ts:53`) |
| `WindowFollowsCycle` | `subscription_cycles` with `MaxDups = 1` | the new period starts where the stored one ends, so the same event again leaves an empty period (`:804`; "kept in sync with stripe", `src/shared/models/connect-subscription/ConnectSubscription.ts:91`) |
| `CancelationStays` | `subscription_cancel` with the kind `"failed"` | a failed charge makes a subscription that is to end Unpaid (`:950`), which `updateSubscriptionStatus` (`:887`) takes care not to do |
| `CancelationStays` | two handlers, `Prompt = FALSE` | a handler that read an active subscription saves its status over the cancelation: no array changed, so no version is checked |
| `SubscriptionEnds` | `subscription_cancel` with `MaxFaults = 1` | the cancelation is saved (`:1050`) before the end of the services is scheduled (`:1062`); a call that fails in between is not repeated |
| `OneOpenCart` | `cart` with two handlers | two requests that find no open cart create one each (`CartService.ts:107-130`; "Only 1 cart session ... per user allowed at a time", `:80`) |
| `CompleteStays` | the same | the front end does not wait for `markCartPendingPayment` (`add-payment-method.tsx`), whose save of a copy undoes the completion by the webhook: no array changed, so no version is checked (`:430`) |
| an activation happens once | `cart` | the cart of a free offer stays open when its payment succeeds (`:543`), so the event delivered again activates again and adds a second user network |
| `LastRunStaysLast` | `task_queue` | a job that runs while `setLastRunDateForTask` is called saves the copy it holds and makes the task recurring again (`TasksRunnerService.ts:388`; "setting to once will ensure no more future runs", `TaskQueueItemDataService.ts:87`) |
| `QueuedIsPickedUp` | `task_queue` | a tick that read a recurring task as PROCESSING claims it just after the first runner recorded its success: the attempts of the next run are used up and no tick picks the task up again (`TasksRunnerService.ts:322`; "will be picked up by task runner on run date", `TaskQueueItemDataService.ts:17`) |
| `QuickbooksIdRecorded` | `invoice_sequential` | a payment event delivered twice creates two invoices in QuickBooks, before the status is looked at (`ConnectSubscriptionService.ts:755`) |
| `ClaimIsExclusive` | `node_pool` with `Faults = {"race"}` | two tenants find the same unclaimed node, and the second assignment, which looks for the `nodeId` only, takes it from the first (`LightningOnboardService.ts:240`) |
| `OneInbound` | `node_pool` with `Faults = {"inactive"}` or `{"silent"}` | `getChannelsList` asks for active channels whatever its caller wants (`active_only \|\| true`, `LndService.ts:213`), so a node whose peer is offline gets a second channel; and a pending channel that was not recorded is not waited for (`LightningOnboardService.ts:326`) |
| `OthersCanceled` | `canonical_invoice` | the bolt11s that were not paid are to be canceled by `payment_hash` of what `readInvoice` returns (`LightningInvoiceService.ts:335`; "Cancel open Bolt11s on the lightning node", `:327`), which has `paymentHash` (`LndService.ts:512`): they stay payable at the node |
| `PaidIsNotCanceled` | `canonical_invoice` | the update of `cancelInvoice` looks for the `invoiceId` only, and marks an invoice CANCELED that was paid since it was read (`LightningInvoiceService.ts:544`; the check of `:540` says that is refused) |
| entered once, on the chain | `canonical_invoice` | the hourly task looks for an invoice that has the transaction already (`BitcoinInvoiceService.ts:385`), so a payment nobody polled for becomes a new invoice and the one it paid stays PENDING until a poll, which enters it again |

In `Integrations`, a call that breaks off without a response is not repeated, though `callWebhookWithRetry` promises "no more than 3 times
until it is successful" (`WebhookService.ts:129`): `JSON.parse(undefined)` throws in the catch of `callWebhookUrl` (`:88`, `:124`). `EventDelivery` says so with the answer
`lost`. Two activations that overlap may store two subscriptions (`:28`), which no request changes after that, since each wants exactly one; the
tenant then hears of each payment twice even when the integration is stopped, which is why `RequestTakesEffect` excludes requests that raced. An
activation that fails after its cycles were activated leaves them running, and shown as active, without a subscription (`IntegrationsService.ts:143`): only an answered
request is promised to take effect. All integrations of a tenant share one subscription, so stopping one silences the others (`:177`); the migrations install one.

In `CanonicalInvoice`, a lightning payment whose quote was dropped (any failure to read the bolt11 drops it,
`LightningInvoiceService.ts:280`) is entered by the task as an invoice of its own, and the invoice it paid stays PENDING: `EnteredOnce` counts
documents, not which one. Two polls may both emit the payment event (`:320`); events are not modelled.

In `Cart`, a payment whose webhook has not come yet does not stop the user from starting on another
network: the subscription Stripe has charged is canceled there and deleted here (`CartService.ts:619`). `PaidIsServed` speaks of subscriptions that
Stripe keeps active, so it does not count these. Free items added twice make two user networks (`:247`).

In `TaskQueue`, the attempts of a task whose runner dies each time are not bounded by
`MAX_ATTEMPTS`, because the limbo clause of `getPendingTask`
(`TaskQueueItemDataService.ts:70`) does not look at them; and a tick that fetched a
recurring task before another tick ran it starts its next run before the date
(`TasksRunnerService.ts:303`).

### Fairness

`TaskQueue!Fairness`: time passes; the cron job fires again, since Nest's scheduler never waits for
the previous tick; a worker that did not die takes its next step, since the event
loop runs every settled promise. Nothing is assumed of requests: `EveryTaskSettles` says what holds
once they cease. A task counts as settled when it is out of attempts in whatever status but PROCESSING: `QueuedIsPickedUp`
is the stronger claim, and it fails. A crash needs no fairness.

`SubscriptionInvoice!Fairness` and `ConnectSubscription!Fairness`: Stripe sends an event until it is answered,
so each is delivered; a handler that began goes on; a due task runs (one runner at a
time does that; the overlap in which a queued task is forgotten is the row `QueuedIsPickedUp` above). Users and Stripe's own changes are never fair.

`CanonicalInvoice!Fairness`: the hourly task `LIGHTNING_NODE_REFRESH_ALL_OBJECTS` comes again and takes its next step (weak fairness), and
the node answers it now and again (strong fairness of `RefreshAnswered`, for a node may be locked or down in between). Polls, payers and
cancelations are never fair: the promise that a payment is entered in the end rests on the task alone. `NodePool` has no fairness: its
properties are about what may never happen.

`Integrations!Fairness`: `triggerWebhooks` goes on, and every call of an endpoint returns or breaks off, since a connection that dies rejects the request.
Requests of the tenant are never fair.

## 4. The proofs

`TaskQueue_proofs` holds for any sets of tasks and runners and any bounds, from
`TaskQueueAssumption` alone.

- `TypeCorrect`: `Spec => []TypeOK`. One lemma per operator on documents gives its type and
  the fields it keeps (`StoredClaimType`, `RecordedType`, `RescheduledType`, ...); `NextType` has a
  step per action.
- `CopiesVersioned`: `Spec => []CopiesAreVersioned`. The invariant is inductive only
  together with `TypeOK`: `VersionInv` is their conjunction. Its core is `TrailStep`: a step either leaves version and trail
  of a task alone, or increments the version and appends one outcome to it.
- `StatusFollowsAudit`: `Spec => []StatusMatchesAudit`. With `TypeOK` it is inductive as it stands, and needs no version: a save writes status and trail
  together, the status of a plain copy with the outcome it just appended (`AgreesSaved`), and a live copy writes no status but PROCESSING, which agrees with any trail.
- `Implementation`: `Spec => ImplementsTaskLog`. By `LogStep` every step is one `Create`, `Delete` or `Record` of
  `TaskLog`, or a stutter. For `Record`, the saved trail is the copy's plus one entry; that it extends the stored one is
  exactly `CopiesVersioned` and the version check.

`SubscriptionInvoice_proofs` holds for any sets of invoices and handlers, so also for the handlers that overlap, which `invoice_sequential` leaves out.

- `TypeCorrect`: `Spec => []TypeOK`, the handlers' copies included.
- `LeftDraftForGood`: `Spec => NeverBackToDraft`. No save can write Draft over another status: a live copy writes the status only where it
  changed it, and no handler changes one to Draft; a plain copy is saved as Paid.
- `PaidIsPaid`: `Spec => []PaidHasPayment`, and `OverrideForGood`: `Spec => PeriodStaysOverridden`, where the handlers of an invoice follow each other
  (`Serially`: Stripe waits for its events, or there is one handler; else both fail, see the table above). Order, duplicates and failures are free. The inductive
  invariant `CopyInv` adds that two handlers never work on one invoice (`Serial`) and that what a handler read is still stored (`Fresh`).
- `InStep`: `Spec => []Synchronised`, where events come in order and once and no handler fails: a lost one is never made up for. `MirrorInv` says what each
  event on its way, or being handled, will find: the document is exactly one event behind Stripe (`Expected`).

`ConnectSubscription_proofs` holds for any sets of handlers and kinds of work and any bounds, from `SubscriptionAssumption`; so also for three handlers and more,
which `subscription_concurrent`, with two, leaves out.

- `TypeCorrect`: `Spec => []TypeOK`, with failures and duplicated events. It needs that a period event counts its cycle from 1 (`Timely`).
- `CopiesVersioned`: `Spec => []CopiesAreVersioned`, and `AuditGrows`: `Spec => AuditOnlyGrows`. The inductive invariant `CInv` says of every copy in
  progress that it is `Current`, the stored arrays with at most its own report on top, or `Outdated`: then its version is behind, and its arrays
  still differ from the stored ones, in an element another handler wrote or in the networks. So an outdated copy is never saved (`SaveEffect`): saving
  it would need the version, because the arrays differ. A save of a current copy leaves the arrays alone, or makes every other copy outdated (`OthersKeep`).
- Both assume `MaxDups = 0`. The proof needs that a subscription is activated once (`Once`): what a second activation links is the same as the
  first in the model, where in the code each activation creates its own network and the arrays would differ, so the model says nothing of that case.

`SubscriptionPrompt_proofs` is about work that is done promptly (`Prompt`): one event, job or request at a time, and all of them before time passes or Stripe goes
on. It holds for any number of cycles and of failed charges. Prompt work means that a handler's copy is still what is stored but for its own
changes; `OneAtATime` says so stage by stage (`Held`), and is the first invariant of the module.

- `EndedForGood`: `Spec => CancelationStays`, with failed calls, and with every kind of work but `"failed"` and `"succeeded"`, which write a status whatever the
  stored one is (the table above shows the run that breaks it), and with events delivered once, for a status event repeated after the end does the same. The inductive invariant
  `EndInv` orders what waits: the activation before everything but a status (`ActivatedFirst`), a status before Stripe's cancelation (`StatusInTime`),
  and an end is only planned for the end of the cycle, or Stripe canceled already (`EndPlanned`, `CanceledByStripe`).
- `UsageBilledOnce`, `UsageBilledCompletely`, `PeriodInSync`, `StatusInSync`: `BilledOnce`, `BilledCompletely`, `WindowFollowsCycle` and `StatusSynchronised`, for the kinds of
  `subscription_cycles` (nobody cancels; `BilledOnce` fails when a user does, as `subscription_billed_twice` shows), without duplicates or failed calls. One inductive invariant, `RenewInv`, carries all
  four: the task is due at the end of this metered period, or of the next once it has run on that very day (`Scheduled`); what is billed is
  everything before the period it is due for (`BilledTo`); the period is that of Stripe's cycle, or the one before while the event of a new cycle is
  on its way (`Window`), so that the job never reads it in between (`JobOnTheDay`); and a status that waits is the one Stripe has (`EventsOfStatus`).

`Cart_proofs` holds for any networks, offers, carts and subscriptions and any bounds, from `CartAssumption`.

- `TypeCorrect`: `Spec => []TypeOK`, for any number of handlers.
- `OneCart`, `PaidServed`, `CartClears`, `NothingOrphaned`, `CompleteForGood`: `OneOpenCart`, `PaidIsServed`, `CartCanBeCleared`, `NoOrphan` and
  `CompleteStays`, where requests and webhooks are served one after the other (`Handler = {h}`), since two that look for the open cart at once create
  two (`CartService.ts:107-130`); users may still call anything in any order, and events come late, twice and in any order. They rest on one inductive
  invariant, `CheckoutInv`: what a handler has read still holds (`HeldOK`), what a cart's status says of its items and subscription (`CartOK`), what a subscription's status says of
  Stripe's (`SubsOK`), and, for each subscription, where it is on its way between checkout and payment: with which cart, and if paid but not served, with which
  event or handler (`FlowOK`). An event tells what has happened, however late (`SentOK`).

`NodePool_proofs` holds for any sets of tenants, nodes and channels, any pool size and number of resets.

- `TypeCorrect`: `Spec => []TypeOK`, and `PoolStaysBounded`: `Spec => []PoolBounded`, with all faults. The second needs that a step adds at most one
  node to those counted, and takes one from what is requested, or counts a reset, when it does (`PoolShrinks`, `PoolGrows`).
- `OneNode`, `WalletsAreOwn`, `PoolIsClaimable`, `ClaimsAreExclusive`: where `"race"` is not among the faults. They rest on one inductive
  invariant, `PoolInv`: a node without a tenant is clean (`PoolClean`), a document that does not exist has no tenant (`NewIsFree`), one tenant at a time
  claims or resets (`Exclusive`), what a request still believes about its node is true (`RequestOK`), and a tenant has one live node
  (`OneLive`). `RequestOK` is the heart of it: a wizard left open holds a node that is still its tenant's, for only that tenant's next request could reset it.

- `OneChannel`: `Spec => []OneInbound`, without faults: each of them breaks it (the table above), or the invariant `PoolInv` it rests on. `ChannelInv` adds that a
  channel that is opening is the one in the document, or its tenant's request is about to record it (`PendingKnown`), and that a node
  has none before its wallet, its macaroon and its public key are there (`WalletFirst`, `SetupFirst`, `NoneInSetup`).

`CanonicalInvoice_proofs` holds for any sets of bolt11s, requests and refreshes, from `CanonicalInvoiceAssumption` alone, so also for the
overlapping polls and refreshes that `canonical_invoice`, with one of each, leaves out.

- `TypeCorrect`: `Spec => []TypeOK`. A refresh that is about to enter a bolt11 has one, and a paid invoice names one.
- `PaidReceived`: `Spec => []PaidIsReceived`. The inductive invariant `Money` adds what is in hand: every bolt11 a refresh holds was settled when
  LND answered (`Arrived`), and a settled bolt11 stays settled through expiry and cancelation (`SettledStays`).
- `EntersSafely`: `Spec => Book!Init /\ [][Book!Next]_(Book!vars)`, the refinement of `PaymentBook` without its fairness. By `Entries` a step
  enters a bolt11 in the invoice (`Settles`), or in one of its own (`Adds`), or leaves the entries alone (`Keeps`); that none is counted
  twice is `Apart`: the unique index on `settledPayreq` refuses the second of two invoices.
- `PollsClose`: `Spec => PollCloses`. What a poll has seen of a rail may be stale, but not wrong: an invoice that was paid or canceled is
  never pending again (`StaysClosed`), so what the poll remembers (`Knows`) still holds when it decides.

`Integrations_proofs` holds for any templates, requests and events and any bounds, from `IntegrationsAssumption` alone.

- `TypeCorrect`: `Spec => []TypeOK`. That an event finds its subscriptions among `1 .. MaxRequests` needs a bound on `docs`: a request stores
  one at most, so the requests in progress and the subscriptions stored are together no more than the requests begun (`Budget`).
- `DeliversSafely`: `Spec => Delivery!Init /\ [][Delivery!Next]_(Delivery!vars)`, the refinement of `EventDelivery` without its fairness. The
  inductive invariant `DInv` relates what a loop remembers to the answers it got (`Tells`): from it a loop calls again just when its endpoint may
  be called again (`TellsWhenAgain`), and its record is how its calls ended (`RecordIsOutcome`). Each action has a lemma (`CallAttempts`, `ResultsClose`, `EndLoses`, ...).

- `AnswersHold`: `Spec => []RequestTakesEffect`, with all faults. In `EffectInv`, a request that overlaps no other is the only one (`NoOther`), whatever it has
  still to do is all that is missing of its effect (`AloneProceeds`), and only requests that raced leave two subscriptions (`OneSubscription`).

Only model-checked: liveness (`EveryTaskSettles`, `PaymentIsRecorded`, `SubscriptionEnds`, and the fairness of `EnteredOnce` and `DeliversOnce`), which is out of the prover's
reach. Every invariant and action property of the runs is proved, most of them for more than the run's instance; where a theorem assumes
something of the constants, it is what the run that checks the property assumes, or less, and the table in section 3 shows what happens without it.

## 5. What is abstracted

- Jobs of the queue: only their outcome, and that a node termination may end its own recurrence.
  Overlapping runs of one job are in `TaskQueue`, not in `ConnectSubscription`.
- `setLastRunDateForTask` reads and saves in one step.
- A usage report of zero units, which the code does not send; every period is taken to have usage.
- Several networks in one subscription, removal of one of them, coupons, the default payment
  method.
- Calls inside one `Promise.allSettled` fail together (`Throws`), not one by one.
- What is redelivered in an activation is not told apart from the first one where it
  links the same networks.
- In `Cart`: an activation is one step; `customer.subscription.deleted` for a subscription the cart itself canceled
  finds no document and is left out; a billing category per network; setup intents.
- In `NodePool`: the requests of a tenant follow each other; the provisioner has served an hour's messages before the next
  count; the lookup of the billing tier is part of that of the tenant's node; `user.connectedNetworks`, and a user update that fails at the
  termination, are left out; so are the questions of `heyhowareya` whether LND is unlocked, synced and connected, which change nothing; nodes of the users' own never enter the pool.
- In `CanonicalInvoice`: the tenant has the flag of the Cyclr integration, which the hourly task asks for, so a refused update of the
  unique `settledPayreq` throws; the bolt11s a cancelation does not wait for are canceled or expire later, any subset of them; amounts, balances, outgoing
  payments, quotes without an invoice, the ERP lookup and events are left out; a transaction is one scan, and mined stands for confirmed.
- In `Integrations`: one integration with one connector, the BlockSpaces one; a deleted cycle is gone at once, though Cyclr may only schedule it; a call is carried out before it returns or breaks off, or not at all; the four types of
  payment event are subscribed to together, as the code does; what an event holds, and who emits it.

### Not modelled

Components marked `not_modelled` in `PROJECT.json` keep no state of their own (clients of Stripe, LND, HubSpot, Jira, Vault,
QuickBooks documents; catalogs; authorization rules; plumbing), or are generated (`src/shared/proto`), user interface or scripts. The sessions and
second factor, registration, tenants, the QuickBooks token and the endpoints have state and are left: see the plan.

## 6. The plan

What is left, most important first:

1. `UserNetwork` and its cancelation, resumption included, composed with `Cart` and `ConnectSubscription` over one subscription, so that an activation can be
   interrupted between its steps.
2. QuickBooks tokens: refreshes that overlap leave the newest token stored.
3. Payment events of `CanonicalInvoice`, composed with `Integrations`: emitted at least once, and when twice.
4. Registration and the endpoints' two stores, as far as their failures can be stepped through.
5. The flow executor, as a function over a flow, against a reference definition.

Theorems: those of the modules above, as they come; what of `Cart` survives two requests at once; renewal together with cancelation, one inductive
invariant for both parts of `SubscriptionPrompt_proofs`.
