# AX10M in TLA+

AX10M recovers failed subscription payments. A processor reports a failed
invoice; AX10M assigns it to a holdout arm, and for the treatment arm runs a
durable saga that plans a retry, waits, and charges again, with a compliance
guardrail before every charge and a hash-chained ledger behind every step. From
the ledger it later computes the proven uplift, and bills a share of it.

This directory holds a TLA+ model of the parts of that system where order,
crashes and repetition matter, TLC configurations that check it on small
instances, and TLAPS proofs of what matters most for instances of any size.

## 1. Inventory

| Part | Where (under `src/`) | State it keeps | Operations | Talks to |
|---|---|---|---|---|
| Recovery saga | `packages/scheduler/src/{driver,saga}.ts`, `temporal/workflow.ts` | attempt number, saga time, timeline (durable, in Temporal) | plan, sleep, execute, settle, stop | case service, by activities that are at-least-once |
| Sequenced saga | `packages/scheduler/src/sequenced-driver.ts` | the planned steps | plan the sequence, then as above | the same |
| Recovery case service | `apps/api/src/recovery/recovery-case.service.ts` | `attempts`, `openedInvoices`, bandit baseline (all in memory) | handleEvent, openCase, planAttempt, executeRecovery, reversals, dunning, bandit flush | policy, guardrail, adapter, counter, ledger |
| Credential counter | `credential-attempt-store.ts`, `persistence/src/credential-attempt-repo.ts` | count and last attempt per credential | window, increment | case service |
| Guardrail | `packages/guardrail/src/guardrail.ts` | none | evaluate | called before every charge and message |
| Policies and bandit | `packages/recovery-engine/src` | the bandit's arms | decide, update, merge | case service |
| Ledger | `packages/attribution/src/ledger.ts`, `ledger-port.ts`, `ledger-repo.ts` | the chain; one promise per process | append, all, head, verify | Postgres |
| Adapters | `packages/poal/src`, one per processor | none (the processor's: answers per idempotency key) | capabilities, ingestWebhook, attemptCharge, fetchUpdatedCard, listPaymentMethods, listOpenFailures | processors |
| Webhooks | `apps/api/src/webhooks` | connections | route, verify, hand to handleEvent | case service |
| Comms | `packages/comms/src`, `send-dedupe` | keys of sent messages | compose, send | email and SMS providers |
| Billing | `packages/billing/src`, `apps/api/src/billing` | statements (in the ledger), accounts, invoices | run, charge, invoice, notify, sweep | ledger, Stripe |
| Onboarding | `packages/onboarding/src`, `apps/api/src/onboarding` | per-merchant state and observations (in memory) | connect, record, activate | case service |
| Analytics, backtest, dashboard, health | | none | read | ledger |

What is hard in it, and what makes each part correct:

* **The saga.** Temporal repeats an activity after a crash, an error or a
  timeout, and does not stop the try that timed out. Each try runs a dozen
  awaited calls, and the counter the guardrail trusts is read before and bumped
  after the charge. Correct means: a case is collected at most once, the card
  network's cap holds, what is reported recovered was collected, nothing is
  charged unplanned or unlawfully, and the saga ends.
* **The ledger.** The API and the worker append to one chain. Correct means: the
  chain verifies at every moment, no resolved append is lost, one process's
  appends keep their order, and one rejected append does not block the next.
* **Reversals** read the ledger and then append to it, and webhooks are
  redelivered: net recovery must stay between zero and what was recovered.
* **Intake** keeps the set of opened cases in memory and starts a workflow per
  webhook: one case, one assignment, one saga.
* **The adapters** put one contract on twenty processors: a failure must find
  its case, a refusal must be told from an error, a key must reach the processor,
  and what is reported of a charge must lead back to its case.
* **Dunning** asks whether a message was sent, sends it, then records it.
* **The bandit flush** is a load, a merge and a save by several processes.
* **Billing** appends a statement (with the watermark that prevents billing
  twice), then charges, then issues and sends an invoice; any of these can fail.
* **Onboarding** can be connected twice and gets its observations from
  redelivered webhooks.

## 2. Plan

| # | Module | Composes | Status |
|---|---|---|---|
| 1 | `Guardrail`, `RecoverySaga`, proofs | Guardrail in RecoverySaga | done |
| 2 | `LedgerSpec`, `Ledger`, proofs | Ledger implements LedgerSpec | done |
| 3 | `Reversals` (net recovery under redelivery and concurrency), proofs | | done |
| 4 | `Onboarding`, `Intake` (handleEvent, openCase, plan, dispatch, restart), proofs | Onboarding in Intake | done |
| 5 | `Billing` (statement, watermark, charge, invoice, rerun), proofs | | done |
| 6 | `Sender`, `Delivery`, `Dunning`, `Notices` (composing, guardrail gate, table of what was sent, retries; opting in, first notice, sweeps), proofs | Guardrail and Delivery in Dunning, Dunning in Notices | done |
| 7 | `Adapter`, `Clients`, `Declines`, `BillingAdapters`, `GatewayAdapters`, `CommerceAdapters` (each adapter), `Processors` (what is behind them), `ProcessorFlow`, proofs | the adapters in ProcessorFlow | done |
| 8 | `Flywheel` (learning, flush, restart over one stored row), proofs | | done |
| 9 | `SequencedSaga` | Guardrail, implements the same abstract saga | open |
| 10 | timing and holdout fraction, as operators | | open |

What is open is the smaller part: the sequenced driver runs the same activity
under the same numbers, so that what holds of a try holds there too.

Still worth proving: that an abstract "charge at most once" saga is implemented
by `RecoverySaga`.

## 3. The saga: `Guardrail.tla`, `RecoverySaga.tla`

`Guardrail!Evaluate` is `evaluate` of the guardrail, check by check, in the
code's order. It has no state. `RecoverySaga` calls it with the proposed charge.

`RecoverySaga` is one failed invoice.

| State | In the code |
|---|---|
| `phase, attempt, try, status` | the workflow: where `runRecoverySaga` is, its `attemptNumber`, the number of the activity's current try, the stop reason |
| `nowIso[n]` | the saga time (hours) stamped on execute number n |
| `step, cred, seen, result` | per try `<<attempt, try>>`: the next awaited call, the credential it works on, the counter window it read, what it will return |
| `attempts, lastAt` | the credential counter |
| `answer[<<credential, n>>]` | the processor's first answer to an idempotency key |
| `ledger` | a set of entries, tagged with the try that wrote them |
| `shadow, decline, policy` | the case and the deployment; any combination, fixed at the start |

The workflow's actions are `PlanStops`, `PlanThenSleep`, `PlanFails`,
`PostExecute`, `AwaitSettlement` and `RetryActivity`. A try's actions are one per
awaited call of `executeRecovery`, `executeCredentialRecovery` and
`attemptRecovery`: `ReadWindow`, `Decide`, `EngineSuppress`,
`SeekFreshCredential`, `GuardrailSuppress`, `ShadowCharge`, `Charge`,
`IncrementAttempts`, `RecordCharge`, `RecordRecovery`, `SendComms`. A crash needs
no action: it is a try that takes no further step while `RetryActivity` starts
the next one. `Zombies` says whether a replaced try may take steps still.

Left out: the policy's scores (any answer its rules allow may come, and a try
that is repeated may get another answer, since the features and the clock it
decides from have changed), the in-memory statistics, the bandit's learning, the
text and delivery of messages. The processor is taken at its word: it repeats
its first answer to a key it knows.

### What is checked

`MCSaga.cfg` (run `saga`, 236 thousand states): the default policy, three attempts,
two tries each, late tries included, a retry at once or two hours later against
an interval of one hour, a network cap of two so that the cap binds before the
attempts run out.

* `ChargedOnce`: money is in flight or collected under one key at most. It needs
  the saga to own the number *and* to move on only after a failure *and* the
  processor to repeat its answers: three different pieces of code.
* `NetworkCapRespected`: the original card is submitted under no more keys than
  the cap, although the counter is read long before it is bumped.

`MCSagaBandit.cfg` (run `saga_bandit`, 643 thousand states): both policies, so that
credential recovery is reached; two attempts of two tries; a replaced try takes
no further step.

* `RecoveredIsBacked`: a recovered saga collected under its last number and
  ledgered it; no `case.recovered` without collected money.
* `ChargeIsPlannedAndLawful`: engine, ledger, guardrail, adapter, in that order.
* `SagaEnds`: with fairness of the workflow only. Temporal keeps a workflow going
  and times activities out; nothing is assumed of a worker.

The smallest bounds that show each property's hazard are two attempts (a number
that moves on) and two tries (a repetition); a third attempt lets the network cap
bind. More only repeats the same shapes, and the proofs cover every bound.

One run shows where the code does other than its comments say:

* `saga_fresh_credential` (`CollectedOnce`): `recovery-case.service.ts:812-814`
  says the distinct keys of fresh credentials keep exactly-once. They do per
  credential; a replayed try may choose another credential and collect twice.

The model also shows, without a run of its own, that a replayed execute is not
always de-duped by the processor, as `driver.ts:14-17` says: if the first try
counted the attempt before it died, the guardrail stops the replay, because no
time has passed since "the last attempt", and the saga ends
`guardrail_suppressed` with the money collected. And that the stop reason
`card_update_comms` ("handed to comms", `types.ts:86`) hands nothing over:
`planStep` stops the saga before anything executes.

### What is proved

`RecoverySagaProofs.tla`, from `BoundsAssumption` and `ChoicesAssumption` only
(the bounds are natural numbers, attempts and tries at least one):
`TypeCorrect`, `ExactlyOnce`, `CapHolds`, `RecoveredBacked`, `PlannedAndLawful`,
each `Spec => []P` for the property above it.

None of them is inductive. The invariant `IInv` adds:

* `Frontier`: only the attempts reached have tries and answers;
* `TryKnows`: what a try knows at each of its steps, such as that a result it
  carries is the processor's answer to its key, and that a returned failure on
  the original card was counted. Other processes cannot falsify it
  (`KnowledgeStays`) because answers never change and the counter only grows;
* `EarlierFailed`: every earlier attempt failed on the original card and the
  counter is at least `attempt - 1`;
* `UnderCap`: a used key's number is at most the cap, because the counter a try
  saw was at least its number minus one;
* `PlannedFirst`, `Terminal`, and `OnlyOriginal` (under the default policy no
  other credential is ever touched).

`ChargedOnce` follows: two different numbers with money contradict
`EarlierFailed`, two different credentials contradict `OnlyOriginal`.

## 4. The ledger: `LedgerSpec.tla`, `Ledger.tla`

`LedgerSpec` is what `LedgerPort.append` promises, and what the in-process
`HashChainedLedger` does: a log that only grows at its end, holds a call once,
and keeps the calls of a process in their order.

`Ledger` is the persisted one: several processes, each with the promise mutex of
`PersistedLedgerPort`, over `LedgerRepository.append`.

| State | In the code |
|---|---|
| `rows` | the table `ledger_entries`, keyed by seq |
| `called, settled` | appends called, and settled, of the promise chain of a process |
| `pc, retry, head` | the running append: next statement, loop counter, the head it read |
| `acked` | the calls whose promise resolved |
| `lockable` | whether the backend takes the advisory lock |

`Call`, `Begin` (the mutex lets the next one through), `TakeLock`, `ReadHead`,
`Insert`, `Collide` (unique violation: retry or give up), `Abort` (any other
error), `Restart`. Insert and commit are one step, because a conflicting insert
waits for the commit; a hash is a free term, so two hashes are equal only when
what they hash is.

Run `ledger` (6750 states): two processes, two calls each, two tries of an
append, both backends.

* `ChainVerifies`: `verifyChain` over the rows passes at every moment.
* `AckedIsStored`: a resolved call is stored. The converse is false, and is not
  claimed: when the answer to a commit is lost, a rejected call is stored.
* `ImplementsLog`: `LedgerSpec` under the map "the rows in seq order".
* `AppendsSettle`: an append settles, although an earlier one was rejected, with
  fairness of each process's own steps (the process is up and Postgres answers).

Two processes make every race, two calls each make an order within a process,
and two tries make a retry and a last retry.

`LedgerProofs.tla` proves, for any number of processes, calls and retries, from
`LedgerAssumption`: `TypeCorrect`, `ChainAlwaysVerifies`, `LockExcludes`,
`AckedStays` and `Implementation`, the refinement. `LockExcludes` says
(`NoLostRace`) that under the lock the retry never happens. The inductive invariant adds
that the seqs are an initial segment (`Contiguous`), that under the lock there is
one transaction whose head is still the last row (`Exclusive`), that a process
runs only what was called (`Queued`), and that only settled calls are stored, so
the running one is new (`StoredSettled`).

## 5. Net recovery: `Reversals.tla`

One invoice, whose collected money a processor takes back (refund, chargeback)
and gives back (won dispute). Handling such a webhook reads the whole ledger,
caps the amount to what it still allows, and appends.

| State | In the code |
|---|---|
| `event, pc, booking` | per webhook: its content, where `recordReversal` or `recordReversalReverted` is, the capped amount between its two awaits |
| `recovered, reversed, reverted` | the sums over the invoice's ledger entries, which is all the code reads of them |
| `held` | the processor's: what the merchant has |
| `serial` | whether one webhook is handled at a time; fixed at the start, both checked |
| `history` | what a property excuses: a repeated report, an `early` refund (before the recovery is ledgered), overlapping reports, a won dispute |

`TakeBack`, `GiveBack` and `Redeliver` are the processor; `Recover` is the saga,
whose entry a late try may repeat; `Ignore`, `ReadNet`, `AppendEntry` and
`AppendFails` are the handlers, the ledger's mutex making the append one step.

Run `reversals` (62 thousand states): three webhooks about an invoice of three
units, two recoveries at most.

* `CapsHold`: one webhook at a time, no sequence of refunds, redeliveries and won
  disputes takes the net out of 0 to what was recovered.
* `RefundsAreExact`: refunds reported once each leave exactly what the merchant
  has, even when they are handled at the same time.

Three webhooks are a refund, a second of the same kind and a won dispute; an
invoice of three units lets two partial refunds differ and the cap cut a third.

* `reversal_race` (`NeverOverReversed`): the comment of `recordReversal` says it
  never claws back more fee than was earned. Two handlers of one refund read the
  same net and both append it.

Without a run of its own: the cap of a reversal is what was recovered less what
was reversed, without what was reinstated (`netRecoveredForInvoice`). After a
chargeback and a won dispute the net is zero although the money is held, so a
later refund is ignored, and the P&L keeps the fee. `RefundsAreExact` therefore
says nothing of invoices with a won dispute.

`ReversalsProofs.tla` proves `TypeCorrect`, `CapsAreKept` and
`OnlyEarnedIsClawedBack` (handlers that race do not reverse what was never
recovered either) for any number of webhooks and any amount. The
strengthening says that a serial handler is alone and that its booking still
fits the net it read (`Alone`), and that a handler that appends has seen
something to take back (`Earned`).

It also proves `RefundsLeaveWhatIsHeld` (`RefundsAreExact`). What refunds leave is
a sum over webhooks, and no induction over webhooks can be written here, so the
invariant (`Exact`) deals out units of money in place of adding: every webhook has
been dealt a set of units as large as its amount, the sets of two webhooks are
disjoint, and the units of the webhooks that were ledgered are as many as the
entries reversed (`Dealings`, `Disjoint`, `Accounted`). A handler that appends
then moves a set of units from held to taken, and the cardinality of a disjoint
union is all the arithmetic there is. Such an invariant is not a fact about the
state alone: it says that a dealing exists, and each step names the next one.

## 6. From webhook to saga: `Onboarding.tla`, `Intake.tla`

`Onboarding` is a merchant's shadow measurement. `Intake` extends it: the API
process handles webhooks, each up to its next await, in any interleaving.

| State | In the code |
|---|---|
| `status, missed, baseline` | `OnboardingService`: the merchant's status, and its observations without and with `baselineRecovered` |
| `opened` | `openedInvoices`, lost by `Restart` |
| `message, pc` | per webhook: its content, and the await its `handleEvent` is at |
| `assigned, planned` | the ledger's `holdout.assigned` and `recovery.planned` entries |
| `workflow, sagas` | Temporal: the workflow under an invoice's id, and how many there were |
| `collected, paid` | who collected the invoice |
| `arm` | the hash of each unit against the control fraction: any function |
| `dispatching` | whether sagas are started, and whether they charge |

`Reopen`, `OpenCase`, `AppendAssigned`, `AppendPlanned`, `Dispatch`,
`DispatchAlreadyStarted` and `HandlePaid` are the handler; `HandlerFails` is any
of its awaits throwing, after which the processor sends the webhook again;
`Connect` and `Activate` are the operator's; `SagaEnds` is all that `Intake` sees
of a saga. There is one API process, as `onboarding.service.ts` has it. The
shadow window ends at some time (no clock), and a projection is positive when
the baseline missed something.

Run `intake` (2 million states): two webhooks, two invoices of one customer, two
strata, one restart, two sagas of one invoice at most.

* `ControlIsUntouched`: no control invoice is planned, run or recovered.
* `AssignedOncePerLife`: concurrent deliveries count an invoice once; a restart
  may count it once more.
* `AckedIsDispatched`: an answered failure of the treatment arm has its saga.
* `ActivationIsMeasured`: what a merchant was activated on stays.

Two webhooks race, or are a failure and its redelivery, or a failure and a
payment; two invoices share a unit; one restart empties the memory between.

`recovery-dispatcher.ts:7-9` says that a redelivered webhook cannot start a second
saga for a case. That is no property here either: Temporal refuses the id only
while the first runs, `client.ts:36` leaves the reuse policy at its default, and
in the model a failure redelivered after `SagaEnds` is dispatched again.

`docs/ATTRIBUTION.md` has the assignment ledgered before the outcome. That is no
property here, because it does not hold: the case counts as opened before the
append, so that a redelivery after a failed append goes on without an entry.

`IntakeProofs.tla` proves all five for any number of invoices, webhooks and
restarts, and `OneArm`: nothing puts two invoices of a customer in different arms
(`OneArmPerUnit`). Besides the properties, the invariant says that entries are in the arm
of their unit and plans in treatment (`ArmsKept`), that a handler at `plan` is of
the treatment arm and one at `dispatch` has its plan stored (`HandlerKnows`),
that a saga has its plan (`Treated`), and that one handler at most is appending
the assignment of an invoice, while its entries are at most the restarts, and
one more once it is done (`Opening`).

## 7. The monthly bill: `Billing.tla`

One merchant (a run of the job takes one after the other, and an error ends it
for all that follow). A run bills the month before the current one: the cohort of
the invoices assigned in it, whose outcomes go on changing.

| State | In the code |
|---|---|
| `period` | `previousMonth` of now |
| `lift` | `lowerDollarsCum` of each cohort, as the ledger stands: any value |
| `pc, snapshot` | per run: its next await, the entries it read at its start |
| `statement, stored` | per run: the signed statement; the runs whose `uplift.statement` was appended |
| `charges, collected` | Stripe's PaymentIntents that succeeded, and their sum |
| `invoices` | the table, keyed by invoice number, that is by period |
| `payer, live` | the account's track, and `AX10M_LIVE_BILLING` |
| `accrued, absorbed` | not in the code: the sum of the stored increments, and of the negative ones |

Amounts are in units of proven lift, of which the fee is the 12%. The statistics
are a choice: any bound, any outcome of the gates other than that of a positive
bound, any holdout credit up to the fee. `ReadLedger`, `Compute`,
`AppendStatement`, `Charge` or `NoCharge`, and `IssueInvoice` are a run, `Dies`
ends it anywhere; the statement's append is one step, as section 4 justifies.
The last thing a run does, to send a notice of the invoice, is in section 9.

Run `billing` (3.2 million states): three runs over two months, two movements of
what the cohorts prove, overlapping or not.

* `IncrementsAddUp`: if runs do not overlap, the increments stated add up to the
  watermark, wherever a run dies and whatever moves meanwhile. So no lift is
  stated twice, or left out of every statement, for a crash. What was stated may
  still never be collected: a run that dies after its statement leaves a fee that
  no rerun bills, since the watermark has moved on.
* `CollectedIsProven`: what such runs collect exceeds the watermark by no more
  than the negative increments, which are stated as credits and never settled.
* `MoneyIsOnRecord`: overlapping or not, what is charged or invoiced is a stored,
  billable, positive statement of that period.

Three runs are what a fall needs (billed, fallen, billed again); two months put
the fall into a cohort of its own; a lift of one unit is the smallest that can
fall.

* `billing_above_cumulative` (`NeverAboveCumulative`): `docs/ATTRIBUTION.md:488`
  says never to bill above the cumulative bound, and that a fall is credited. The
  net is floored at zero, and the watermark falls all the same. The cumulative bound
  is of each month's own cohort, in the code as in the model: the fees of all months
  are compared with the bounds the statements named.

The model says less for overlapping runs, on purpose: their idempotency keys
differ, because the statement's hash covers `generatedAt`, so two of them charge
for one rise of the watermark.

`BillingProofs.tla` proves all four for any number of runs, months and movements.
The invariant says that runs have different times (`Times`) and that a stored
statement has the watermark (`HasLatest`); for runs that do not overlap, that the
watermark a run has read is still in force and its statement is going to be the
latest (`UpToDate`), that the latest statement states the sum of the increments
(`Latest`), and that what is charged next is already accrued (`Covered`).

## 8. The processors: `Adapter.tla` to `ProcessorFlow.tla`

An adapter keeps no state. Each is a set of operators, named for the processor
and the operation, over native objects that are records of some of their fields:

| Module | In the code |
|---|---|
| `Adapter` | the contract (`adapter.ts`), canonical invoices and events, what the base class does |
| `Clients` | `client.ts` of each processor: which answers are thrown, and which come back as an answer |
| `Declines` | the tables that turn a code or a text into a canonical decline |
| `BillingAdapters` | Stripe, Chargebee, Recurly, Zuora, Maxio, GoCardless |
| `GatewayAdapters` | PayPal, Checkout.com, Worldpay, Adyen, Braintree, Elavon, TSYS, Deluxe |
| `CommerceAdapters` | Shopify, WooCommerce, and the four that only measure: BigCommerce, ThriveCart, Kajabi, SamCart |
| `Processors` | external: the webhooks, answers and rows of each processor, as the adapter and its tests read them |
| `ProcessorFlow` | one merchant's processor, its webhooks under way, and the recovery cut down to what meets an adapter |

| State of `ProcessorFlow` | In the code |
|---|---|
| `proc` | the merchant's processor, fixed at the start |
| `payments` | the processor's: what it tried to collect, under which key and method, what it first answered, what went back since |
| `wire` | webhooks under way, in no order |
| `reported, missed` | the canonical events; not in the code: what the webhooks told that were answered with success and became none |
| `cases` | per invoice id: the decline and the customer the case was opened with, attempt, try, method, status |

The processor collects on its own (`OwnPayment`), settles, refunds and is
disputed, with an outcome (`WinDispute`, `LoseDispute`). It tells of each of these
what it has a webhook for, whether or not the adapter has a case for it: the stages
of a chargeback at Worldpay, disputes that were lost, refunds in the shops. AX10M
takes webhooks (`Deliver`, with lookups that fail), decides an attempt
(`StartAttempt`) and charges (`Charge`, whose answer may be lost; `ChargeThrows`,
which never reached it). The saga is that of section 3 with one
step per try: what is settled there by many is not asked again.

Run `processors` (916 thousand states, every adapter in behaviours of its own):
two bills of one subscription, the first of which may find its card dead; two
attempts of two tries; three payments, two refunds or disputes, two webhooks
under way. Two bills can be confused, two tries lose an answer and repeat, a
third payment is one too many, two returns are partial refunds or a dispute won.

* `OncePerKey`: one key moves money once.
* `CollectedOnce`: a bill is collected once, by the merchant, an attempt or a method.
* `EventsJoinTheCase`: what is reported of a charge carries the id of its case.
* `BillsAreToldApart`: bills of one subscription have cases of their own, and a
  poll lists a bill under the id its webhooks have, as long as nobody paid it.
* `ReversedIsReturned`: what is reported as reversed did go back.
* `AckedIsSeen`: a failure, payment, refund, dispute or dispute won is on its way or
  was reported as what it was, and nothing is reported that did not happen; a webhook
  is answered without an event only for what `Unlearnt` names, adapter by adapter.
* `FailedIsFailed`: an attempt that counts as failed collected nothing.
* `CollectedIsKnown`: what was collected is learned of, by answer or by webhook.
* `DeadCardIsSpared`: a card reported stolen or closed is not charged for that bill.

Each names the processors it does not hold of, with the reason; what the
adapters' own comments say of those:

* Elavon and Braintree send no idempotency key; `elavon/adapter.ts:125-130` has
  exactly-once "enforced upstream", which nothing does.
* Maxio answers 422 for a bill that is paid, and the adapter takes that for a
  decline. Maxio and Braintree report the subscription in place of the bill.
* A charge at PayPal or Shopify makes an object of its own whose webhooks do not
  lead back to the bill; nor do disputes at Checkout.com without a reference.
* `gocardless/adapter.ts:167-181` counts on the redelivery of an event it could
  not look up, but the webhook it came in is answered with success.
* Worldpay emits chargebacks that carry the reference, and the adapter leaves them
  out because it cannot tell their stages apart (`worldpay/adapter.ts:221-229`).
  Disputes do not reach AX10M from Zuora, the shops and Braintree's own payments
  either, and have no webhook at Chargebee, Recurly, Maxio and WooCommerce; Stripe's
  take a lookup. The root `README.md:198-199` says of refunds and chargebacks that
  they are wired "across every adapter with a reliable invoice mapping", which
  Worldpay's would be.
* Stripe, when the refund has no amount of its own, and WooCommerce report
  running totals; GoCardless reports the whole payment; Adyen reports one dispute
  under several codes.
* Stripe's `invoice.payment_failed` is given no decline, so that a dead card is
  retried as a soft decline; Recurly and GoCardless charge what is on file.

Seen while modelling, without a property: `processorEventId`, on which
`adapter.ts:97-98` has duplicates found, is read by nothing; `integrationMode` is
checked by nothing; no adapter puts a `method` into `invoice.failed`, so that a
durable saga never starts from a webhook; a failure at Adyen, Braintree,
Checkout.com or Worldpay names no customer, so that it has no backup method;
Chargebee's `fetchUpdatedCard` keeps the token, so that a refreshed card is never
charged as one, and no other adapter has it; a case keeps the decline it was
opened with, whatever a later attempt is answered; the polls of Stripe and Zuora
list open bills whether they failed or not. Of the tables, those of Zuora, Maxio
and WooCommerce know no closed account, those of PayPal and Shopify no lost or
stolen card, Checkout.com's makes a closed account (20046) a soft decline, and
Zuora's, "specific first", asks for `declined` before `invalid`.

Simplified: the poll is judged as an operator, because nothing calls it
(`ReconcilerService.pollOnce` is a stub), and its paging is left out. An empty
answer with status 200, which most adapters take for pending, is left out of the
refusals, and so are signatures and the tokens that Zuora's and PayPal's clients
keep for the life of the process. Elavon's and TSYS's tables of declines are not
modelled: they report no failure, and nothing reads the code of a charge's answer.
The rules of the decline tables that read a text are kept as far as a funds or a
dead card's text meets them, and of the spellings a shop has for one webhook
some stand for all.

`ProcessorFlowProofs.tla` proves the properties of the run, for any number of bills, attempts, tries, payments, returns and webhooks under
way, and for each of the adapters. `FlowAssumption` has the counts natural and
the processors served among `Adapters`, which are the registry's that have code.

| Theorem | States |
|---|---|
| `InvariantHolds`, `KeysMoveMoneyOnce`, `ChosenMethodIsCharged` | `OncePerKey`, and that the method charged is the one of the key (but at Recurly and GoCardless), from what a request passes on |
| `FlowInvariantHolds` | the invariant `FInv` that the rest follow from |
| `FlowTypeCorrect` | `TypeOK` |
| `BillsAreCollectedOnce` | `CollectedOnce` |
| `EventsGoByTheirCase`, `BillsKeepTheirInvoices` | `EventsJoinTheCase`, `BillsAreToldApart` |
| `NoWebhookIsMissed` | `AckedIsSeen` |
| `FailuresCollectNothing`, `CollectedIsLearnt` | `FailedIsFailed`, `CollectedIsKnown` |
| `DeadCardsAreSpared` | `DeadCardIsSpared` |
| `ReturnsInvariantHolds`, `ReversalsAreReturned` | the invariant `ReturnsInv` of what goes back, and `ReversedIsReturned` from it |

The proof has the shape of the code. Lemmas about one adapter each say what it
makes of a webhook (`ChargebeeTells`, ...: the events of an occurrence are true
to it, `Faithful`, and there is one unless a lookup failed) and of an answer
(`StripeFails`, ...: a charge that counts as failed was declined, or refused for
a bill somebody paid). `WebhooksAreTold` and the lemmas of the answers collect
them by processor, and from there on no adapter is looked into again. `Learnable`
says of an occurrence whether its adapter makes an event of it, and `Told` that it
made one; what the processor sends beyond that makes none. `LearntUnlessNamed` has
`Learnable` for the complement of `Unlearnt`. Of the
conjuncts of `FInv`, each is there because another is not inductive without it:

* `CasesOK`, `PaymentsOK`: a payment of an attempt has the bill of its case and
  the reference its adapter gave it. Without that a webhook, which carries the
  reference, could be any bill's.
* `WireInv`, `ReportedInv`: what is under way or was reported happened, and stays
  so. A case is opened from it later, when much else has changed.
* `AttemptsInv`: the attempts of a case are made one after the other, and the
  payment of one that is over is declined (but at Maxio, Elavon and Braintree). With
  `KeysAreUnique` only the payment of the current attempt can still collect.
* `OwnOnce`: at Checkout.com, Worldpay, Adyen and TSYS a charge names nothing
  that could be paid already. There a bill is collected once because the merchant
  tries it once, and only a failure opens a case.
* `HaveFailed`, `SparedInv`: behind a decline that can be retried is a payment that
  failed for want of funds.
* `HappenedIsTold`: what happened to a payment and can be learnt is told of, or its
  webhook is under way; `MissedInv`: what was answered with nothing could not be.
  `AckedIsSeen` follows from these and `ReportedInv`, `CollectedIsKnown` from the first.

`ReturnsInv` is proved beside it, of the adapters that `ReversedIsReturned` names.
What the reversals add up to is not inductive: a webhook under way is reported
later, and which amount it has is the adapter's word. So the invariant says of
each payment which events there can be. As long as it is not disputed, each
webhook of a refund under way is the one of some unit that went back, and each
event reported is `RefundOf` such a unit, whose number is in the id the adapter
takes over: as many events as units, of one unit each. Once it is disputed nothing
of it was refunded, its one webhook (`ReturnsAreTold`: the processor sends no more
than one) is under way or was reported, and what was reported is one event of the
bill. `NamedByNumbers` counts them. `ReversedIsReturned` is stated with a set of
units for that reason: how a fold over the events grows is an induction over its
definition, the cardinality of a set is not.

`FInv` and `ReturnsInv` were checked by TLC on the instance of the run before they
were proved; of their parts only `PaymentsAreRecords` is beyond TLC, and follows there from `PaymentsOK`.

## 9. Messages: `Sender.tla`, `Delivery.tla`, `Dunning.tla`, `Notices.tla`

`Delivery` is the protocol that reminders to customers (`deliverDunning`) and
notices to merchants (`deliverStage`) share, on one table: ask, send, record.
`Sender` is the transport under it, `Dunning` the gate before a reminder,
`Notices` AX10M's own invoices with the jobs that send them.

| State | In the code |
|---|---|
| `pc, key, sendable, try` | per process: the await its delivery is at, the message, whether `assertSendable` passes it, the try of the retrying sender |
| `store` | `dunning_sends` |
| `live, customer, template` | the deployment: what is sent for real, whom the webhook named, what the template makes of it |
| `inbox` | external: how often each message arrived, counted to two |
| `excused` | not in the code: messages of which a copy arrived unrecorded |
| `account, signing, accepted, optIns` | the portal: the stored account, then, an await later, the acceptance |
| `invoices, reissued, charged` | the stored invoices, and what was collected under which track |
| `work, says, day` | per process: what its sweep has left, the total its notice states; today |
| `told` | external: the last notice that arrived |

Run `delivery` (1.3 million states): two processes (sweeps, jobs, tries), one
month, one reminder, two requests per send, days 0, 24 and 35 (issued; overdue;
final notice), one billing again, one opting in. An answer may be lost with or
without the message arriving; a process may die anywhere.

* `SentOnceOrForCause`: nothing is recorded that was not sent, and a message
  arrives twice only if a copy could not be recorded: an answer was lost, a
  process died between sending and recording, or two delivered at once. Re-runs
  and retries alone never repeat one.
* `OnlyWithConsent`: no reminder without consent for its channel, or to a customer
  who has unsubscribed; the run has one of each.
* `ChargedIsAgreed`: a fee is collected only under a signed auto-pay, or in the
  opt-in's gap between account and acceptance.
* `NoticesEscalate`: of an invoice issued once a merchant is never told an earlier
  stage, or less, than before, if the jobs do not overlap.

Two processes make the races; two requests a retry and a last one; three days a
notice of each kind and a date that moves while a sweep is under way.

`DeliveryProofs.tla` proves `SentOnce`, `ConsentIsKept` and
`AgreementsPrecedeCharges` for any number of processes, messages, tries and days.
The invariant says of a message that is not excused (`Careful`) that one process at
most is past the question whether it was sent, that no copy has arrived while that
process is sending, and that once one has, it is recorded or about to be.

It also proves `NoticesTypeCorrect` and `NoticesOnlyWorsen` (`NoticesEscalate`),
for any days and late charges. A sweep reads the invoices and the date once, and
delivers what follows from them later, when the date may have moved and the same
invoice may have been swept before. The invariant (`EscalatingInv`) therefore
speaks of stages and totals that are due by a date (`DueBy`): at most one process
is at work, every invoice is the only one of its month (`OneAtWork`), and what the
merchant was told last was due by the date of every sweep still to be carried out
and of every notice under way (`InTurn`). What is due stays due (`DueGrows`), and
the stage a sweep picks is the last one due (`StageIsLast`), so it is no earlier.

## 10. The flywheel: `Flywheel.tla`

The API and the worker learn from the outcomes of charges, each with a bandit of
its own, and every 25 updates merge what is new into one stored row.

| State | In the code |
|---|---|
| `learned, baseline, sinceFlush` | per process: the bandit's sums, `banditBaseline`, `banditUpdatesSinceFlush` |
| `stored` | the row `global` of `bandit_state` |
| `flush` | per outcome that set one off: the await `flushBanditState` is at, its snapshot, and the row it has read or is to write |
| `by` | which process learned an outcome |
| `overlap` | which flushes overlap: any, those of different processes, none; fixed at the start |
| `dropped, unsure` | not in the code: outcomes lost with a restart or by an update during a flush; outcomes whose save was made and not answered |

`A`, `b` and `n` of an arm are sums over outcomes, and a merge adds and subtracts
sums, so a bandit is how often each outcome is in them, and the ridge cancels. The
inverse of `A` is computed from `A` and left out, and so are the scores.
`learnOnline` calls the flush without awaiting it; the snapshot is taken in that
call. A process that dies leaves at most a save under way (`orphan`).

Run `flywheel` (47 thousand states): two processes, six outcomes, a flush after
every second, one restart. Six outcomes are three flushes, two of one process
beside one of the other, or one after a failed one; two per flush leave room for
an update while one is under way.

* `NeverCountedTwice`: where a process has one flush at a time, an outcome is in
  the row and in each bandit at most once, though the processes overwrite each
  other, unless a save was made whose answer was lost.
* `NothingIsLost`: where no two flushes overlap, an outcome is in the row or in
  what its process saves next, but for those a restart or an update during a
  flush has cost.

Both name what they do not promise, and `recovery-case.service.ts:164-168` ("so
contributions pool without double-counting") does not say so: two flushes of one
process merge the same delta twice; a save that fails after it was made is made
again with the next; two processes between load and save lose one's delta, as
`contextual-bandit.ts:343-344` admits; and `restore` drops what was learned since
the snapshot.

`FlywheelProofs.tla` proves `TypeCorrect`, `CountedOnce` and
`NothingLearnedIsLost` for any processes, outcomes, cadence and restarts, from
`FlywheelAssumption`. The invariant follows one outcome (`Clean`): as long as the
process that learned it has it pending, either a flush of that process has saved
it and is about to adopt (`Told`), or it is nowhere but in that process and its
flush (`OnlyAt`), so that a merge adds it to a row without it. For the second
property, a flush that is alone holds what the row holds (`Kept`).

## 11. Model-checked only

`SagaEnds` and `AppendsSettle` are liveness and `tlapm` proves no liveness under
fairness. The disagreements are counterexamples of TLC. Every invariant and every
action property of the passing runs is proved.

## 12. Not modelled

The parts of the plan still open (section 2), and, for good: the statistics of
attribution and the training of the engine (floating point, no control), the
reconciliation of `attribution/src/reconciliation.ts` (called by nothing in the
apps), the wording of messages, the dashboard, the backtest, the reconciler
service (a stub), the adapters that are skeletons (their base class is modelled).

## 13. Running it

    for m in Saga Ledger Reversals Intake Billing Processors Notices Flywheel
    do tlc -workers 2 -config MC$m.cfg MC$m.tla
    done
    tlc -workers 2 -config MCSagaBandit.cfg MCSaga.tla
    for m in RecoverySaga Ledger Reversals Intake Billing ProcessorFlow Delivery Flywheel
    do tlapm ${m}Proofs.tla
    done

The operators of a module whose comment says "bug" are not part of the
specification: each is a mutation of a definition that one of the properties
rejects.
