# NOLI Vendaz back office: TLA+ models, model checking and proofs

NOLI Vendaz is the control plane of a vending business: clients ask it to vend
a product that has been paid for, it picks a provider, calls it over HTTP,
remembers what came of it in PostgreSQL, and later sorts out whatever stayed
open (unknown outcomes, refunds, settlements). This directory holds TLA+ modules
of the parts where that can go wrong between two steps, TLC configurations that
check them on small instances, and theorems that TLAPS checks for every instance.

Two facts about the code shape every model:

* **One repository function is one database transaction** (`withTenantContext`,
  `packages/database/src/index.ts`), at READ COMMITTED. It is one atomic action
  here unless the part's own section says otherwise; row locks (`FOR UPDATE`, `SKIP LOCKED`), unique indexes and the `WHERE`
  clause of an `UPDATE` are what orders it against others.
* **A route or a worker cycle is a sequence of such functions with provider
  calls in between.** Other processes run between any two of them, the process
  can die between any two of them, and a lease can run out meanwhile.

## Inventory

| Component | State | Operations | Talks to | Hard part | What makes it correct |
|---|---|---|---|---|---|
| Vend dispatch (`routes/vending.ts`, `phase3-repository.ts`, `phase3-safety-repository.ts`) | `transactions`: status, vend status, dispatch state, lease, attempts | look up / route and insert, claim, call, record, complete, replay | orchestrator, routes, clients that retry | racing requests with one key, crashes, leases shorter than provider timeouts | one transaction and one provider per key, one dispatcher, no invented outcome, nothing stranded |
| Route selection (`prepareRoutedVend`) | routes, candidates, health, lifecycle | choose by priority and rank within the environment | dispatch | eligibility changes between attempts | the choice is frozen in the row |
| Provider orchestrator and adapters | none | call, classify, normalise | providers over HTTP | a timeout says nothing about the purchase | ambiguous is UNKNOWN, not FAILED |
| Transaction recovery worker (`recovery-worker/src/engine.ts`) | `recovery_*` columns | claim, query, apply, back off | orchestrator | several workers, expired leases, death with a claim | a stale worker writes nothing; a final status is the provider's |
| Recovery escalation | `support_cases` | open a case per stuck transaction | recovery | rows that cannot be queried | resolved or escalated |
| Manual provider query (`routes/transactions.ts`) | the same row | read, query, write | orchestrator | writes what was read before the call | true answers, and polling goes on |
| Provider webhooks | `provider_webhooks`, the row | record and apply once | the row | any order, repeated | an event is applied once |
| Refunds | `refunds`, parent columns of the transaction | request, approve, claim, call, record, recover, recalculate | orchestrator, recovery worker | reservation, maker and checker, two-transaction updates | never more than the total, parent agrees with its refunds |
| Settlement ingestion and matching (`phase3-safety-repository.ts`, `settlement-matching-repository.ts`) | `provider_settlements`, links, `settlement_status` of the transaction | fetch, upsert, match | providers, refunds (through the row) | SELECT then UPDATE while refunds and events write the same rows | settled only as reported, nothing that is held or owed looks settled |
| Reconciliation (`phase3-safety-repository.ts`, `phase4-guards-repository.ts`) | `reconciliation_exceptions` | detect, deduplicate, resolve | transactions, settlements | detect and resolve in two database transactions, one condition written twice | nothing found is lost, nothing is closed that still holds |
| Connector certification (`routes/certification.ts`, `phase4-repository.ts`, `phase4-guards-repository.ts`) | runs, configuration hash | start, check, probe, finish, fail, approve | connectors, provider status | configuration changes during the run and during the approval, lost replies | nothing approved but what was tested, by somebody else, as a whole |
| Provider lifecycle and onboarding | provider and connector status, capabilities | advance, switch, replace capabilities | certification, routing | capabilities replaced twice at once | gates hold |
| Operations worker (`operations-worker`) | connector health, alerts | probe, raise, notify | connectors | writes what a probe said long after it selected the connector | an operator's choice stays |
| Customer identity sync (`customer-identity-repository.ts`) | `customers`, `identity_provider_capabilities`, advisory locks | sync a customer, sync a list of providers | source systems | late, repeated, partial messages, equal timestamps, locks taken in message order | a row moves forward in source time only, a list is stored as a whole |
| Support cases, administration, catalogue, analytics | own tables | CRUD | none | none | none beyond their checks |
| Authentication, financial messaging, web application, scripts | none | per request | none | none | outside these models |

`PROJECT.json` lists the same components with the state of each, and the
hazards of the code at the lines where they bite, with the properties for them.

## The modules

| Module | What it is |
|---|---|
| `CanonicalModels` | the canonical statuses and leases, and the mapping from a vend status to the columns that decide about the money (`packages/domain`) |
| `TransactionRow` | the `transactions` row as the dispatch uses it |
| `VendDispatch` | POST `/api/v1/vends`, any number of handlers, one or more API processes per environment |
| `ProviderRecovery` | recovery workers, operators, webhooks and escalation over rows with an open outcome |
| `Refunds` | refund requests, approvals, dispatch and recovery, and the financial state of the transaction they belong to |
| `IdentityModels` | what the identity sources say, what the tables hold, and how one is merged into the other |
| `IdentityRegister` | the abstract promise: rows that move forward in source time, messages stored as a whole |
| `PurchaseRegister`, `RefundLedger`, `FencedRegister`, `CertificationRegister` | the abstract promises of vending, of refunds, of recovery and of certification, without requests, leases, tokens or hashes; `VendDispatch`, `Refunds`, `ProviderRecovery` and `Certification` implement them |
| `IdentitySync` | the two synchronisation functions, statement by statement; implements `IdentityRegister` |
| `Settlement` | synchronisations of settlements, beside everybody who writes the transactions they settle |
| `Reconciliation` | EXTENDS `Settlement`: calls that open and close exceptions about those transactions |
| `Certification` | the lifecycle of a provider and the certification of a connector, statement by statement |
| `MCVendDispatch`, `MCProviderRecovery`, `MCRefunds`, `MCIdentitySync`, `MCReconciliation`, `MCCertification` | instances for TLC |
| `VendDispatchProofs`, `ProviderRecoveryProofs` | the theorems about the modules of those names |
| `RefundsProofs`, `RefundsOrderProofs`, `RefundsMoneyProofs` | the types of `Refunds`; who sends refunds, how often, and the reservation; what is paid |
| `IdentitySyncProofs` | the theorems about `IdentitySync`, the refinement among them |
| `ReconciliationProofs`, `CertificationProofs` | the theorems about `Settlement` and `Reconciliation`, and about `Certification` |

### VendDispatch

A handler is a program counter, the id of its transaction and the result of its
call. Every action is one database transaction or one end of the HTTP call:

| Action | Code |
|---|---|
| `LookupExisting`, `LookupMissing` | the SELECT by key at the head of `prepareRoutedVend` |
| `InsertRouted`, `InsertRefused` | route selection and INSERT; 409 when no route is eligible or the unique index refuses |
| `ClaimDispatch`, `Replay` | `claimVendDispatch` and what the route does with its answer, the environment check included |
| `SendVend`, `AnswerVend`, `RejectVend`, `TimeoutVend` | `executeVendSafely` and `classify` |
| `RecordVendResult`, `CompleteVendDispatch` | the two functions of those names |
| `LeaseExpires`, `Crash`, `EligibilityChanges`, `ProviderReceives`, `ProviderFinishes` | the environment |

`prepareRoutedVend` is one database transaction but at READ COMMITTED its SELECT
by key locks nothing, so it is split there: two handlers may both find no row.
The provider is external. It honours the idempotency key, may receive a request
after the caller gave up on it, and may refuse one with a 4xx whatever became of
the earlier ones. Amounts, audit rows, route decisions and the response bodies
are left out. `lapsed` and `sent` are history variables that only properties read.

`OnePurchase` is the refinement of `PurchaseRegister`: a purchase is *chosen* when
the row is inserted, what was *told* of it is delivered (FULFILLED), to be
refunded (`refund_required`) or open, and it is *stale* once its lease ran out;
everything else a handler does is a stutter.

### ProviderRecovery

Starts from rows as the dispatch leaves them with an open outcome (`OpenRow`).
A worker is `idle`, or has a claim it is to `query`, `apply` or `fail`;
`ClaimNextTransaction`, `ApplyTransactionResolution`,
`RecordTransactionRecoveryFailure`, `ApplyProviderResolution`,
`RecordAndApplyWebhook` and `RunRecoveryEscalations` carry the names of the
functions they translate. The token of a claim is a fresh number (`issued`), 0
standing for NULL; a time column is reduced to the comparison with `now()` that
guards make of it (`due`, `live` or `expired`), and `BecomesDue` and
`LeaseExpires` are the passing of time. `claimant` and `writer` are history.
An event is identified by what it says about which row, and arrives at most
once; rows with refunds or disputes, whose status a webhook leaves alone, are
not in this module.

`WritersAreFenced` is the refinement of `FencedRegister`: a row is owned by the
claimant whose token it carries, and a worker has in hand what it claimed until
it writes or gives up. Queries, clocks and attempts are stutters.

### Refunds

A transaction whose vend has ended is the **parent** of its refunds. A refund is
a row keyed by its idempotency key; a handler serves one approval, a worker one
recovery claim.

| Action | Code |
|---|---|
| `RequestRefund` | `requestRefund`, which holds the parent's row lock from its SUM to its commit |
| `ApproveRefund`, `ResumeRefund` | `approveRefund` and the fallback to `getApprovedRefundRuntime` in the route |
| `ClaimRefundDispatch`, `Replay` | `claimRefundDispatch` and the reply when it returns no row |
| `SendRefund`, `AnswerRefund`, `RejectRefund`, `TimeoutRefund` | `executeRefundSafely` and `classify` |
| `AggregateRefundResult`, `RecordRefundResult` | `recordRefundResult`, up to its aggregate and from there to its commit |
| `CompleteRefundDispatch` | `completeRefundDispatch` |
| `ClaimNextRefund`, `QueryRefundStatus`, `ApplyRefundRecoveryResult`, `RecordRefundRecoveryFailure` | the functions of the recovery engine, `RecoveryFails` being whatever sends it into its `catch` |
| `AggregateParent`, `RecalculateRefundParent` | `recalculateRefundParent`, split like `recordRefundResult` |
| `RecordAndApplyWebhook`, `LateVendResult` | late events and answers about the vend: `recordVendResult`, `applyProviderResolution`, `applyTransactionResolution` |
| `LeaseExpires`, `RecoveryLeaseExpires`, `HandlerCrash`, `WorkerCrash`, `ProviderReceives`, `ProviderFinishes` | the environment |

Both functions that compute the parent's columns read an aggregate over all its
refunds and update the parent later in the same database transaction, with no
lock on the parent before the UPDATE. At READ COMMITTED another transaction may
commit in between, so each is two actions. `recordRefundResult` has updated its
own refund by then and holds that row's lock; `Locked` makes everybody else who
writes the row wait (and `SKIP LOCKED` pass over it).

SUM is `Worth`: a refund contributes as many units as its amount, and a sum is
the number of units, so that sums of sets can be reasoned about as
cardinalities. A request that repeats a key returns the stored row and changes
nothing, so it is no action. `next_recovery_at` and the attempts only delay a
claim; currencies, wording and audit rows are left out.

The provider honours the key, may receive a request late and may refuse one with
a 4xx whatever became of the earlier ones. Answers and events about the *vend* may be late
(`LateVends`, what is not final) but never contradict how the vend ended: a vend
reported as FAILED that is fulfilled after all is the finding
`AmbiguousBecomesUnknown` of `VendDispatch`, not the refunds' fault.
`lapsed` (refunds whose dispatch lease ran out) and `disordered` (transactions a
late answer set back) are history that only properties read.

`LedgerIsKept` is the refinement of `RefundLedger`: a refund's *outcome* is open
until its status is final, it is *doubtful* once its dispatch lease ran out, and a
transaction is *closed* when it is shown as fully refunded. A step that concerns a
refund and one that shows a transaction may be one, so `Shown` is a condition on
every step.

### IdentitySync

`syncCustomerIdentity` and `syncIdentityProviderCapabilities` have the same
shape, once and per item of a list: lock, read, decide, write. Here a
transaction is *not* one action, because what it promises rests on what other
transactions may do between its statements.

| Action | Code |
|---|---|
| `Receive` | the two PUT routes, after validation |
| `Lock` | `pg_advisory_xact_lock` for the item's row |
| `Read` | the SELECT |
| `Decide` | from there to the next item: validation (`Unevidenced`), comparison of times and contents (`Settle`), the upsert with its `WHERE`, and what follows when it returned no row |
| `Commit`, `Rollback` | the two ends of `withTenantContext` |
| `Abort`, `BreakDeadlock` | PostgreSQL: a lost connection, a deadlock |

`stored` is what is committed; what a transaction wrote (`written`, for the rows
in `touched`) is its own until `Commit`, and `Visible` is what its statements
see. A message about a customer is a list with one item; a key is a reference or
a provider code. Time 0 is a row that no source has written (NULL, or no row at
all, which both functions treat alike; customers from before the columns existed
have contacts and nothing else). Fields that stand or fall together in
`validateEffectiveCustomerSync` are one field (`Fields`), with `"present"` for
what has text: documents, consents and verifications come and go as a whole here,
and two different documents are not told apart, only contacts are. Masking, audit rows and the authentication of the source are left out.
Nothing else in the repository writes these tables.

### Settlement and Reconciliation

A synchronisation and a reconciliation call are requests, each a program counter
and what it remembers between its statements. Both are split where READ COMMITTED
lets others commit in between:

| Action | Code |
|---|---|
| `FetchProviderSettlements` | `fetchProviderSettlements`, called by the settlement route |
| `UpsertSettlements` | `upsertSettlementsTenantSafe`, one database transaction |
| `ReadSettlement`, `MatchReference`, `LinkTransaction`, `SettleTransaction`, `CommitMatches` | `matchSettlementReferences`: per settlement the status, per reference the SELECT of the only eligible transaction, the link (`ON CONFLICT DO NOTHING`), the UPDATE by id |
| `ReportVend`, `RequestRefund`, `RecordRefundResult` | what others do to the row: `recordVendResult`, webhooks and recovery; `requestRefund`; `recordRefundResult` |
| `StartReconciliation`, `SelectExposed`, `InsertExceptions`, `CommitReconciliation` | `runReconciliation`: three INSERT ... SELECT statements, in the order of `Types` |
| `ResolveCleared` | `resolveClearedReconciliationExceptions`, a database transaction of its own |
| `AbandonSync`, `AbandonCall` | an error, a deadlock or the end of the process |
| `DayPasses` | the clock; `now()` is the start of a database transaction, so no day passes within one |

`UpsertSettlements` is one action since nothing reads a settlement between two
of its rows but a matching, which reads one row at a time. A link locks its
transaction against `requestRefund` only (the foreign key takes FOR KEY SHARE,
`requestRefund` FOR UPDATE), an UPDATE against every writer; so a hold may still
come between the SELECT and the lock, and the transaction is settled all the
same. What the UPDATE makes of the row may be left to `CommitMatches`, because
nobody else can write it in between.

`runReconciliation` and `resolveClearedReconciliationExceptions` state the same
three conditions in two files; `Exposed` and `StillExposed` are the two, written
as each file has them. An INSERT that meets an open exception not yet committed
waits (`MayInsert`) and then inserts or not according to how that one ended. The
unique index is partial, and `ON CONFLICT` names its columns and predicate as in
migration 006; where PostgreSQL refuses the statement, the call fails, which
`AbandonCall` allows. A platform administrator finds for all tenants, and closes
what is his own (`Sees`, `ResolveCleared`).

One tenant, provider, connector and currency; a report lists a settlement id
once. `settlement_status` never leaves SETTLED and the severity of an exception
stays as it was when it was opened, as in the code. `upsertSettlements` of
`phase3-repository.ts` has no caller any more and is not modelled.
`caught` and `mixed` are history, and so is `found`: it forgets what was found of
a transaction that has changed since. Every write of a transaction sets
`updated_at` and so restarts the grace of the two conditions that look at it.

### Certification

A certification request, an approval and a replacement of capabilities are
sequences of statements:

| Action | Code |
|---|---|
| `AdvanceProviderLifecycle`, `SetPreproductionConnectorState` | the functions of those names |
| `SelectCapabilities`, `ReplaceCapabilities` | `replaceConnectorCapabilities`: what its DELETE sees, and the INSERT |
| `SelectForProbe`, `ReportNothing`, `UpdateConnectorStatus` | one connector's turn in `runOperationsCycle` |
| `ReadConnector`, `ReadCapabilities`, `InsertRun` | `startCertificationRun`: two SELECTs and the INSERT, whose trigger hashes the configuration |
| `CheckConfiguration`, `ProbeProvider` | the checks of the route, and `healthCheck` |
| `FinishRun`, `Throw`, `FailRun` | `finishCertificationRun`, the route's `catch`, `failCertificationRun` |
| `LockRun`, `CompareHash`, `CheckConnector`, `Approve`, `Abandon` | `approveCertificationSafely`, statement by statement |

The hash is modelled by what it hashes. It includes the connector's status, so a
connector whose health flaps between run and approval needs a new run. Two
concurrent replacements of the capabilities leave the union of the two, or one
of them violates the primary key; `ReplaceCapabilities` has both. In
`failCertificationRun` PostgreSQL cannot infer the type of one parameter of
`jsonb_build_object`, the route logs the error, and the run stays RUNNING; since
that depends on the server, `FailRun` may or may not write. A certified provider
stays CERTIFIED whatever happens to its connector later; the configuration is
checked when a run is approved, and by the gates of production, which are not
here. `disturbed` is history: who had the configuration change between two of
its reads.

`CertifiedAsTested` is the refinement of `CertificationRegister`: a run is *opened*
by its INSERT, with what its request has read by then; it is *judged* when its
verdict is written, and *certified* by the two UPDATEs of an approval. Whoever is
`disturbed` is *hazy*. `Fit` says what the checks are for, in terms of the
configuration and not of the checks.

## What the runs check

| Run | Instance | Shows |
|---|---|---|
| `vend_safety` | 3 handlers, one key, 2 transaction ids, 2 candidates (one per environment), 1 crash | `OneTransactionPerKey`, `NoCrossProviderRetry`, `EnvironmentBoundary`, `OnePurchase`, `FulfilledIsTrue`, `RefundIsDue`, `OutcomeEndsDispatch`, `OutcomeIsKept` |
| `vend_liveness` | 2 handlers, one key, 2 crashes | `NotStranded` |
| `vend_resume` | 1 handler, 1 crash | a finding: `AmbiguousBecomesUnknown` fails |
| `recovery` | 1 row, 2 workers, 1 operator, webhooks, 2 attempts, 1 connector change, 1 crash | `ResolutionIsTrue`, `NewerWorkerWins`, `WritersAreFenced`, `ResolvedOrEscalated` |
| `recovery_manual_query` | 1 row, 1 worker, 1 operator, webhooks | a finding: `NonterminalScheduled` fails |
| `refunds_dispatch` | a transaction of 2 units, 2 refunds of 1 or 2, 2 requesters of whom one approves, 2 handlers, 1 lapse, 1 crash | `ReservationHolds`, `NotOverpaid`, `TwoPersons`, `LedgerIsKept`, `NoResubmission` |
| `refunds_recovery` | the same transaction and refunds, 1 handler, 2 workers with 2 claims, late ACCEPTED, 1 crash | `RefundedIsPaid`, `UnpaidIsHeld`, `FinalOutcomeStays` |
| `refunds_reservation` | 2 refunds of 2 units, 2 handlers, 1 lapse | a finding: `CumulativeReservation` fails |
| `refunds_parent` | 1 refund of 2 units, 1 handler, 1 worker | a finding: `ParentRecalculated` fails |
| `identity_sync` | 2 handlers, 1 customer with 5 partial events, 2 providers with 3 lists | `ReadIsCurrent`, `ClaimsAreEvidenced`, `RowsMoveForward`, `AnsweredIsStored`, `RequestsEnd` |
| `reconciliation` | 2 transactions with one reference, 1 settlement, 2 reports, 2 synchronisations and 2 calls of which any 2 are made, 1 day | `SettledAsReported`, `SettledIsFree`, `HeldIsNotSettled`, `ClosedOnlyOnChange`, `NothingMissed` |
| `certification` | 1 run, 2 users, 2 editors, 1 capability, a connector that can pass once it is switched on | `PassedIsThorough`, `CertifiedAsTested`, `ApprovesWhatWasTested`, `VerdictStands` |

**Why the bounds are enough.** Everything in `VendDispatch` and
`ProviderRecovery` happens per
idempotency key or per row: no guard of the code looks at two rows, save the
lookup of the key. One key with two ids is enough for a duplicate; three
handlers are two that race in one environment and one of the other environment
that resumes their dispatch; with one crash there is a dead process, one that
resumes and a third that replays. In recovery, a stale worker needs one worker
that is slow and one that reclaims, which with two attempts reaches the
escalation threshold (2 here, 5 in the code). A row ends in one final status
only, so one is enough (`Final`). The proofs cover the other sizes.
`MaxCrashes`, `MaxFlips` and `MaxAttempts` bound the number of crashes, of
connector changes and of claims of one row; nothing else is bounded.

Refunds interact through their parent only, and an aggregate distinguishes one
refund from two, and less than the total from all of it: two refunds of one or
two units against two units give the partial refund, the exact one, two halves,
and the second request that must be refused. One of the two requesters is the
approver, so a maker may try to be his own checker. Handlers and workers meet in
`refunds_recovery`, two handlers in `refunds_dispatch`; `MaxClaims` = 2 is one
stale worker and the one that reclaimed its row. `MaxLapses` bounds the dispatch
leases that run out, and one is enough for a second dispatcher. The vend of
both instances FAILED, the case in which money is owed at once.

Identity messages meet in a row or in two rows they lock in different orders, so
two handlers, one customer and two providers show every meeting of two. The
events of the customer make each of the three claims (a consent always comes with
its evidence, the route demands it), clear what an earlier one brought, and two
have the same time and different contents. Among the
lists, one is the beginning of another, so that an item is old news and the next
one is not; one names a provider twice; and the locks of two are taken in
opposite orders. Nothing is bounded: the messages are sent again and again.

Settlements meet reconciliation in the transaction. Two transactions with one
reference are a match that is not unique, and becomes unique when one of them is
held; two synchronisations read, link and settle the same one, and each may
overwrite the status the other is about to read; two calls insert the same
exception, or one closes what the other opens; one of each is a settlement
under way while exceptions about it are looked for. `MaxStarts` = 2 makes it any
two of the four. `MaxTime` is one day, the grace 0 or 1: now, or not yet.
`Outcomes` are a refund that fails and one that is whole; what is pending blocks
like what was requested, and a partial refund leaves a delivered vend as a failed
one does, but for the hold.

One certification run is enough: runs meet in the provider's status only, and no
statement of one reads another. Two users are the one who asked and the one who
approves; two editors and the worker change the configuration between any two
reads, and back. One capability is declared or not. The connector passes when it
is switched on and declares the capability; a run before that fails without a
probe. What other ways to fail there are is a matter of single checks, which the
proofs treat for every connector.

**Deadlock.** A vend handler can always look its key up again, so
`MCVendDispatch` checks for deadlock, and `MCIdentitySync` does since a source can
always send once more. The others do not: when
every row is final, every event delivered, every request answered and the bounds
are used up, nothing is left to do.

**Fairness.** `VendDispatch!FairSpec`: every handler takes its next step (a
promise chain that is not crashed is continued by the event loop, a call ends by
its timeout at the latest, and a client without an answer repeats its request)
and leases run out. Nothing is assumed of providers, routes or crashes.
`ProviderRecovery!FairSpec`: a worker finishes what it claimed, time passes, the
escalation pass runs after every cycle, and a row that is claimable again and
again is claimed, because the cycle takes the rows oldest first; this one is
strong fairness, since a manual query may postpone the row once more. Nothing is
assumed of operators, providers, webhooks or the connector.

`IdentitySync!FairSpec`: statements are executed and deadlocks found (weak
fairness), and a transaction that waits for an advisory lock gets it if it is
free again and again (strong fairness: PostgreSQL queues those who wait).
Nothing is assumed of sources or connections.

**Exceptions in the properties.** `SoleDispatcher`, `OutcomeEndsDispatch`,
`OutcomeIsKept` and `RefundIsDue` exempt transactions whose dispatch lease ran
out, and so do `PurchaseRegister` (`stale`) and `RefundLedger` (`doubtful`), each
only where it says so: one choice, one purchase, and the truth of a delivery or
a payment hold for stale ones as well. That is the strongest that holds: the lease is 90 s, a provider timeout may
be 120 s, and neither `recordVendResult` nor `completeVendDispatch` asks who owns
the dispatch. The refunds' properties about dispatch and reservation exempt
`lapsed` refunds for the same reason, and `CumulativeReservation` shows what
happens to them. `UnpaidIsHeld` exempts `disordered` transactions: a late
ACCEPTED about a FAILED vend overwrites `vend_status`, and the next aggregate no
longer knows that the full amount is owed.

`HeldIsNotSettled` exempts `caught` transactions, those that were put on hold
after a synchronisation had selected them: its UPDATE does not look again.
`SettledIsFree` has no exception, because that UPDATE leaves `normalized_status`
alone when it is no longer FULFILLED. `SettledAsReported` lets a synchronisation
in `mixed` rely on the status another one stored between its upsert and its read.
`ClosedOnlyOnChange` and `NothingMissed` exempt calls with a longer grace, which
is what a longer grace is for. `ApprovesWhatWasTested` exempts runs and
approvals that are `disturbed`, and `CertificationRegister` calls them hazy: the
SELECTs that start a run and the hash its trigger computes are separate
statements, and so are the comparison of the hash and the approval, under no lock
of the connector.

## What the code does against its documents

* **`AmbiguousBecomesUnknown`** (`vend_resume`). A process dies after its vend
  request left. The next request resumes the dispatch and is refused with a 4xx;
  `classify` calls that a definite failure, and FAILED with a full refund is
  recorded, although the first request may have been vended.
  `docs/PHASE3_IMPLEMENTATION.md:38` promises UNKNOWN for ambiguous outcomes.
* **`NonterminalScheduled`** (`recovery_manual_query`). A manual query that
  answers ACCEPTED for an UNKNOWN row which no worker has claimed yet leaves
  `recovery_attempts = 0`; `claimNextTransaction` skips such rows, and the
  escalation pass does too. `docs/PHASE4_IMPLEMENTATION.md:208` promises that
  nonterminal results remain scheduled.
* **`CumulativeReservation`** (`refunds_reservation`). A handler waits for the
  provider longer than its lease; a second one resumes the dispatch and is
  refused with a 4xx; FAILED frees the amount, which is requested again; then the
  first handler stores the provider's answer to its own request. The
  reservations exceed the transaction. `docs/PHASE3_IMPLEMENTATION.md:18` says
  that cumulative reservation prevents that.
* **`ParentRecalculated`** (`refunds_parent`). The worker commits a final refund
  status and clears its token, and fails before `recalculateRefundParent`, which
  is another database transaction. The refund is final and never claimed again;
  the parent keeps its old financial state.
  `docs/PHASE4_IMPLEMENTATION.md:33` says that the parent is recalculated.

## What is proved

For every number of handlers, candidates, keys, environments, transactions,
workers and operators, from the named assumptions of the modules only
(`NoTx` is no id, the constant functions have their types, the provider's
vocabulary is inside the canonical one, final and in-flight wording are disjoint,
references are no provider codes, messages have the form the routes demand):

* **`VendDispatchProofs`**: `TypeCorrect`, `UniqueTransaction`, `SameProvider`,
  `SameEnvironment`, `OneDispatcher`, `NoBlindRetry`, `OutcomeStays`,
  `DeliveredAsTold`, `RefundsAreDue`, `OnePurchaseCorrect`,
  `BoughtFromOneCorrect`, `CanBeResumedCorrect`, `SettledForGoodCorrect`. The argument is in layers. `TypeInv` adds to `TypeOK` that a handler past its
  lookup has a stored transaction. `KeyInv` adds that its key is the handler's
  and that every request in `sent` went to the candidate of the stored
  transaction with that key, in that candidate's environment: a candidate is
  written by the INSERT only, so two requests of one key cannot differ.
  `LeaseInv` relates the handlers' program counters to the row: as long as the
  lease never lapsed, a handler in `Dispatching` implies a live lease and state
  DISPATCHING, hence nobody else can claim, and a handler about to send implies
  status SUBMITTED. `FulfilInv`: an answer that reports a delivery is true, and a
  delivery is for good, lapsed leases or not. `RefundInv` follows the requests
  under way: nothing of a purchase has left before its one dispatcher sends it,
  so what he waits for is the first request, and while it is still on its way
  nothing is vended (`FirstRequest`); hence a refusal of the request is a failure
  of the purchase (`FailureIsDefinite`), and nobody sends it again. A lapsed lease
  breaks exactly this, which is what the finding of `vend_resume` shows. The
  refinement of `PurchaseRegister` puts these together, one lemma per action that
  the register sees; that at most one provider ever holds a purchase of a key
  (`BoughtFromOne`) then follows from the register alone. `SettleInv`: an answer
  that leaves a row SUBMITTED brings a reference, and a dispatch is closed only
  when the row has an outcome or a reference (`Settled`); so a row that has
  neither is free to be claimed, or is under a lease that runs out, and one that
  has either keeps it. That is what `NotStranded` rests on; what is left to TLC is
  that leases run out and clients repeat their requests.
* **`ProviderRecoveryProofs`**: `TypeCorrect`, `StaleWorkerIsHarmless`,
  `FinalStays`, `ResolutionCorrect`, `WritersAreFencedCorrect`. `TokenInv`: tokens are never reused, a token
  in a row was issued to the row's last claimant and to no other worker, so the
  `WHERE recovery_lease_token = $2` of a stale worker matches nothing; and a
  final row written by a worker carries no token. `TruthInv`: every answer under
  way, every event on its way and every final row agrees with what the provider
  holds, and what it holds, once final, does not change. The two together
  (`FencedInv`) give the refinement of `FencedRegister`: a worker whose token is
  the row's is the register's owner (`LeaseIsFence`), and what it says is true
  (`SayingIsSound`).

* **`RefundsProofs`**: `TypeCorrect`. `TypeInv` adds to `TypeOK` that whoever is
  busy has a stored refund at hand, that only stored refunds have left for a
  provider, and that there are finitely many of them (a set grows by one per
  request). `TypeNext` also shows that a step keeps transaction, amount and maker
  of every refund.
* **`RefundsOrderProofs`**: `TwoPersonsCorrect`, `SoleRefundDispatcherCorrect`,
  `NoResubmissionCorrect`, `FinalOutcomeStaysCorrect`, `ReservationCorrect`.
  `PersonsInv`: what is handled, recovered or sent has left REQUESTED, and what
  has left REQUESTED has a checker who is not its maker. `LeaseInv`: unless its
  lease ran out, a refund in dispatch is DISPATCHING under a live lease, hence
  not claimable, and APPROVED until its result is recorded; and a refund with a
  recovery token is PENDING or UNKNOWN, so dispatch and recovery never write the
  same refund at the same time and a final outcome stays. The reservation
  follows: reserved units are added only by a request, whose guard looks at
  their number under the parent's lock, and no refund comes back from FAILED.
* **`RefundsMoneyProofs`**: `NotOverpaidCorrect`, `RefundedIsPaidCorrect`,
  `UnpaidIsHeldCorrect`, `LedgerIsKeptCorrect`. `TruthInv`: what a table, an answer or a worker calls
  completed is completed at the provider. `RowsFail` and `CallsFail`: unless its
  dispatch lease ran out, a refund called failed is not paid and never will be,
  because nothing of it is still on its way; so what is paid is part of what is
  reserved, and `ReservationHolds` bounds it. `ParentInv`: neither a parent's
  columns nor an aggregate computed and not yet written are ahead of what is paid;
  what is paid only grows, so a stale aggregate is late but not wrong. With the
  invariants of `RefundsOrderProofs` they are `LedgerInv`, under which every step is
  one of `RefundLedger` or none; `Unapproved` adds that what is still REQUESTED has no checker
  yet, so that a ledger entry is approved once.

* **`IdentitySyncProofs`**: `TypeCorrect`, `ReadIsCurrentCorrect`,
  `RowsMoveForwardCorrect`, `AnsweredIsStoredCorrect`,
  `ClaimsAreEvidencedCorrect`, `WaitsAreForOthersCorrect`,
  `OnlyListsDeadlockCorrect`, for any number of handlers, customers, providers
  and messages. `SyncInv` has three parts: `Placed`, a handler past the lock of its item
  holds it, and what it has read is what it would read now; `Done`, it holds the
  locks of all the items before, and none of them is news to it; `Drafted`, every
  row it wrote is what one newer item makes of the *committed* row, under its
  lock. The last one is what makes `Commit` a step of `IdentityRegister`, and it
  needs the locks: without them the committed row may change under a draft. A
  list may name a provider twice; then only the newer item shows, because
  a snapshot does not depend on what it replaces (`EffectiveFacts`). `LocksInv` is
  about waiting: a handler holds the locks of the items it has passed and no
  others, and none once its transaction is over. So whoever waits for a lock waits
  for a transaction under way, the upsert never waits for a row, and only lists can
  be part of a deadlock: a message about a customer holds nothing while it waits.

* **`ReconciliationProofs`**: `TypeCorrect`, `SettledAreFree`,
  `HeldAreNotSettled`, `ClosedOnlyWhenChanged`, `NothingIsMissed`,
  `SettledAsTold`, for any number of transactions, settlements, reports,
  synchronisations and calls. `FreeInv` relates the columns of a row, which every
  writer leaves consistent. `HoldInv`: what a synchronisation has chosen or is
  settling is not held unless it was caught, because the row lock keeps others
  away from what is being settled. `FoundInv`: what a call has found is still
  exposed, since time only exposes more; together with `ConditionsAgree`, that the
  two conditions differ in the grace only, nothing is closed that has not changed.
  `MissInv` follows an exception from the SELECT to the table. `ReportInv` carries
  the reason for a settlement the same way (`Carries`): from the report to the
  line, to the chosen transaction, to the link, to the UPDATE; answers, links and
  `mixed` only grow, so no step of another synchronisation takes it away.
* **`CertificationProofs`**: `TypeCorrect`, `CertifiedIsByARun`,
  `PassedRunsAreThorough`, `ProbesFollowPreflight`, `VerdictsStand`,
  `OperatorsChoicesStay`, `ApprovalsCertifyWhatWasTested`,
  `CertifiedAsTestedCorrect`, for any number of runs, users, editors, capabilities
  and connectors. `VerdictInv`: before its INSERT a
  run has no verdict; a preflight that keeps the provider from being asked has
  failed a check (`Thorough`), so that nothing failed only if everything passed;
  and whoever holds the row of a run may still approve it, since nobody else
  takes a run out of PASSED. `TraceInv` adds the chain that an approval rests on:
  what the request read, what the trigger hashed, what is in force, each equal to
  the next unless somebody between two of his reads was disturbed. `FitInv` adds
  that a configuration no check has failed is fit (`PreflightFit`); then a step of a
  request opens a run, judges it or is not seen by `CertificationRegister`, and one
  of an approval certifies, starts clear or is not seen.

Some theorems state what no run checks. `SoleDispatcher`, `SoleRefundDispatcher`,
`WorkersKeepTerminal` and `CertifiedByARun` are what the refinements, which the
runs check instead, rest on or imply; `BoughtFromOne` follows from one. `CanBeResumed`,
`SettledForGood`, `WaitsAreForOthers` and `OnlyListsDeadlock` are the parts of
liveness properties that need no fairness. `ProbedAfterPreflight` and
`OperatorsChoiceStays` stand beside the runs of `Certification`.

Only model-checked: `NotStranded`, `ResolvedOrEscalated` and `RequestsEnd`.
Liveness under fairness is out of this prover's reach. What it rests on is proved
for the first and the last, as said above. For `ResolvedOrEscalated` there is
nothing to prove without fairness: a row that is neither resolved nor escalated
waits for its turn, and that the turn comes is the whole of it.

## Plan

Done: `VendDispatch`, `ProviderRecovery`, `Refunds`, `IdentitySync`, `Settlement`
with `Reconciliation`, `Certification`. What is left:

1. `VendDispatch` composed with webhooks: a slow `recordVendResult` over a newer
   event.
2. The operations worker's alerts and their notification.
3. The gates of production: what a certified connector is checked for again.

## Not modelled

Signatures, authentication, row-level security (but for what `Reconciliation`
says about who finds what), message formats, HTTP details,
the web application, CRUD of catalogue, users and support cases, analytics,
deployment and backup: they keep no state that others race for, or are pure I/O.
Amounts and currencies appear only where a component adds them up.

## Running

    tlc -workers 2 -config MCVendDispatch.cfg MCVendDispatch
    tlapm VendDispatchProofs.tla

Each run takes up to about three minutes, each proof module one to six.
