# Formal verification of Verita's billing core

Verita meters usage events, aggregates them into hourly windows, invoices each
customer monthly with a tiered price plan, and lets staff correct invoices
afterwards. Its correctness claims are about money: every event charged exactly
once, sealed windows never changed, invoice totals equal to their lines, payments
and credits applied once, no month missed. They have to hold while web workers, a
cron container, staff and an external payment processor run against one PostgreSQL
database at READ COMMITTED, and while each of them may die at any point.

This directory holds TLA+ models of that core, TLC configurations that check them
on small instances, and TLAPS proofs for instances of any size. Paths below are
relative to the repository root, `src/`.

- Check a model: `tlc -config BillingEvents.cfg MCBilling.tla`
- Check a proof: `tlapm BillingProofs.tla`

## 1. Inventory

### Components, their state and operations

| Component | Code | State | Operations | What makes it correct |
|---|---|---|---|---|
| Event ingest | `backend/apps/api/views_v1.py` `EventIngestView` | rows of `event` | `POST /v1/events`: take the seal lock shared, insert a batch with `ON CONFLICT DO NOTHING`, flag rows whose month has an invoice, commit, classify the ids | an event is recorded once and accepted once; its late flag is right at commit |
| Aggregator | `billing/aggregator.py` | rows of `usage_window`, watermark | scan recent hours, take the aggregator and billing locks, recompute the hours, advance the watermark | a window is the sum of its events; a sealed one is never written; nothing is left behind the watermark |
| Invoicer | `billing/invoicer.py` | rows of `invoice`, `line_item`; `sealed_at`, `adjusted_at`, `applied_to_invoice` | `issue_monthly_invoice`: billing lock, seal lock, re-aggregate, sum, late events, credits, insert, seal; `run_invoicing` over the customers | every event, late event and credit on exactly one invoice; exit status 0 means invoiced |
| Pricing engine | `billing/pricing.py` | none | tier loop, late adjustment | each unit charged once at the price of its tier |
| Line-item override | `api/views_ops.py` `OverrideLineItemView` | `line_item`, `invoice.total`, `audit_log`, `idempotency_key` | `PATCH`: lock line and invoice, update, sum, audit, record the key | totals match lines; audit log is complete; paid invoices stay as they are |
| Payment webhook | `api/views_webhooks.py` | `webhook_delivery`, `invoice.status` | `POST /webhooks/payments`: verify, insert the delivery, lock, compare the amount, pay | paid once, in full |
| Credits, idempotency keys | `api/views_ops.py` `IssueCreditView`, `audit/models.py`, `cleanup_idempotency_keys.py` | `credit`, `idempotency_key` | issue, replay, conflict, clean up | one credit per customer and key, and truthful answers |
| Reconciliation | `billing/reconciliation.py` | none (reads) | window drift, total drift, stuck drafts | reports nothing that has not changed, and nothing late events do not explain |
| Cron runner | `backend/cron_runner.py` | the minute last seen | dispatch commands by minute | each month is invoiced |
| Usage API, invoice list | `api/views_v1.py`, `api/pagination.py` | none on the server; a cursor or page number at the client | keyset and OFFSET pages | pages add up while rows are inserted |
| Audit log | `audit/` | rows of `audit_log` | written inside each operation above | commits with what it records |
| Sessions, tenancy, dashboards, front ends | see section 7 | expiry times | request-scoped lookups and reads | not modelled |

### How they interact

They share tables, not calls. Ingest, aggregator and invoicer coordinate with
transaction-scoped advisory locks: the *seal lock* (ingest shared, invoicer
exclusive) makes "is this month invoiced?" stable until the ingest commits; the
*billing lock* (aggregator and invoicer, exclusive) serialises the writers of
`usage_window`. A session-scoped lock keeps one aggregator run at work at a time.
Credits are issued without any of them. Overrides, payments and reconciliation meet
on row locks of `line_item` and `invoice` and on the unique indexes of
`webhook_delivery` and `idempotency_key`. The cron runner starts processes and sees
only their exit status.

### What is hard

Under READ COMMITTED every statement has its own snapshot, so what a transaction
read two statements ago may be gone; locks are the only thing that keeps it true.
Retries are everywhere (ingest batches, deliveries, override and credit keys), a
transaction may roll back at any point, rows become visible long after the time
stamped on them, and months may be invoiced out of order or twice at once.
`PROJECT.json` lists 40 hazards at their lines with the properties that watch them;
for the few without a property it says why.

## 2. Modules

| Module | What it is |
|---|---|
| `Billing` | ingest, aggregator, invoicer, credits: the pipeline up to an issued invoice |
| `UsageLedger`, `BillingRefinement` | what the pipeline promises (events recorded once, invoices that charge them atomically), and the mapping |
| `BillingInv`, `BillingProofs` | the inductive invariant of `Billing` and who waits for whom; type correctness, safety, window properties, refinement, no circular wait |
| `Settlement` | overrides, payment deliveries and the total check, after issuance |
| `InvoiceBook`, `SettlementRefinement` | what an issued invoice promises (an override is one step, a payment another, the total is that of the lines), and the mapping |
| `SettlementInv`, `SettlementProofs` | the inductive invariant of `Settlement` and who waits for whom; types, safety, refinement, no circular wait |
| `Pricing`, `PricingProofs` | the tier loop, adjustment and roll-up; the proof that the bill is exact for every plan and that covering plans are tiled |
| `SumLemmas` | sums over finite sets, by induction; used by the proofs about amounts |
| `OpsCredits`, `OpsCreditsProofs` | credits and keys under one `Idempotency-Key`; invariant, safety, refinement |
| `CreditLedger` | what credit requests promise: one credit per customer and key, named by every answer |
| `AggregatorWatermark`, `AggregatorProofs` | which events a run looks at, with clock, delay, overlap and crashes |
| `IngestBatch` | one batch row by row against others, and the answer for each id |
| `EventTable` | what ingest promises: a batch stored in one step, and an answer that accepts exactly what it was first to store |
| `UsagePages`, `IngestProofs` | `IngestBatch` composed with a client that pages through usage; proofs about both |
| `MonthlyRun` | cron runner, `run_invoicing`, reconciliation and operator, month after month |
| `InvoicePages`, `MonthlyProofs` | `MonthlyRun` composed with a client that pages through its invoices; proofs about both |
| `MC...` | small instances for TLC |

Operators whose comment says *mutant* are faulty variants of the operator below
them (a dropped `WHERE`, a missing row lock, a sort left out). Nothing in a
specification uses them; exchanging one for its original must make TLC report the
property that `PROJECT.json` pairs with it.

The pipeline is cut where the code couples loosely. `AggregatorWatermark` decides
*which* hours a run recomputes and `Billing` lets the aggregator take any hours, a
superset; `IngestBatch` decides which rows a batch inserts and `Billing` inserts a
set; `MonthlyRun` decides when `issue_monthly_invoice` runs for whom and `Billing`
what it then does; `Settlement` starts from an invoice `Billing` has issued.

### Billing

One step is one SQL statement, one lock request or grant, or a COMMIT or ROLLBACK.
The tables are `event`, `window`, `invoice`, `credit`. What a transaction has
written or read and not committed is in `ing[i]` (ingester), `inv[i]` (invoicer),
`agg[a]` (aggregator); `pc` is the point it has reached.

| Code | Actions |
|---|---|
| `EventIngestView.post` | `IngestBegin`, `IngestLock`, `IngestInsert`, `IngestCommit`, `IngestAbort` |
| `issue_monthly_invoice` | `InvoiceBegin`, `InvoiceBillingLock`, `InvoiceSealLock`, `InvoiceExists`, `InvoiceReaggregate`, `InvoiceSumWindows`, `InvoiceSelectLate`, `InvoiceSelectCredits`, `InvoiceCommit`, `InvoiceAbort` |
| `run_aggregation`, `_aggregate` | `AggregateScan`, `AggregateLock`, `AggregateUpsert`, `AggregateCommit`, `AggregateAbort` |
| `IssueCreditView.post` | `IssueCredit` |

Abstractions. A `SUM(units)` over events is the *set* of events it ranges over, so
that properties speak of which events were charged. An hour is a model value with
a month. There is one customer: every query filters on it. Which hours the
watermark makes candidates is left open (`AggregateScan` takes any set), a
superset of what the code can choose. A batch is inserted in one step; row-level
waits inside it are the guard `BlockedOnRow`. The advisory lock queue is explicit
(`ahead`), because PostgreSQL grants in arrival order and a request waits for
conflicting requests queued before it. A draft invoice row exists only inside the
transaction that issues it, so it is not a status of the model.

### Settlement

Tables `invoice`, `line`, `audit`, `payments` (count of `invoice.pay` audit rows),
`idem`, `delivery`; `rowLock` says who holds each row; `req[s]` and `hook[h]` are
what an override and a webhook worker have read. `sent` and `acked` are the
processor's side: what it reports under each delivery id, and which ids were
answered 200.

| Code | Actions |
|---|---|
| `OverrideLineItemView.patch` | `OverrideBegin` ... `OverrideCommit`, one per statement, with the 404, 422 (paid), unique-key failure and crash paths |
| `payments_webhook`, `_process_payment` | `HookReceive`, `HookReject`, `HookInsert`, `HookDuplicate`, `HookNotFound`, `HookLock`, `HookMismatch`, `HookPay`, `HookAlreadyPaid`, `HookAbort` |
| `cleanup_idempotency_keys` | `CleanupKey` (a TTL is time passing: any recorded key may go) |
| `check_invoice_total_drift` | `ReconRead`, `ReconSumLines` |
| the payment processor | `ProcessorReports`; every delivery may arrive again at any time |

Abstractions. Verification of timestamp and HMAC is a choice between accepted and
rejected, since a valid report may arrive late or be signed with a rotated secret.
Descriptions and reasons are left out. `void` is a status no code path sets.
`AuditReplays` is a claim about `audit_log` rows only, in commit order.

### Pricing

One step is one turn of the loop of `compute_tiered_line_items`; `RollUp` is the
arithmetic at the end of `issue_monthly_invoice` with the late adjustment. The
property `BillIsExact` compares the total with a reference that prices the month
unit by unit: what a unit costs is the sum of the prices of the tiers it falls in,
one in a plan that covers, none in a gap, several in an overlap.

### OpsCredits

Rows under different `Idempotency-Key` values never meet, so the model is of one
value and of whoever uses it. `credit`, `audit`, `idem` are the committed rows;
which uncommitted rows a worker holds follows from its `pc`. `used` remembers what
was ever recorded, because `cleanup_idempotency_keys` deletes rows.

| Code | Actions |
|---|---|
| `IssueCreditView.post` | `Receive`, `Replay` / `NoReplay` (the check before the transaction), `InsertCredit`, `InsertKey`, `Commit`, `Reply`, `Lookup` (the `except IntegrityError`) |
| an error, a dead worker, a lost answer | `Abort` |
| `cleanup_idempotency_keys` | `Cleanup` (expiry is time passing: any recorded keys may go) |

A request without customer is an override under the same key; only its key row
matters here, and it does not catch `IntegrityError`. Amount and reason are one
`body`. An insert that meets an uncommitted row of the same unique key waits.

### AggregatorWatermark

`now` is the clock; `at[e]` is `ingested_at`, the *start* of the ingest transaction.
`Start` computes the cutoff before `TryLock`; `Scan` reads the candidates;
`UpsertCustomer` is one customer's transaction, `Mark` stores the watermark and
unlocks; `Crash` may happen between any two. `--catch-up` removes the edge delay and
the lower end of the scan. Sums are sets of events, as in Billing. The process and
the database are taken to have one clock; what they differ by would come off the edge
delay.

**Assumption.** `OpenAssumption` says that no ingest transaction stays open longer
than delay plus overlap (minutes against milliseconds in production, but against
overlap alone under `--catch-up`). Nothing in the code enforces it: an ingest waits
for the seal lock *inside* its transaction, so a very long invoicer run could breach
it. Without it, a case the model leaves out, an event can commit behind the
watermark; the invoicer's own re-aggregation of its month
(`Billing!InvoiceReaggregate`) is then what still counts it.

### IngestBatch and UsagePages

`IngestBatch` takes the multi-row `INSERT ... ON CONFLICT DO NOTHING RETURNING` row
by row: a row another open transaction holds makes it wait, a cycle of waits is
ended by PostgreSQL (`DeadlockVictim`, external), and `Respond` classifies each
position of the batch. `accepted` and `answered` record what clients were told.
`UsagePages` adds a client that reads a fixed range page by page, each page one
snapshot, with any limits of at least 1; events land in buckets already returned,
in those to come, and in new ones.

### MonthlyRun and InvoicePages

The clock counts minutes and a month has a few. The runner polls each minute while
it is up and dispatches each schedule on a thread (`Poll`); `RunnerDies` takes any
subset of its running jobs along and forgets `last_minute_key`, so a restart within
the minute dispatches again. A job asks the clock for its period only when it starts
(`Begin`), locks one customer at a time, and stops at the first that raises (`Fail`).

| Code | Actions |
|---|---|
| `cron_runner.main`, `_run_job` | `Tick`, `Poll`, `RunnerDies`, `RunnerStarts`, the alarm raised by `Fail` |
| `run_invoicing` | `Begin`, `IssueBegin`, `IssueCommit`, `Exit`, `Fail` |
| `issue_invoices` at a shell | `Manual` |
| `check_stuck_drafts` | `Reconcile` |
| `InvoiceListView`, `StandardPageNumberPagination` | `Count`, `ReadPage`, `Finish` |
| payment of an invoice | `Pay` (a step of Settlement, seen from the list) |

**Assumptions.** A minute is enough for the read-only reconciliation. A month is
enough for its invoicer runs and for an operator to answer an alarm, an error in the
log or an outage of the runner: `Tick` does not end a month before that. An error is
logged by `_run_job`; an outage is reported by no code, and that somebody notices it
(`alarm'` in `RunnerDies`, and in `Tick` for a runner that stays down) is an assumption
about operations. `MonthInvoiced` rests on it when a dispatch is missed. The
operator covers at least the customers without an invoice. Without these no code
could invoice a month, for `issue_invoices` takes no period: it always bills the
month before now.

## 3. What TLC checks

| Run | Question | Instance |
|---|---|---|
| `billing_events` | is any event lost, billed twice or skipped; does the pipeline implement `UsageLedger`? | 2 events, 2 hours in 2 of 3 months, 2 web workers, 2 invoicers |
| `billing_windows` | does a sealed window change or differ from its on-time events; are credits applied once; do late events explain all that is wrong with the windows of an invoiced month? | 2 events, 3 hours in 2 months, 1 credit, ingester, invoicer, aggregator |
| `billing_contention` | can processes wait in a circle for the advisory locks, their queues and rows; is every waiter for an advisory lock served? | 1 event, 1 hour, 1 credit, 2 web workers, 2 invoicers, aggregator |
| `settlement_safety` | do totals, the audit chain and paid invoices survive concurrent overrides; is an invoice paid once and in full; is a total check clean when nothing changed under it; do the two endpoints implement `InvoiceBook`, one override per recorded key included? | 2 lines (one a credit), 3 requests (2 under one key), 2 staff workers, 2 deliveries, 2 webhook workers |
| `settlement_live` | can requests wait in a circle; does every request end? | 2 invoices, 3 lines, 2 workers sharing a key, a wrong invoice in a URL, 1 webhook worker |
| `pricing_plans` | is the bill exact, do charges tile the month? | 8 plans (in and out of order; with gaps, overlaps, no first tier, no last tier, no tier), 0..7 units, 0..3 late, 0..4 credit |
| `ops_credits` | is there one credit per customer and key, whatever is clicked twice, repeated, lost or cleaned up (`CreditLedger`, where a 409 needs a different request behind it); is what is recorded issued; does every request end? | 2 workers, 2 staff, 2 customers, 2 amounts, an override under the same key |
| `watermark` | is a committed event ever left behind the watermark; are all counted in the end? | 2 events of different customers, 2 aggregators with and without `--catch-up`, clock 0..3, delay, overlap and open time 1, 1 crash |
| `ingest_usage` | is an id accepted once; is `EventTable` implemented, so that what is answered is stored; does every batch end; do pages add up? | 3 ids in 3 hours; batches in opposite orders and one that repeats an id; 2 workers; limits 1 and 2 |
| `cron_month` | does exit status 0 mean invoiced; is every month invoiced; does paging skip an invoice? | 2 customers, 2 months of 3 minutes, 2 job processes, 1 failure, page size 1 |
| `settlement_ack`, `cron_stuck` | statements of the repository that the code does not keep (section 6) | minimal |

**Bounds, and why they are enough.**

- Two events tell a batch from a single event and an on-time event from a late one
  of the same hour; three months let months be invoiced out of order with an event
  late for one and early for another; two processes of a kind give every pairwise
  race, two invoicers of the same month among them, and the locks involve pairs.
- `MaxAudit` bounds when an override may *start* (both workers can pass it, so two
  can commit); two concurrent overrides are what the row locks are about. In
  `settlement_safety` a line is negative, so that the floor at zero of a total is
  reached.
- `MaxUnits`, `MaxLate` and `MaxCredit` go two units past the last boundary, let
  late units cross a boundary, and let the credit exceed the bill.
- In `ops_credits` the requests differ from the first in each thing the code
  distinguishes: amount, customer, operation, staff member. Two workers make each
  pair of them concurrent; cleanup and repetition are unbounded.
- In `watermark` delay, overlap and open time are one tick, so that every
  comparison is met with equality; the clock reaches a second run after an event
  that committed as late as it can; one crash falls between the two customers.
- In `ingest_usage` two opposite batches make a cycle of waits, the third makes
  buckets appear between those already paged. A client stops after its last page.
- In `cron_month` two months are what makes a job start in the wrong one; `MaxFailures`
  lets a job fail or the runner die once; the number of `Jobs` bounds concurrent
  invoicer runs. The clock ends, so deadlock is not checked there. `Grace` is shorter
  than in production, which makes the stuck-draft check stricter. A client of the
  invoice list pages until it gets a 404; payments happen only while it does.

For the properties that are also proved (section 4) no bound matters. Symmetry is
over interchangeable events, workers and deliveries, in safety runs only. Deadlock is
checked everywhere except in Pricing, which ends when the invoice has its total, and
in the two cron runs.

**Fairness.**

- `Billing!FairSpec`: weak fairness to each started transaction (its next statement,
  or the grant it waits for): connections are served and a transaction does not stall
  with locks held; it may still abort. Nothing obliges a process to begin.
- `Settlement!FairSpec`, `OpsCredits`, `UsagePages`: strong fairness where a statement
  waits for a row. PostgreSQL queues the waiters of a row and wakes those of a unique
  key when its transaction ends, while a rival needs several round trips to come
  back, so a request that can proceed again and again does. Otherwise weak fairness.
  The deadlock detector runs, so it has weak fairness too.
- `AggregatorWatermark`: the clock runs, ingest transactions end, cron starts runs.
- `InvoicePages` (with `MonthlyRun`): the clock runs, the runner polls, jobs take
  their steps, and the operator answers alarms.

Crashes, aborts and failures are never obliged; nor are clients' requests.

## 4. What is proved

The proofs hold for every number of events, hours, months, credits, invoices,
lines, keys, deliveries, requests and workers. Their only assumptions are the named
ASSUMEs of the modules (disjoint kinds of process, `None` is not a value, functions
have their domains, an invoice has finitely many lines; `OpenAssumption` of section
2), which TLC evaluates on each instance. Every safety property of every passing run
is stated by a theorem; what is left to TLC alone is liveness (section 5).

**Billing.** `IInv` (module `BillingInv`) is inductive (`Invariance`). The safety
properties are not, for a step may be correct only because of what an earlier
statement established. `IInv` adds, per program point, the locks held (`LockInv`);
that an uncommitted event carries the flag that is still right (`IngestInv`, from
the shared seal lock); that windows count events of their own hour and are sealed
only with their month (`WindowInv`); and that between re-aggregation and commit an
invoicer's results equal what its queries would return now (`InvoiceInv`: no
ingest can commit, by the exclusive seal lock, and nobody else writes windows, by
the billing lock). Proved from it: `TypeCorrect`, `NoDoubleBilling`, `NothingLost`,
`SealedExact`, `CreditsOnce`, `WindowWriters`, the action properties
`SealedForever` and `NoLateEventSkipped`, and `ImplementsLedger`: every step of
`Billing` is a `Record`, an `Issue` or a stutter of `UsageLedger`, with all of an
invoice's charges appearing at its commit. `LateEventsExplainDrift` needs one more
invariant, `UnsealedLate` (a window of an invoiced month that is not sealed has only
late events), kept by an ingest because its flag is right and by an invoicer because
it seals what it re-aggregated.

`NoCircularWait` is the safety half of `WaitersServed`: in no reachable state is there
a nonempty finite set of processes each of which waits for one of the set. `Waits` says
for whom the next statement of a process waits, and spells out the guards of
`Grantable` and `BlockedOnRow`. The invariant it needs, `QueueInv`, is about the queues:
a lock is held only from its grant to the end of the transaction, and `ahead` orders
the waiters of a lock, so the first of them in a set waits for holders only
(`FirstInLine`). Holders of the seal lock wait for nothing but rows, invoicers wait for
the seal lock after the billing lock, and ingesters never wait for the billing lock.

**Settlement.** `SInv` (module `SettlementInv`) says that an override which holds
both locks has read rows nobody can change (`OverrideKnows`: its `before` is still
the line's amount, its sum is still the sum), the same for a webhook worker
(`HookKnows`), and that a delivery id is in one worker's hands (`OneProcessor`, from
the unique index). The proof goes by frames: a step of one worker leaves every
lock of the others, and the rows those locks protect, alone (`StaffLeaves`,
`HookLeaves`); what a worker knows survives such a step (`OverrideFrame`,
`HookFrame`). That a total depends on the lines of its own invoice only
(`TotalOfOwnLines`) makes overrides of different invoices independent. Proved from
it: `TotalsExact`, `PaymentsExact`, `PaymentsOnce`, `AuditComplete`, `PaidIsFinal`,
`ReportsFollowChanges`; and with `KeyInv` (a key about to be committed is unrecorded
and held once) `KeysApplyOnce`. `TypeCorrect` needs that a sum over finitely many
lines is an integer, which `SumLemmas` has.

`ImplementsBook` says what these add up to, serializability: an override of seven
statements, two row locks and a unique key, and a delivery with its lock and its
comparison, are single steps of `InvoiceBook`, the override at its COMMIT and the
payment at the UPDATE of the invoice, and everything else stutters. At its COMMIT an
override uses what it has read statements ago, which `OverrideKnows` says is what the
tables hold; its key was unused then and still is (`KeyInv`).

`NoCircularWait` is the safety half of `RequestsFinish`. `LocksHeld` says which points
of a transaction hold which row, and the proof picks from a set of transactions one at
the highest stage: lines are locked before invoices, invoices before keys; a delivery
id before an invoice. Nobody who holds an invoice waits for a line or an invoice.

**Pricing.** Nothing rejects a plan with a gap or an overlap, so the theorems assume
nothing about plans. `BillsAreExact`: for plans of any length, order and shape, any
usage, late units and credit, the total of the invoice is the unit-by-unit cost of the
month with its late units, less the credit, and not below zero. The loop stops at the
first tier above the usage, so its charges are those of all tiers (`BillInv`,
`ChargesAddUp`); one more unit adds to a tier's charge exactly when it falls in the tier
(`OneMoreInTier`), so by induction over the units the tiered charge is the reference
(`TieredIsExact`). `TilesEveryPlan`: if the plan covers [0, infinity)
without gap or overlap, the charges partition the units of the month over its first
tiers. `TypeCorrect` comes first.

**SumLemmas.** The models sum with `SumFunction` and `SumFunctionOnSet` of the
community modules, folds whose recursion is a `CHOOSE`. Induction with the library's
theorems needs an operator as a parameter; here it is done by minimal counterexample in
a set of naturals or of cardinalities (`NatSetInduction`, `SubsetInduction`, from the
well-foundedness of the naturals), which is first order. From it: such a sum is an
integer, a term can be taken out (`SumRemove`), terms that are zero do not matter
(`SumMask`), and sums add (`SumPlus`).

**OpsCredits.** `OpsCredits!IInv` adds that what was ever recorded under the key has
been issued (`HistoryIsIssued`; the recorded rows alone are not enough, cleanup
deletes them), that an uncommitted credit is alone in its unique index
(`CreditRowAlone`), and what each program point implies (`Reached`: the handler of
`IntegrityError` finds no credit only when something else used the key). Proved:
`TypeCorrect`, `Recorded`, `Conflicts`, and `ImplementsLedger` for `CreditLedger`.

**AggregatorWatermark.** `AggregatorWatermark!IInv` adds that whatever can still
commit is in reach of the next run, counted from the stored watermark and from the
cutoff of a run at work (`InReach`, where `OpenAssumption` enters), and that a run has
counted or still has to do all it will leave behind (`RunCovers`). Proved for any
delay, overlap, clock and number of crashes: `TypeCorrect`, `NothingBehind`.

**IngestBatch, UsagePages.** `PagesInv` says that a row has one inserter
(`RowsApart`), that nobody was told "accepted" before its inserter answers
(`AcceptedLast`), that the rows dealt with are stored or on their way (`DealtWith`) and
are of the batch (`OwnRows`), and that everything owed from the cursor up is in a sum while nothing below it was
returned (`UpToCursor`). Proved: `TypeCorrect`, `OneAcceptance`, `AnswersHold`,
`PagesComplete`, and `ImplementsTable`: at the COMMIT of a batch the ids that
`RETURNING` has gathered row by row, with waits in between, are exactly those of its
ids that no committed row has (`CommitRecords`), and the loop of the response accepts
each of them once, at its first position (`AcceptedPositions`).

**MonthlyRun, InvoicePages.** `InvoicePages!PagesInv` says that a job has dropped from
its list only customers that have the invoice and that drafts are never committed
(`JobInv`), and that what is owed to the reader and not yet seen has a rank behind
the pages read (`UnseenAhead`): a new invoice pushes the others back, never forward
(`RankGrows`), and what is on none of the first n pages has a rank of at least n pages
(`BehindPage`). Proved for any schedule, page size and number of months: `TypeCorrect`
(a job bills a period that has ended), `ExitMeansInvoiced`, `NoneSkipped`.

## 5. What is only model-checked

- Liveness (`WaitersServed`, `RequestsFinish`, `RequestsEnd`, `BatchesEnd`,
  `EventuallyCounted`, `MonthInvoiced`): fairness and ENABLED are outside what the
  proof system handles. For the first two, `NoDeadlock` is proved: if a process waits,
  a chain of waits from it ends, in any finite set, at one that does not. That
  `Waits` misses no way to be blocked is a statement about ENABLED and rests on reading
  it beside the guards; `BatchesEnd` has no such half, for cycles of waits do happen
  there and PostgreSQL breaks them.
- That the models are those of the code: nothing proves this, the lines in
  `PROJECT.json` are there to be compared.

## 6. Where code and documentation disagree

| Run | Statement | What the code does |
|---|---|---|
| `settlement_ack` | `views_webhooks.py`: a duplicate delivery id is already processed | a rejected, unknown or mismatched delivery keeps its row, so the valid retry is answered 200 and never applied |
| `cron_stuck` | `DESIGN.md:240`: a failed invoicer run is caught by the stuck-draft check | the draft is created in the transaction that issues it, so a failed run leaves none; an error of the command is in the cron log, a run killed with its container nowhere |

## 7. Seen while modelling, without a run of its own

- `reconciliation.py:22` calls a nonzero result on a sealed window a paging-level
  violation; the query (line 47) counts late events, so every late event in a sealed
  hour is reported. `LateExplainsDrift` states what is true: nothing else is.
- `models.py:154` says a window is sealed at issuance for its period; the upsert
  (`aggregator.py:134`) creates an unsealed window for a late event in an hour that
  had none. It is never sealed and, again by `LateExplainsDrift`, holds only late
  events.
- `check_invoice_total_drift` reads totals and lines in two statements
  (`reconciliation.py:67`, `:71`) and pages when an override commits in between.
  `QuietCheckIsClean`: it does so only for an invoice that has just changed.
- `models.py:52` says price plans cover [0, infinity), validated at creation. Only the
  CHECK constraints exist, and the loop bills whatever is there. `BillIsExact` says what
  that is for any plan (a unit in a gap is free, one in an overlap is charged twice);
  `ChargesTile` is about plans that cover.
- `views_ops.py:194` says a reused key with a different body is a 409. That is so for a
  sequential reuse within the retention of keys. Two concurrent requests for one
  customer, or a reuse after cleanup, meet the unique index of `credit` and get 200
  with the credit issued first; `CreditLedger` promises that much, and the answer
  does name the amount credited.
- The scan of `run_aggregation` is safe only while ingest transactions end within
  delay plus overlap (section 2).
- `cron_runner.py` says its commands take `pg_try_advisory_lock`; the aggregator
  does. Overlapping invoicer runs are safe through the billing lock
  (`ExitOkMeansInvoiced` covers them), and the other two commands by what they do.
- `issue_invoices` has no option for the period: a month that nobody invoices before
  the next one ends cannot be invoiced by it.
- `invoicer.py:120` returns any existing invoice of the period. A committed draft would
  be returned as it is; no code path commits one.
- `GET /v1/invoices?status=issued`: a payment between two pages moves later invoices to
  pages already read, so paging can skip them. Unfiltered it does not. The COUNT and the
  page are two statements, so a client that stops at `total` instead of at the 404 may
  miss an invoice issued in between.
- `GET /v1/usage` with `limit=0` gives an empty page without a cursor, which looks like
  the end; without `start` each page computes the current month again and cuts the
  range off when the month rolls over. `UsagePages` has a client with a fixed range
  and limits of at least 1.
- The anomaly signal of the ops view compares with days that had usage, not with 30
  days, and its first day is a partial one. It is displayed and feeds nothing.

## 8. Not modelled

- *Sessions, API keys, permissions*: per-request lookups in one statement, rechecked on
  each request; rows are only created, deleted or compared with the clock, and
  partial updates (`update_fields`, `filter().update()`) write no column another actor
  owns. There is no interleaving whose outcome differs.
- *Tenant-scoped managers*: query filters without state; the models treat one customer
  where tables are per customer.
- *Audit log*: its rows are in the transactions modelled; the immutability triggers are
  DDL and taken for granted (rows are never changed in the models).
- *Invoice detail, ops customer list and dashboards*: single reads and arithmetic for
  display.
- *Cron runner*: the dispatch of the aggregator and of the cleanup is the same code as
  the two schedules modelled; their effects are in `AggregatorWatermark` and in the
  cleanup actions of `Settlement` and `OpsCredits`.
- *Error envelope, money formatting, seed data, settings, routers, URLs, schema, front
  ends, infrastructure*: formatting, demo data and configuration. READ COMMITTED, which
  the settings leave in place, is the base of every model.

What would add most from here: abstract specifications of the watermark and of the
monthly run, stated as refinements like the four there are, and a statement of how the
cuts of section 2 fit together (that what `EventTable` records is what one
`IngestInsert` of `Billing` may insert). `RequestsEnd` needs no theorem beside
`NoDeadlock`: a request of `OpsCredits` waits only for one at a later program point.
