------------------------------- MODULE Billing -------------------------------
(***************************************************************************)
(* Usage events of one customer on their way to an invoice: the ingest     *)
(* endpoint, the hourly aggregator and the monthly invoicer, running as    *)
(* concurrent PostgreSQL READ COMMITTED transactions that meet only in the *)
(* tables event, usage_window, invoice, credit and in advisory locks.      *)
(*                                                                         *)
(* A step is one SQL statement (with its own snapshot of the committed     *)
(* rows), one lock request or grant, or one COMMIT or ROLLBACK.  What a    *)
(* transaction has written stays private to it (ing, inv, agg) until it    *)
(* commits.                                                                *)
(*                                                                         *)
(* A SUM of units over a set of events is abstracted to the set of events  *)
(* it ranges over, so that a property can say which events a window or an  *)
(* invoice charges, not only how many units.  Pricing.tla has the prices.  *)
(***************************************************************************)
EXTENDS Integers

CONSTANTS
    Rids,         \* request ids of events
    Hours,        \* hour windows an event timestamp can fall in
    NumPeriods,   \* calendar months 1 .. NumPeriods
    PeriodOf,     \* the month containing an hour
    Credits,      \* credits that staff may issue
    Ingesters,    \* web workers serving POST /v1/events
    Invoicers,    \* processes running issue_monthly_invoice
    Aggregators,  \* processes running run_aggregation
    None          \* SQL: no such row

Periods == 1 .. NumPeriods
Procs == Ingesters \cup Invoicers \cup Aggregators

EventRow == [hour : Hours, late : BOOLEAN, adjusted : BOOLEAN]
InvoiceRow == [usage : SUBSET Rids, late : SUBSET Rids, credits : SUBSET Credits]
WindowRow == [counted : SUBSET Rids, sealed : BOOLEAN]
Batches == [Rids -> Hours \cup {None}]
IngTxn == [batch : Batches, rows : [Rids -> EventRow \cup {None}]]
InvTxn == [period : Periods, rows : [Hours -> SUBSET Rids], usage : SUBSET Rids,
           late : SUBSET Rids, credits : SUBSET Credits]
AggTxn == [hours : SUBSET Hours, rows : [Hours -> SUBSET Rids]]
LockNames == {"seal", "billing", "aggregator"}

ASSUME PeriodsAssumption == NumPeriods \in Nat \ {0} /\ PeriodOf \in [Hours -> Periods]
ASSUME ProcsAssumption == /\ Ingesters \cap Invoicers = {}
                          /\ Ingesters \cap Aggregators = {}
                          /\ Invoicers \cap Aggregators = {}
ASSUME NoneAssumption == /\ None \notin Hours
                         /\ None \notin EventRow
                         /\ None \notin InvoiceRow
                         /\ None \notin Nat

VARIABLES
    event,    \* committed rows of table event
    window,   \* rows of usage_window; counted = {} when the row does not exist
    invoice,  \* rows of invoice: the events and credits charged on it
    credit,   \* rows of credit: None, Pending or the period of the invoice
    pc,       \* where each process is
    ing,      \* per ingester: its batch and its uncommitted rows of event
    inv,      \* per invoicer: its period and what it has written or read
    agg,      \* per aggregator: candidate hours and uncommitted windows
    held,     \* who holds each advisory lock
    ahead     \* per waiting process: the requests queued before its own

tables == <<event, window, invoice, credit>>
locks == <<held, ahead>>
vars == <<event, window, invoice, credit, pc, ing, inv, agg, held, ahead>>

Pending == 0      \* applied_to_invoice IS NULL
NoEvents == [r \in Rids |-> None]
NoWindows == [h \in Hours |-> {}]
IdleIng == [batch |-> NoEvents, rows |-> NoEvents]
IdleInv == [period |-> 1, rows |-> NoWindows, usage |-> {}, late |-> {}, credits |-> {}]
IdleAgg == [hours |-> {}, rows |-> NoWindows]

Init ==
    /\ event = NoEvents
    /\ window = [h \in Hours |-> [counted |-> {}, sealed |-> FALSE]]
    /\ invoice = [p \in Periods |-> None]
    /\ credit = [c \in Credits |-> None]
    /\ pc = [p \in Procs |-> "idle"]
    /\ ing = [i \in Ingesters |-> IdleIng]
    /\ inv = [i \in Invoicers |-> IdleInv]
    /\ agg = [a \in Aggregators |-> IdleAgg]
    /\ held = [l \in LockNames |-> {}]
    /\ ahead = [p \in Procs |-> {}]

-----------------------------------------------------------------------------
(* Advisory locks.  Ingesters take "seal" in shared mode; every other use  *)
(* is exclusive.  A request conflicts with the waiting requests before it  *)
(* as well as with the holders, so grants are first come, first served.    *)

CompatibleSealShared(l, p, q) == l = "seal"       \* mutant: seal always shared
Compatible(l, p, q) == l = "seal" /\ p \in Ingesters /\ q \in Ingesters

WaitPc(l) == IF l = "seal" THEN "waitSeal" ELSE "waitBilling"

QueuedNobody(l) == {}                             \* mutant: no wait queue
Queued(l) == {q \in Procs : pc[q] = WaitPc(l)}

\* p asks for lock l and leaves its other locks as they are.
Request(p, l) ==
    /\ pc' = [pc EXCEPT ![p] = WaitPc(l)]
    /\ ahead' = [ahead EXCEPT ![p] = Queued(l)]

Grantable(p, l) ==
    /\ pc[p] = WaitPc(l)
    /\ ahead[p] = {}
    /\ \A q \in held[l] : Compatible(l, p, q)

ReleaseAllSession(p) ==                   \* mutant: session locks outlive the COMMIT
    /\ pc' = [pc EXCEPT ![p] = "idle"]
    /\ ahead' = [q \in Procs |-> IF q = p THEN {} ELSE ahead[q] \ {p}]
    /\ UNCHANGED held
\* Every lock p holds is released and p leaves every queue.
ReleaseAll(p) ==
    /\ pc' = [pc EXCEPT ![p] = "idle"]
    /\ held' = [l \in DOMAIN held |-> held[l] \ {p}]
    /\ ahead' = [q \in Procs |-> IF q = p THEN {} ELSE ahead[q] \ {p}]

-----------------------------------------------------------------------------
(* Queries over the committed rows.                                        *)

HoursOf(p) == {h \in Hours : PeriodOf[h] = p}
EventsIn(h) == {r \in Rids : event[r] # None /\ event[r].hour = h}

\* The EXISTS of the ingest statement: an invoice covers the event's hour.
IsLateByWindow(h) == window[h].sealed             \* mutant: ask the window
IsLate(h) == invoice[PeriodOf[h]] # None

\* INSERT .. GROUP BY hour ON CONFLICT DO UPDATE .. WHERE sealed_at IS NULL:
\* the sums written for the hours in H ({} where no row is written).
UpsertAlways(H) ==                                \* mutant: no WHERE clause
    [h \in Hours |-> IF h \in H THEN EventsIn(h) ELSE {}]
Upsert(H) ==
    [h \in Hours |-> IF h \in H /\ ~window[h].sealed THEN EventsIn(h) ELSE {}]

LateEventsEvenAdjusted(p) ==                      \* mutant: adjusted_at ignored
    {r \in Rids : event[r] # None /\ event[r].late /\ PeriodOf[event[r].hour] < p}
LateEvents(p) ==
    {r \in Rids : /\ event[r] # None
                  /\ event[r].late
                  /\ ~event[r].adjusted
                  /\ PeriodOf[event[r].hour] < p}

PendingCredits == {c \in Credits : credit[c] = Pending}

-----------------------------------------------------------------------------
(* POST /v1/events: one transaction of two statements.                     *)

IngestBegin(i) ==
    /\ pc[i] = "idle"
    /\ \E b \in Batches \ {NoEvents} : ing' = [ing EXCEPT ![i].batch = b]
    /\ Request(i, "seal")
    /\ UNCHANGED <<event, window, invoice, credit, inv, agg, held>>

IngestLock(i) ==
    /\ Grantable(i, "seal")
    /\ pc' = [pc EXCEPT ![i] = "locked"]
    /\ held' = [held EXCEPT !["seal"] = @ \cup {i}]
    /\ ahead' = [q \in Procs |-> ahead[q] \ {i}]
    /\ UNCHANGED <<event, window, invoice, credit, ing, inv, agg>>

\* Another open transaction has inserted a request id of this batch: the
\* unique index makes the INSERT wait until that transaction ends.
BlockedOnRow(i) ==
    \E j \in Ingesters \ {i}, r \in Rids :
        ing[i].batch[r] # None /\ ing[j].rows[r] # None

InsertedRowNoFlag(h) ==                           \* mutant: is_late left NULL
    [hour |-> h, late |-> None, adjusted |-> FALSE]
InsertedRow(h) == [hour |-> h, late |-> IsLate(h), adjusted |-> FALSE]

IngestInsert(i) ==
    /\ pc[i] = "locked"
    /\ ~BlockedOnRow(i)
    /\ ing' = [ing EXCEPT ![i].rows =
                 [r \in Rids |-> IF ing[i].batch[r] # None /\ event[r] = None
                                 THEN InsertedRow(ing[i].batch[r])
                                 ELSE None]]
    /\ pc' = [pc EXCEPT ![i] = "inserted"]
    /\ UNCHANGED <<event, window, invoice, credit, inv, agg, held, ahead>>

IngestCommit(i) ==
    /\ pc[i] = "inserted"
    /\ event' = [r \in Rids |-> IF ing[i].rows[r] # None THEN ing[i].rows[r]
                                                         ELSE event[r]]
    /\ ing' = [ing EXCEPT ![i] = IdleIng]
    /\ ReleaseAll(i)
    /\ UNCHANGED <<window, invoice, credit, inv, agg>>

\* The worker dies, the connection drops or a statement fails: rollback.
IngestAbort(i) ==
    /\ pc[i] # "idle"
    /\ ing' = [ing EXCEPT ![i] = IdleIng]
    /\ ReleaseAll(i)
    /\ UNCHANGED <<event, window, invoice, credit, inv, agg>>

-----------------------------------------------------------------------------
(* issue_monthly_invoice: one transaction.                                 *)

InvoiceBegin(i) ==
    /\ pc[i] = "idle"
    /\ \E p \in Periods : inv' = [inv EXCEPT ![i].period = p]
    /\ Request(i, "billing")
    /\ UNCHANGED <<event, window, invoice, credit, ing, agg, held>>

\* The billing lock is granted and the next statement asks for the seal lock.
InvoiceBillingLock(i) ==
    /\ Grantable(i, "billing")
    /\ held' = [held EXCEPT !["billing"] = @ \cup {i}]
    /\ pc' = [pc EXCEPT ![i] = "waitSeal"]
    /\ ahead' = [q \in Procs |-> IF q = i THEN Queued("seal") ELSE ahead[q] \ {i}]
    /\ UNCHANGED <<event, window, invoice, credit, ing, inv, agg>>

InvoiceSealLock(i) ==
    /\ Grantable(i, "seal")
    /\ pc' = [pc EXCEPT ![i] = "locked"]
    /\ held' = [held EXCEPT !["seal"] = @ \cup {i}]
    /\ ahead' = [q \in Procs |-> ahead[q] \ {i}]
    /\ UNCHANGED <<event, window, invoice, credit, ing, inv, agg>>

\* The existence query: has an invoice for the period already been issued?
AlreadyIssued(p) == invoice[p] # None

InvoiceExists(i) ==
    /\ pc[i] = "locked"
    /\ AlreadyIssued(inv[i].period)
    /\ inv' = [inv EXCEPT ![i] = IdleInv]
    /\ ReleaseAll(i)
    /\ UNCHANGED <<event, window, invoice, credit, ing, agg>>

InvoiceReaggregate(i) ==
    /\ pc[i] = "locked"
    /\ ~AlreadyIssued(inv[i].period)
    /\ inv' = [inv EXCEPT ![i].rows = Upsert(HoursOf(inv[i].period))]
    /\ pc' = [pc EXCEPT ![i] = "reaggregated"]
    /\ UNCHANGED <<event, window, invoice, credit, ing, agg, held, ahead>>

\* What the transaction sees of window h: its own upsert, else the table.
Counted(i, h) == IF inv[i].rows[h] # {} THEN inv[i].rows[h] ELSE window[h].counted

\* The draft is inserted (invoice_unique_customer_period lets it in only if
\* the period has no invoice) and the windows of the period are summed.
InvoiceSumWindows(i) ==
    /\ pc[i] = "reaggregated"
    /\ invoice[inv[i].period] = None
    /\ inv' = [inv EXCEPT ![i].usage =
                 UNION {Counted(i, h) : h \in HoursOf(inv[i].period)}]
    /\ pc' = [pc EXCEPT ![i] = "summed"]
    /\ UNCHANGED <<event, window, invoice, credit, ing, agg, held, ahead>>

InvoiceSelectLate(i) ==
    /\ pc[i] = "summed"
    /\ inv' = [inv EXCEPT ![i].late = LateEvents(inv[i].period)]
    /\ pc' = [pc EXCEPT ![i] = "lateSelected"]
    /\ UNCHANGED <<event, window, invoice, credit, ing, agg, held, ahead>>

InvoiceSelectCredits(i) ==
    /\ pc[i] = "lateSelected"
    /\ inv' = [inv EXCEPT ![i].credits = PendingCredits]
    /\ pc' = [pc EXCEPT ![i] = "creditsSelected"]
    /\ UNCHANGED <<event, window, invoice, credit, ing, agg, held, ahead>>

\* The credits marked consumed: the ones selected, by id.
ConsumedAllPending(i) == PendingCredits           \* mutant: re-query
Consumed(i) == inv[i].credits

\* The seal update touches the windows that exist in the period.
SealedAfterAll(i, h) ==                           \* mutant: period not tested
    window[h].sealed \/ Counted(i, h) # {}
SealedAfterOwn(i, h) ==                           \* mutant: its own upserts missed
    window[h].sealed \/ (PeriodOf[h] = inv[i].period /\ window[h].counted # {})
SealedAfter(i, h) ==
    window[h].sealed \/ (PeriodOf[h] = inv[i].period /\ Counted(i, h) # {})

\* Line items, total, status, adjusted_at, applied_to_invoice, sealed_at and
\* the audit row become visible together.
InvoiceCommit(i) ==
    /\ pc[i] = "creditsSelected"
    /\ invoice' = [invoice EXCEPT ![inv[i].period] =
                     [usage |-> inv[i].usage, late |-> inv[i].late,
                      credits |-> inv[i].credits]]
    /\ event' = [r \in Rids |-> IF r \in inv[i].late /\ event[r] # None
                                THEN [event[r] EXCEPT !.adjusted = TRUE]
                                ELSE event[r]]
    /\ credit' = [c \in Credits |-> IF c \in Consumed(i) THEN inv[i].period
                                                         ELSE credit[c]]
    /\ window' = [h \in Hours |-> [counted |-> Counted(i, h),
                                   sealed |-> SealedAfter(i, h)]]
    /\ inv' = [inv EXCEPT ![i] = IdleInv]
    /\ ReleaseAll(i)
    /\ UNCHANGED <<ing, agg>>

\* An exception or a crash anywhere in the transaction rolls all of it back.
InvoiceAbort(i) ==
    /\ pc[i] # "idle"
    /\ inv' = [inv EXCEPT ![i] = IdleInv]
    /\ ReleaseAll(i)
    /\ UNCHANGED <<event, window, invoice, credit, ing, agg>>

-----------------------------------------------------------------------------
(* run_aggregation.  Which hours become candidates depends on ingested_at  *)
(* and the watermark; here the scan may return any hours with events.      *)

AggregateScan(a) ==
    /\ pc[a] = "idle"
    /\ held["aggregator"] = {}
    /\ held' = [held EXCEPT !["aggregator"] = {a}]
    /\ \E H \in SUBSET {h \in Hours : EventsIn(h) # {}} :
          H # {} /\ agg' = [agg EXCEPT ![a].hours = H]
    /\ Request(a, "billing")
    /\ UNCHANGED <<event, window, invoice, credit, ing, inv>>

AggregateLock(a) ==
    /\ Grantable(a, "billing")
    /\ pc' = [pc EXCEPT ![a] = "locked"]
    /\ held' = [held EXCEPT !["billing"] = @ \cup {a}]
    /\ ahead' = [q \in Procs |-> ahead[q] \ {a}]
    /\ UNCHANGED <<event, window, invoice, credit, ing, inv, agg>>

AggregateUpsert(a) ==
    /\ pc[a] = "locked"
    /\ agg' = [agg EXCEPT ![a].rows = Upsert(agg[a].hours)]
    /\ pc' = [pc EXCEPT ![a] = "upserted"]
    /\ UNCHANGED <<event, window, invoice, credit, ing, inv, held, ahead>>

AggregateCommit(a) ==
    /\ pc[a] = "upserted"
    /\ window' = [h \in Hours |->
                    IF agg[a].rows[h] # {}
                    THEN [window[h] EXCEPT !.counted = agg[a].rows[h]]
                    ELSE window[h]]
    /\ agg' = [agg EXCEPT ![a] = IdleAgg]
    /\ ReleaseAll(a)
    /\ UNCHANGED <<event, invoice, credit, ing, inv>>

AggregateAbort(a) ==
    /\ pc[a] # "idle"
    /\ agg' = [agg EXCEPT ![a] = IdleAgg]
    /\ ReleaseAll(a)
    /\ UNCHANGED <<event, window, invoice, credit, ing, inv>>

-----------------------------------------------------------------------------
\* Staff issue a credit in a transaction that takes no advisory lock.
IssueCredit(c) ==
    /\ credit[c] = None
    /\ credit' = [credit EXCEPT ![c] = Pending]
    /\ UNCHANGED <<event, window, invoice, pc, ing, inv, agg, held, ahead>>

IngestStep(i) == IngestLock(i) \/ IngestInsert(i) \/ IngestCommit(i)
InvoiceStep(i) ==
    \/ InvoiceBillingLock(i) \/ InvoiceSealLock(i) \/ InvoiceExists(i)
    \/ InvoiceReaggregate(i) \/ InvoiceSumWindows(i) \/ InvoiceSelectLate(i)
    \/ InvoiceSelectCredits(i) \/ InvoiceCommit(i)
AggregateStep(a) == AggregateLock(a) \/ AggregateUpsert(a) \/ AggregateCommit(a)

Next ==
    \/ \E i \in Ingesters : IngestBegin(i) \/ IngestStep(i) \/ IngestAbort(i)
    \/ \E i \in Invoicers : InvoiceBegin(i) \/ InvoiceStep(i) \/ InvoiceAbort(i)
    \/ \E a \in Aggregators :
          AggregateScan(a) \/ AggregateStep(a) \/ AggregateAbort(a)
    \/ \E c \in Credits : IssueCredit(c)

Spec == Init /\ [][Next]_vars

\* A transaction that can run its next statement, or be granted the lock it
\* waits for, eventually does.  Nothing is fair about starting or aborting.
Fairness ==
    /\ \A i \in Ingesters : WF_vars(IngestStep(i))
    /\ \A i \in Invoicers : WF_vars(InvoiceStep(i))
    /\ \A a \in Aggregators : WF_vars(AggregateStep(a))

FairSpec == Spec /\ Fairness

-----------------------------------------------------------------------------
(* Properties                                                              *)

PcValues == {"idle", "waitSeal", "waitBilling", "locked", "inserted",
             "reaggregated", "summed", "lateSelected", "creditsSelected",
             "upserted"}

\* Every variable stays in the set of values its column or local can hold.
TypeOK ==
    /\ event \in [Rids -> EventRow \cup {None}]
    /\ window \in [Hours -> WindowRow]
    /\ invoice \in [Periods -> InvoiceRow \cup {None}]
    /\ credit \in [Credits -> Periods \cup {Pending, None}]
    /\ pc \in [Procs -> PcValues]
    /\ ing \in [Ingesters -> IngTxn]
    /\ inv \in [Invoicers -> InvTxn]
    /\ agg \in [Aggregators -> AggTxn]
    /\ held \in [LockNames -> SUBSET Procs]
    /\ ahead \in [Procs -> SUBSET Procs]

Recorded == {r \in Rids : event[r] # None}
Issued == {p \in Periods : invoice[p] # None}
ChargedOn(r) == {p \in Issued : r \in invoice[p].usage \cup invoice[p].late}

\* An event is charged at most once over all invoices: as usage on the invoice
\* of its own month, or as a late adjustment on the invoice of a later month.
NeverDoubleBilled ==
    /\ \A p \in Issued :
          /\ invoice[p].usage \cap invoice[p].late = {}
          /\ \A r \in invoice[p].usage : r \in Recorded /\ PeriodOf[event[r].hour] = p
          /\ \A r \in invoice[p].late : r \in Recorded /\ PeriodOf[event[r].hour] < p
    /\ \A r \in Rids : \A p, q \in ChargedOn(r) : p = q

\* Once a month is invoiced, each recorded event of it is on that invoice or
\* carries the late flag, and a late event still waits for adjustment exactly
\* as long as no invoice charges it: no event falls between the two paths.
NeverLost ==
    \A r \in Recorded :
        LET p == PeriodOf[event[r].hour] IN
        /\ event[r].late => p \in Issued
        /\ p \in Issued => (event[r].late <=> r \notin invoice[p].usage)
        /\ event[r].adjusted <=> \E q \in Issued : r \in invoice[q].late
        /\ event[r].adjusted => event[r].late

\* A sealed window holds exactly the on-time events of its hour, so the sum
\* the invoice was made from can be recomputed from the events at any time.
SealedWindowsExact ==
    \A h \in Hours : window[h].sealed =>
        window[h].counted = {r \in EventsIn(h) : ~event[r].late}

\* At most one open transaction has uncommitted usage_window rows: two writers
\* never meet on a row, whatever the interleaving of aggregator and invoicer.
WritesWindows(p) == IF p \in Invoicers THEN inv[p].rows # NoWindows
                                        ELSE agg[p].rows # NoWindows
OneWindowWriter ==
    \A p, q \in Invoicers \cup Aggregators :
        WritesWindows(p) /\ WritesWindows(q) => p = q

\* A credit is marked as applied to the one invoice that carries its line item,
\* and to no other, although credits are issued without any advisory lock.
CreditAppliedOnce ==
    \A c \in Credits : \A p \in Periods :
        credit[c] = p <=> p \in Issued /\ c \in invoice[p].credits

\* A step never changes a sealed window, whoever recomputes its hour.
SealedWindowsFrozen ==
    [][\A h \in Hours : window[h].sealed => window'[h] = window[h]]_vars

\* The commit that issues an invoice leaves no late event of an earlier month
\* waiting, not even one recorded while the invoice was being computed.
LateNeverSkipped ==
    [][\A p \in Periods : invoice[p] = None /\ invoice'[p] # None =>
          \A r \in Rids : event'[r] # None /\ event'[r].late
                          /\ PeriodOf[event'[r].hour] < p => event'[r].adjusted]_vars

\* Nobody waits for an advisory lock forever: a stream of ingests sharing the
\* seal lock cannot starve the invoicer, nor the invoicer the ingests.
WaitersServed ==
    \A p \in Procs : pc[p] \in {"waitSeal", "waitBilling"} ~> pc[p] \in {"idle", "locked"}

\* check_window_drift: the windows whose sum is not that of their events.
WindowDrift == {h \in Hours : /\ window[h].counted # {}
                              /\ window[h].counted # EventsIn(h)}

\* Late events are all that can be wrong with the windows of an invoiced month,
\* whatever the aggregator does to it before and after: a window left unsealed
\* has no other events, and the drift detector misses no other in a sum.
LateExplainsDrift ==
    /\ \A h \in Hours : PeriodOf[h] \in Issued /\ ~window[h].sealed =>
          \A r \in EventsIn(h) : event[r].late
    /\ \A h \in WindowDrift : PeriodOf[h] \in Issued =>
          \A r \in EventsIn(h) \ window[h].counted : event[r].late
=============================================================================
