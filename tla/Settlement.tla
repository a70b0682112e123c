----------------------------- MODULE Settlement ------------------------------
(***************************************************************************)
(* What happens to an invoice after it is issued: staff override its line  *)
(* items, the payment processor reports its payment by webhook (and may    *)
(* deliver a report many times), and the nightly reconciliation compares   *)
(* its total with its lines.  All three run concurrently and meet on the   *)
(* row locks of line_item and invoice and on the unique indexes of         *)
(* webhook_delivery and idempotency_key.                                   *)
(*                                                                         *)
(* A step is one SQL statement with its own READ COMMITTED snapshot, a     *)
(* row lock grant, or a COMMIT or ROLLBACK.  Uncommitted writes are kept   *)
(* in req and hook.                                                        *)
(***************************************************************************)
EXTENDS Integers, Sequences, FiniteSets, Functions

CONSTANTS
    Invoices,    \* invoices that have been issued
    Lines,       \* their line items
    InvoiceOf,   \* the invoice a line item belongs to
    Original,    \* amount of each line item at issuance
    Requests,    \* override requests staff may send
    Keys,        \* Idempotency-Key values
    Deliveries,  \* X-Delivery-ID values
    Amounts,     \* amounts a payment report may carry
    Staff,       \* workers serving PATCH /ops/invoices/.../line-items/...
    Hooks,       \* workers serving POST /webhooks/payments
    MaxAudit,    \* bound: override requests are not started beyond this
    None

AuditRow == [line : Lines, before : Int, after : Int, total : Nat,
             key : Keys \cup {None}]
Request == [invoice : Invoices, line : Lines, amount : Int, key : Keys \cup {None}]
Report == [invoice : Invoices \cup {None}, amount : Int]
InvoiceRow == [status : {"issued", "paid"}, total : Nat,
               paidBy : Deliveries \cup {None}]
Results == {"accepted", "rejected", "error"}
Rows == Invoices \cup Lines
Workers == Staff \cup Hooks

ASSUME RowsAssumption == /\ Invoices \cap Lines = {}
                         /\ InvoiceOf \in [Lines -> Invoices]
                         /\ Original \in [Lines -> Int]
\* The total of an invoice sums the rows of a table.
ASSUME FiniteAssumption == IsFiniteSet(Lines)
ASSUME InputsAssumption == /\ Requests \subseteq Request
                           /\ Amounts \subseteq Int
ASSUME WorkersAssumption == Staff \cap Hooks = {}
ASSUME NoneAssumption == /\ None \notin Invoices /\ None \notin Keys
                         /\ None \notin Deliveries /\ None \notin Workers
                         /\ None \notin Report /\ None \notin Results
                         /\ None \notin Request

VARIABLES
    invoice,   \* rows of invoice
    line,      \* amount of each row of line_item
    audit,     \* audit_log rows of overrides, in commit order
    payments,  \* per invoice: number of "invoice.pay" rows in audit_log
    idem,      \* rows of idempotency_key: the request answered, or None
    delivery,  \* rows of webhook_delivery: the result, or None
    sent,      \* what the processor reports under each delivery id
    acked,     \* delivery ids some delivery of which was answered 200
    rowLock,   \* the worker holding the lock of each row
    pc,
    req,       \* per staff worker: its request and what it has read
    hook,      \* per webhook worker: its delivery id and what it has read
    recon,     \* totals read by the reconciliation, None while it is not running
    paged      \* invoices the reconciliation has reported as drifted

tables == <<invoice, line, audit, payments, idem, delivery>>
external == <<sent, acked>>
watch == <<recon, paged>>
vars == <<invoice, line, audit, payments, idem, delivery, sent, acked,
          rowLock, pc, req, hook, recon, paged>>

MaxZeroDropped(n) == n                            \* mutant: total not floored
MaxZero(n) == IF n < 0 THEN 0 ELSE n
\* SELECT SUM(amount_micro_cents) over the line items of invoice i.
LinesOf(i) == {l \in Lines : InvoiceOf[l] = i}
LineSum(i, amounts) == SumFunction([l \in LinesOf(i) |-> amounts[l]])
TotalOf(i, amounts) == MaxZero(LineSum(i, amounts))
\* The amounts once request r is applied.
Overridden(amounts, r) == [amounts EXCEPT ![r.line] = r.amount]

IdleReq == [request |-> None, before |-> 0, total |-> 0]
IdleHook == [delivery |-> None, status |-> "issued", total |-> 0]

Init ==
    /\ invoice = [i \in Invoices |-> [status |-> "issued",
                                      total |-> TotalOf(i, Original),
                                      paidBy |-> None]]
    /\ line = Original
    /\ audit = << >>
    /\ payments = [i \in Invoices |-> 0]
    /\ idem = [k \in Keys |-> None]
    /\ delivery = [d \in Deliveries |-> None]
    /\ sent = [d \in Deliveries |-> None]
    /\ acked = {}
    /\ rowLock = [x \in Rows |-> None]
    /\ pc = [w \in Workers |-> "idle"]
    /\ req = [s \in Staff |-> IdleReq]
    /\ hook = [h \in Hooks |-> IdleHook]
    /\ recon = None
    /\ paged = {}

-----------------------------------------------------------------------------
(* Row locks: FOR UPDATE waits until no other transaction holds the row.   *)

RowFreeLinesOnly(x) == x \in Invoices \/ rowLock[x] = None  \* mutant: of=("self",)
RowFreeAlways(x) == TRUE                          \* mutant: no FOR UPDATE
RowFree(x) == rowLock[x] = None

Unlocked(w) == [x \in Rows |-> IF rowLock[x] = w THEN None ELSE rowLock[x]]

Finish(w) ==
    /\ pc' = [pc EXCEPT ![w] = "idle"]
    /\ rowLock' = Unlocked(w)

-----------------------------------------------------------------------------
(* OverrideLineItemView.patch.                                             *)

\* A request whose key is already recorded is answered from the stored row
\* (or with 409) and changes nothing; a request without one always runs.
Unanswered(r) == \A k \in Keys : k = r.key => idem[k] = None

OverrideBegin(s) ==
    /\ pc[s] = "idle"
    /\ Len(audit) < MaxAudit
    /\ \E r \in Requests : Unanswered(r) /\ req' = [req EXCEPT ![s].request = r]
    /\ pc' = [pc EXCEPT ![s] = "lockLine"]
    /\ UNCHANGED <<tables, external, rowLock, hook, watch>>

\* The filter on line_item.id and invoice_id finds no row: 404.
OverrideNotFound(s) ==
    /\ pc[s] = "lockLine"
    /\ InvoiceOf[req[s].request.line] # req[s].request.invoice
    /\ req' = [req EXCEPT ![s] = IdleReq]
    /\ Finish(s)
    /\ UNCHANGED <<tables, external, hook, watch>>

\* select_for_update with select_related: the line item's row is locked first,
\* then the row of the invoice it is joined with.
OverrideLockLine(s) ==
    LET l == req[s].request.line IN
    /\ pc[s] = "lockLine"
    /\ InvoiceOf[l] = req[s].request.invoice
    /\ RowFree(l)
    /\ rowLock' = [rowLock EXCEPT ![l] = s]
    /\ pc' = [pc EXCEPT ![s] = "lockInvoice"]
    /\ UNCHANGED <<tables, external, req, hook, watch>>

\* Both rows are read as they are when the last lock is granted.
OverrideLockInvoice(s) ==
    LET r == req[s].request IN
    /\ pc[s] = "lockInvoice"
    /\ RowFree(r.invoice)
    /\ invoice[r.invoice].status # "paid"
    /\ rowLock' = [rowLock EXCEPT ![r.invoice] = s]
    /\ req' = [req EXCEPT ![s].before = line[r.line]]
    /\ pc' = [pc EXCEPT ![s] = "locked"]
    /\ UNCHANGED <<tables, external, hook, watch>>

OverridePaidReturns(s) ==         \* mutant: the answer leaves the transaction open
    /\ pc[s] = "lockInvoice"
    /\ RowFree(req[s].request.invoice)
    /\ invoice[req[s].request.invoice].status = "paid"
    /\ req' = [req EXCEPT ![s] = IdleReq]
    /\ pc' = [pc EXCEPT ![s] = "idle"]
    /\ UNCHANGED <<tables, external, hook, watch, rowLock>>
OverridePaid(s) ==
    LET r == req[s].request IN
    /\ pc[s] = "lockInvoice"
    /\ RowFree(r.invoice)
    /\ invoice[r.invoice].status = "paid"
    /\ req' = [req EXCEPT ![s] = IdleReq]
    /\ Finish(s)
    /\ UNCHANGED <<tables, external, hook, watch>>

\* The line is updated, then the lines are summed by a statement that sees the
\* transaction's own line and the committed rows of the others.
OverrideSum(s) ==
    LET r == req[s].request IN
    /\ pc[s] = "locked"
    /\ req' = [req EXCEPT ![s].total = TotalOf(r.invoice, Overridden(line, r))]
    /\ pc' = [pc EXCEPT ![s] = "summed"]
    /\ UNCHANGED <<tables, external, rowLock, hook, watch>>

\* The idempotency row goes in last.  An uncommitted row with the same key of
\* another transaction makes the INSERT wait.
KeyFree(s, k) == \A t \in Staff \ {s} : pc[t] = "keyed" => req[t].request.key # k

KeyUnusedUnchecked(k) == TRUE                     \* mutant: no unique index
KeyUnused(k) == \A x \in Keys : x = k => idem[x] = None

OverrideInsertKey(s) ==
    LET k == req[s].request.key IN
    /\ pc[s] = "summed"
    /\ k = None \/ KeyFree(s, k)
    /\ KeyUnused(k)
    /\ pc' = [pc EXCEPT ![s] = "keyed"]
    /\ UNCHANGED <<tables, external, rowLock, req, hook, watch>>

OverrideCommit(s) ==
    LET r == req[s].request IN
    /\ pc[s] = "keyed"
    /\ line' = Overridden(line, r)
    /\ invoice' = [invoice EXCEPT ![r.invoice].total = req[s].total]
    /\ audit' = Append(audit, [line |-> r.line, before |-> req[s].before,
                               after |-> r.amount, total |-> req[s].total,
                               key |-> r.key])
    /\ idem' = [k \in Keys |-> IF k = r.key THEN r ELSE idem[k]]
    /\ req' = [req EXCEPT ![s] = IdleReq]
    /\ Finish(s)
    /\ UNCHANGED <<payments, delivery, external, hook, watch>>

\* Another request with the key committed first: the IntegrityError is not caught,
\* the transaction rolls back and the reply is a 500.
OverrideKeyTakenWaits(s) == FALSE                 \* mutant: retried for ever
OverrideKeyTaken(s) ==
    /\ pc[s] = "summed"
    /\ ~KeyUnused(req[s].request.key)
    /\ req' = [req EXCEPT ![s] = IdleReq]
    /\ Finish(s)
    /\ UNCHANGED <<tables, external, hook, watch>>

\* A crash or a dropped connection: the transaction is rolled back.
OverrideAbort(s) ==
    /\ pc[s] # "idle"
    /\ req' = [req EXCEPT ![s] = IdleReq]
    /\ Finish(s)
    /\ UNCHANGED <<tables, external, hook, watch>>

\* cleanup_idempotency_keys deletes a row whose TTL has passed.
CleanupKey(k) ==
    /\ idem[k] # None
    /\ idem' = [idem EXCEPT ![k] = None]
    /\ UNCHANGED <<invoice, line, audit, payments, delivery, external, rowLock,
                   pc, req, hook, watch>>

-----------------------------------------------------------------------------
(* The payment processor and payments_webhook.                             *)

\* The processor decides to report a payment under a fresh delivery id: of an
\* invoice, or of one that Verita does not have.
ProcessorReports(d) ==
    /\ sent[d] = None
    /\ \E i \in Invoices \cup {None}, a \in Amounts :
          sent' = [sent EXCEPT ![d] = [invoice |-> i, amount |-> a]]
    /\ UNCHANGED <<tables, acked, rowLock, pc, req, hook, watch>>

\* A delivery of the report arrives, first or again.  It passes the timestamp
\* and signature checks, or it is late or signed with a rotated secret.
HookReceive(h) ==
    /\ pc[h] = "idle"
    /\ \E d \in Deliveries : sent[d] # None /\ hook' = [hook EXCEPT ![h].delivery = d]
    /\ \E next \in {"insert", "reject"} : pc' = [pc EXCEPT ![h] = next]
    /\ UNCHANGED <<tables, external, rowLock, req, watch>>

\* The unique index on delivery_id: an uncommitted row with the id makes an
\* INSERT wait, a committed one makes it fail.
DeliveryFree(h) ==
    \A g \in Hooks \ {h} :
        hook[g].delivery = hook[h].delivery => pc[g] \notin {"lock", "locked"}

DeliveryNew(d) == delivery[d] = None

\* _record_delivery: best effort, in a transaction of its own.
HookReject(h) ==
    LET d == hook[h].delivery IN
    /\ pc[h] = "reject"
    /\ DeliveryFree(h)
    /\ delivery' = [delivery EXCEPT ![d] = IF @ = None THEN "rejected" ELSE @]
    /\ hook' = [hook EXCEPT ![h] = IdleHook]
    /\ Finish(h)
    /\ UNCHANGED <<invoice, line, audit, payments, idem, external, req, watch>>

HookInsert(h) ==
    /\ pc[h] = "insert"
    /\ DeliveryFree(h)
    /\ DeliveryNew(hook[h].delivery)
    /\ pc' = [pc EXCEPT ![h] = "lock"]
    /\ UNCHANGED <<tables, external, rowLock, req, hook, watch>>

\* IntegrityError: answered 200 {"status": "duplicate"}.
HookDuplicate(h) ==
    LET d == hook[h].delivery IN
    /\ pc[h] = "insert"
    /\ DeliveryFree(h)
    /\ ~DeliveryNew(d)
    /\ acked' = acked \cup {d}
    /\ hook' = [hook EXCEPT ![h] = IdleHook]
    /\ Finish(h)
    /\ UNCHANGED <<tables, sent, req, watch>>

\* The delivery commits with the given result; the reply is 200 when it is ok.
Answer(h, result, ok) ==
    LET d == hook[h].delivery IN
    /\ delivery' = [delivery EXCEPT ![d] = result]
    /\ acked' = IF ok THEN acked \cup {d} ELSE acked
    /\ hook' = [hook EXCEPT ![h] = IdleHook]
    /\ Finish(h)
    /\ UNCHANGED <<line, audit, idem, sent, req, watch>>

HookNotFound(h) ==
    /\ pc[h] = "lock"
    /\ sent[hook[h].delivery].invoice = None
    /\ Answer(h, "error", FALSE)
    /\ UNCHANGED <<invoice, payments>>

HookLock(h) ==
    LET i == sent[hook[h].delivery].invoice IN
    /\ pc[h] = "lock"
    /\ i # None
    /\ RowFree(i)
    /\ rowLock' = [rowLock EXCEPT ![i] = h]
    /\ hook' = [hook EXCEPT ![h] = [delivery |-> @.delivery,
                                    status |-> invoice[i].status,
                                    total |-> invoice[i].total]]
    /\ pc' = [pc EXCEPT ![h] = "locked"]
    /\ UNCHANGED <<tables, external, req, watch>>

AmountMatchesAlways(h) == TRUE                    \* mutant: amount not compared
AmountMatches(h) == sent[hook[h].delivery].amount = hook[h].total

HookMismatch(h) ==
    /\ pc[h] = "locked"
    /\ ~AmountMatches(h)
    /\ Answer(h, "error", FALSE)
    /\ UNCHANGED <<invoice, payments>>

HookPay(h) ==
    LET d == hook[h].delivery
        i == sent[d].invoice IN
    /\ pc[h] = "locked"
    /\ AmountMatches(h)
    /\ hook[h].status = "issued"
    /\ invoice' = [invoice EXCEPT ![i] = [status |-> "paid", total |-> @.total,
                                             paidBy |-> d]]
    /\ payments' = [payments EXCEPT ![i] = @ + 1]
    /\ Answer(h, "accepted", TRUE)

HookAlreadyPaid(h) ==
    /\ pc[h] = "locked"
    /\ AmountMatches(h)
    /\ hook[h].status = "paid"
    /\ Answer(h, "accepted", TRUE)
    /\ UNCHANGED <<invoice, payments>>

\* A crash or an exception (a body that is not JSON, a bad invoice id).
HookAbort(h) ==
    /\ pc[h] # "idle"
    /\ hook' = [hook EXCEPT ![h] = IdleHook]
    /\ Finish(h)
    /\ UNCHANGED <<tables, external, req, watch>>

-----------------------------------------------------------------------------
(* check_invoice_total_drift: one query for the invoices, then one for the *)
(* lines of each of them.                                                  *)

ReconRead ==
    /\ recon = None
    /\ recon' = [i \in Invoices |-> invoice[i].total]
    /\ UNCHANGED <<tables, external, rowLock, pc, req, hook, paged>>

ReconSumLines(i) ==
    /\ recon # None
    /\ recon[i] # None
    /\ paged' = IF recon[i] # TotalOf(i, line) THEN paged \cup {i} ELSE paged
    /\ recon' = IF \A j \in Invoices \ {i} : recon[j] = None
                THEN None ELSE [recon EXCEPT ![i] = None]
    /\ UNCHANGED <<tables, external, rowLock, pc, req, hook>>

-----------------------------------------------------------------------------
OverrideStep(s) ==
    \/ OverrideNotFound(s) \/ OverrideLockLine(s) \/ OverrideLockInvoice(s)
    \/ OverridePaid(s) \/ OverrideSum(s) \/ OverrideInsertKey(s)
    \/ OverrideKeyTaken(s) \/ OverrideCommit(s)
HookStep(h) ==
    \/ HookReject(h) \/ HookInsert(h) \/ HookDuplicate(h) \/ HookNotFound(h)
    \/ HookLock(h) \/ HookMismatch(h) \/ HookPay(h) \/ HookAlreadyPaid(h)

Next ==
    \/ \E s \in Staff : OverrideBegin(s) \/ OverrideStep(s) \/ OverrideAbort(s)
    \/ \E h \in Hooks : HookReceive(h) \/ HookStep(h) \/ HookAbort(h)
    \/ \E k \in Keys : CleanupKey(k)
    \/ \E d \in Deliveries : ProcessorReports(d)
    \/ ReconRead
    \/ \E i \in Invoices : ReconSumLines(i)

Spec == Init /\ [][Next]_vars

\* PostgreSQL queues the waiters of a row and wakes the waiters of a unique key
\* when its transaction ends, and another transaction needs several round trips
\* to get in again: a request that can go on infinitely often goes on.
Fairness ==
    /\ \A s \in Staff : SF_vars(OverrideStep(s))
    /\ \A h \in Hooks : SF_vars(HookStep(h))

FairSpec == Spec /\ Fairness

-----------------------------------------------------------------------------
(* Properties                                                              *)

PcValues == {"idle", "lockLine", "lockInvoice", "locked", "summed", "keyed",
             "insert", "reject", "lock"}

\* Every variable stays in the set of values its column or local can hold.
TypeOK ==
    /\ invoice \in [Invoices -> InvoiceRow]
    /\ line \in [Lines -> Int]
    /\ audit \in Seq(AuditRow)
    /\ payments \in [Invoices -> Nat]
    /\ idem \in [Keys -> Request \cup {None}]
    /\ delivery \in [Deliveries -> Results \cup {None}]
    /\ sent \in [Deliveries -> Report \cup {None}]
    /\ acked \subseteq Deliveries
    /\ rowLock \in [Rows -> Workers \cup {None}]
    /\ pc \in [Workers -> PcValues]
    /\ req \in [Staff -> [request : Request \cup {None}, before : Int, total : Nat]]
    /\ hook \in [Hooks -> [delivery : Deliveries \cup {None},
                           status : {"issued", "paid"}, total : Nat]]
    /\ recon \in [Invoices -> Nat \cup {None}] \cup {None}
    /\ paged \subseteq Invoices

\* The stored total of an invoice is always that of its lines, floored at zero,
\* although each override sums the lines in a statement of its own.
TotalMatchesLines == \A i \in Invoices : invoice[i].total = TotalOf(i, line)

\* A paid invoice never changes again, not by an override that began before the
\* payment either: it is corrected with a credit.
PaidFrozen ==
    [][\A i \in Invoices : invoice[i].status = "paid" =>
          /\ invoice'[i] = invoice[i]
          /\ \A l \in Lines : InvoiceOf[l] = i => line'[l] = line[l]]_vars

\* A payment is accepted only for the exact total of its invoice, which is then
\* paid and stays so, and the delivery noted on an invoice is the accepted one.
PaidInFull ==
    /\ \A d \in Deliveries : delivery[d] = "accepted" =>
          /\ sent[d].invoice # None
          /\ invoice[sent[d].invoice].status = "paid"
          /\ invoice[sent[d].invoice].total = sent[d].amount
    /\ \A i \in Invoices : invoice[i].status = "paid" =>
          /\ delivery[invoice[i].paidBy] = "accepted"
          /\ sent[invoice[i].paidBy].invoice = i

\* DESIGN.md section 2: three deliveries make one issued -> paid transition and
\* one audit row, however they overlap.
PaidOnce ==
    \A i \in Invoices : payments[i] = IF invoice[i].status = "paid" THEN 1 ELSE 0

\* x is the amount of line l after the first n overrides of an audit log.
AmountAfter(log, l, n, x) ==
    /\ (\A m \in 1 .. n : log[m].line # l) => x = Original[l]
    /\ \A m \in 1 .. n :
          log[m].line = l /\ (\A k \in m + 1 .. n : log[k].line # l) => x = log[m].after

\* The audit log replays to the line items: concurrent overrides of a line leave
\* an unbroken chain of before and after amounts that ends in the stored one.
AuditReplays ==
    /\ \A n \in DOMAIN audit : AmountAfter(audit, audit[n].line, n - 1, audit[n].before)
    /\ \A l \in Lines : AmountAfter(audit, l, Len(audit), line[l])

RowsOfKey(k) == {n \in DOMAIN audit : audit[n].key = k}

\* While an idempotency key is recorded, no retry carrying it, not even one that
\* passed the replay check before the row existed, writes a second audit row.
KeyAppliedOnce ==
    [][\A k \in Keys : idem[k] # None /\ idem'[k] # None => RowsOfKey(k)' = RowsOfKey(k)]_vars

\* Overrides, payments and their retries never block one another for good.
RequestsFinish == \A w \in Workers : pc[w] # "idle" ~> pc[w] = "idle"

\* views_webhooks.py: "Duplicate delivery_id - already processed. Idempotent
\* success.", so a delivery id answered with 200 has been processed.
AckedIsProcessed == \A d \in acked : delivery[d] = "accepted"

\* The nightly check never pages for nothing but its own delay: an invoice it
\* newly reports had its total changed between the two queries of the check.
QuietCheckIsClean ==
    [][\A i \in Invoices : i \in paged' \ paged => recon[i] # invoice[i].total]_vars
=============================================================================
