---------------------------- MODULE SettlementInv ----------------------------
(* The inductive invariant behind the safety properties of Settlement: what *)
(* each transaction holds, and that what it has read is still in the table. *)
EXTENDS Settlement

OverridePc == {"idle", "lockLine", "lockInvoice", "locked", "summed", "keyed"}
HookPc == {"idle", "insert", "reject", "lock", "locked"}
BothLocked == {"locked", "summed", "keyed"}
Processing == {"lock", "locked"}

\* The columns and locals exist; nothing is said of the type of a total.
Shape ==
    /\ invoice = [i \in Invoices |-> [status |-> invoice[i].status,
                                      total |-> invoice[i].total,
                                      paidBy |-> invoice[i].paidBy]]
    /\ \A i \in Invoices : /\ invoice[i].status \in {"issued", "paid"}
                           /\ invoice[i].status = "paid" => invoice[i].paidBy \in Deliveries
    /\ line \in [Lines -> Int]
    /\ audit \in Seq(Range(audit))
    /\ payments \in [Invoices -> Nat]
    /\ delivery \in [Deliveries -> Results \cup {None}]
    /\ sent \in [Deliveries -> Report \cup {None}]
    /\ rowLock \in [Rows -> Workers \cup {None}]
    /\ pc \in [Workers -> PcValues]
    /\ req = [s \in Staff |-> [request |-> req[s].request, before |-> req[s].before,
                               total |-> req[s].total]]
    /\ hook = [h \in Hooks |-> [delivery |-> hook[h].delivery,
                                status |-> hook[h].status, total |-> hook[h].total]]

\* An override that holds its locks has read rows that nobody else can change.
OverrideKnows(s) ==
    LET r == req[s].request IN
    /\ pc[s] \in OverridePc
    /\ pc[s] # "idle" => r \in Requests
    /\ pc[s] \in {"lockInvoice"} \cup BothLocked => /\ InvoiceOf[r.line] = r.invoice
                                                    /\ rowLock[r.line] = s
    /\ pc[s] \in BothLocked => /\ rowLock[r.invoice] = s
                               /\ invoice[r.invoice].status = "issued"
                               /\ req[s].before = line[r.line]
    /\ pc[s] \in {"summed", "keyed"} =>
          req[s].total = TotalOf(r.invoice, Overridden(line, r))

\* A delivery being processed has no row yet, and its invoice is still as read.
HookKnows(h) ==
    LET d == hook[h].delivery IN
    /\ pc[h] \in HookPc
    /\ pc[h] # "idle" => d \in Deliveries /\ sent[d] # None
    /\ pc[h] \in Processing => delivery[d] = None
    /\ pc[h] = "locked" => /\ sent[d].invoice \in Invoices
                           /\ rowLock[sent[d].invoice] = h
                           /\ hook[h].status = invoice[sent[d].invoice].status
                           /\ hook[h].total = invoice[sent[d].invoice].total

\* A delivery id is in the hands of one worker at a time.
OneProcessor ==
    \A g, h \in Hooks :
        /\ pc[g] \in Processing /\ pc[h] \in Processing
        /\ hook[g].delivery = hook[h].delivery
        => g = h

\* Only what the processor has reported has a row in webhook_delivery.
DeliveredWereSent == \A d \in Deliveries : delivery[d] # None => sent[d] # None

SInv ==
    /\ Shape
    /\ \A s \in Staff : OverrideKnows(s)
    /\ \A h \in Hooks : HookKnows(h)
    /\ OneProcessor /\ DeliveredWereSent
    /\ TotalMatchesLines /\ PaidInFull /\ PaidOnce /\ AuditReplays

\* A key about to be committed is not recorded, and in one worker's hands.
KeyInv ==
    /\ \A s \in Staff : pc[s] = "keyed" => KeyUnused(req[s].request.key)
    /\ \A s, t \in Staff :
          /\ pc[s] = "keyed" /\ pc[t] = "keyed"
          /\ req[s].request.key = req[t].request.key /\ req[s].request.key \in Keys
          => s = t

\* A row lock is held by a worker that is past taking it and before its end: none
\* outlives the transaction that took it.
LocksHeld ==
    /\ \A s \in Staff, x \in Rows : rowLock[x] = s =>
          \/ x \in Lines /\ pc[s] \in {"lockInvoice"} \cup BothLocked
          \/ x \in Invoices /\ pc[s] \in BothLocked
    /\ \A h \in Hooks, x \in Rows : rowLock[x] = h => x \in Invoices /\ pc[h] = "locked"

\* The next statement of worker w waits for the end of the transaction of v.
Waits(w, v) ==
    \/ /\ w \in Staff
       /\ pc[w] = "lockLine"
       /\ InvoiceOf[req[w].request.line] = req[w].request.invoice
       /\ rowLock[req[w].request.line] = v
    \/ w \in Staff /\ pc[w] = "lockInvoice" /\ rowLock[req[w].request.invoice] = v
    \/ /\ w \in Staff /\ v \in Staff
       /\ pc[w] = "summed" /\ pc[v] = "keyed"
       /\ req[v].request.key = req[w].request.key /\ req[w].request.key # None
    \/ /\ w \in Hooks /\ v \in Hooks \ {w}
       /\ pc[w] \in {"insert", "reject"} /\ pc[v] \in Processing
       /\ hook[v].delivery = hook[w].delivery
    \/ /\ w \in Hooks
       /\ pc[w] = "lock"
       /\ sent[hook[w].delivery].invoice \in Invoices
       /\ rowLock[sent[hook[w].delivery].invoice] = v

\* No deadlock: among any transactions that run, one waits for none of them.  The
\* locks of a line, of an invoice and of unique keys are always taken in one order.
NoDeadlock ==
    \A D \in SUBSET Workers : D # {} => \E w \in D : \A v \in D : ~ Waits(w, v)
=============================================================================
