----------------------------- MODULE InvoiceBook -----------------------------
(***************************************************************************)
(* What an issued invoice promises: a book of line amounts with no row     *)
(* locks, statements or transactions.  Overriding a line is one step, and  *)
(* so is paying; the total is not stored, it is that of the lines.         *)
(***************************************************************************)
EXTENDS Integers, Sequences, Functions

CONSTANTS Invoices, Lines, InvoiceOf, Original, Requests, Keys, Deliveries,
          Amounts, None

VARIABLES
    amount,    \* amount of each line
    entries,   \* the overrides so far, as the audit log tells them
    held,      \* the request recorded under each idempotency key, or None
    reported,  \* the payment reported under each delivery id, or None
    paidWith   \* the delivery that paid each invoice, or None

book == <<amount, entries, held, reported, paidWith>>

Init ==
    /\ amount = Original
    /\ entries = << >>
    /\ held = [k \in Keys |-> None]
    /\ reported = [d \in Deliveries |-> None]
    /\ paidWith = [i \in Invoices |-> None]

Total(i, a) ==
    LET sum == SumFunction([l \in {x \in Lines : InvoiceOf[x] = i} |-> a[l]])
    IN IF sum < 0 THEN 0 ELSE sum

\* An invoice is open to overrides until it is paid; a key admits one of them
\* while it is held.
Override(r) ==
    /\ InvoiceOf[r.line] = r.invoice
    /\ paidWith[r.invoice] = None
    /\ \A k \in Keys : k = r.key => held[k] = None
    /\ amount' = [amount EXCEPT ![r.line] = r.amount]
    /\ entries' = Append(entries, [line |-> r.line, before |-> amount[r.line],
                                   after |-> r.amount, total |-> Total(r.invoice, amount'),
                                   key |-> r.key])
    /\ held' = [k \in Keys |-> IF k = r.key THEN r ELSE held[k]]
    /\ UNCHANGED <<reported, paidWith>>

Forget(k) ==
    /\ held' = [held EXCEPT ![k] = None]
    /\ UNCHANGED <<amount, entries, reported, paidWith>>

Report(d) ==
    /\ reported[d] = None
    /\ \E i \in Invoices \cup {None}, a \in Amounts :
          reported' = [reported EXCEPT ![d] = [invoice |-> i, amount |-> a]]
    /\ UNCHANGED <<amount, entries, held, paidWith>>

\* The processor reported what the lines add up to at this moment.
Pay(i, d) ==
    /\ paidWith[i] = None
    /\ reported[d] = [invoice |-> i, amount |-> Total(i, amount)]
    /\ paidWith' = [paidWith EXCEPT ![i] = d]
    /\ UNCHANGED <<amount, entries, held, reported>>

Next ==
    \/ \E r \in Requests : Override(r)
    \/ \E k \in Keys : Forget(k)
    \/ \E d \in Deliveries : Report(d)
    \/ \E i \in Invoices, d \in Deliveries : Pay(i, d)

Spec == Init /\ [][Next]_book
=============================================================================
