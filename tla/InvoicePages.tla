----------------------------- MODULE InvoicePages -----------------------------
(***************************************************************************)
(* GET /v1/invoices read page by page while invoices are being issued: the *)
(* list of a customer is ordered by -period_start and cut by OFFSET, so a  *)
(* new invoice moves the others to later pages; meanwhile invoices are     *)
(* paid.  The paginator counts the rows in one statement and reads the     *)
(* page in a second one; the client goes on until it gets a 404.           *)
(***************************************************************************)
EXTENDS MonthlyRun, FiniteSets

CONSTANTS
    Reader,   \* the customer that reads
    PageSize

ASSUME PageAssumption == Reader \in Customers /\ PageSize \in Nat \ {0}

VARIABLES
    page,     \* the page to ask for
    reading,  \* "count", "page" or "finished"
    seen,     \* the periods of the invoices returned
    owed      \* history: the periods invoiced when the reader began

pageVars == <<page, reading, seen, owed>>
vars == <<runVars, pageVars>>

Init ==
    /\ RunInit
    /\ page = 1 /\ reading = "count" /\ seen = {} /\ owed = {}

ListedUnpaid == {p \in Periods : invoice[Reader][p] = "issued"}   \* mutant: a filter on status
Listed == {p \in Periods : invoice[Reader][p] # "none"}
Rank(p) == Cardinality({q \in Listed : q > p})

\* The paginator's COUNT: a page after the last one is not found.  The first
\* page exists even when it is empty.
Found == page = 1 \/ (page - 1) * PageSize < Cardinality(Listed)
Count ==
    /\ reading = "count" /\ Found
    /\ reading' = "page"
    /\ owed' = IF page = 1 THEN Listed ELSE owed
    /\ UNCHANGED <<runVars, page, seen>>

Finish ==
    /\ reading = "count" /\ ~Found
    /\ reading' = "finished"
    /\ page' = 1 /\ seen' = {} /\ owed' = {}
    /\ UNCHANGED runVars

\* ORDER BY period_start DESC LIMIT .. OFFSET ..
ReadPage ==
    /\ reading = "page"
    /\ seen' = seen \cup {p \in Listed : Rank(p) \div PageSize = page - 1}
    /\ page' = page + 1
    /\ reading' = "count"
    /\ UNCHANGED <<runVars, owed>>

\* The payment webhook records a payment (Settlement.tla).  Bound: only while
\* the reader is at it.
Pay(p) ==
    /\ reading # "finished"
    /\ invoice[Reader][p] = "issued"
    /\ invoice' = [invoice EXCEPT ![Reader][p] = "paid"]
    /\ UNCHANGED <<minute, runner, reconciler, alarm, job, failures, pageVars>>

Next ==
    \/ RunNext /\ UNCHANGED pageVars
    \/ \E p \in Periods : Pay(p)
    \/ Count \/ ReadPage \/ Finish

\* The clock runs, the runner polls and is restarted, jobs and the operator's
\* reaction to the log get done.  Clients need not read.
Fairness ==
    /\ WF_vars(Tick /\ UNCHANGED pageVars)
    /\ WF_vars(Poll /\ UNCHANGED pageVars) /\ WF_vars(Reconcile /\ UNCHANGED pageVars)
    /\ \A j \in Jobs : WF_vars(JobStep(j) /\ UNCHANGED pageVars)
    /\ WF_vars((\E j \in Jobs, S \in (SUBSET Customers) \ {{}} : Manual(j, S)) /\ UNCHANGED pageVars)

Spec == Init /\ [][Next]_vars /\ Fairness

\* Paging skips no invoice, whatever is issued or paid between two pages and
\* between the count and the query of one: a reader that has come to the end
\* has seen every invoice that was there when it began.
NoInvoiceSkipped == [][reading' = "finished" /\ reading # reading' => owed \subseteq seen]_vars

-----------------------------------------------------------------------------
(* The inductive invariant of the proofs.                                  *)

PageTypeOK ==
    /\ page \in Nat \ {0}
    /\ reading \in {"count", "page", "finished"}
    /\ seen \subseteq Periods /\ owed \subseteq Listed

\* What is owed and has not been seen lies behind the pages read: a new invoice
\* pushes the others back, never forward.
UnseenAhead ==
    /\ reading # "page" /\ page = 1 => owed = {}
    /\ \A p \in owed \ seen : (page - 1) * PageSize <= Rank(p)

PagesInv == TypeOK /\ JobInv /\ PageTypeOK /\ UnseenAhead
===============================================================================
