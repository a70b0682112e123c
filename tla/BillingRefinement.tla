-------------------------- MODULE BillingRefinement --------------------------
(* Billing implements UsageLedger: three kinds of concurrent transactions   *)
(* behave as if recording a batch and issuing an invoice were single steps. *)
EXTENDS Billing

MonthOfEvent(r) == IF event[r] = None THEN 0 ELSE PeriodOf[event[r].hour]

Ledger == INSTANCE UsageLedger
            WITH month <- [r \in Rids |-> MonthOfEvent(r)],
                 charged <- [r \in Rids |-> ChargedOn(r)],
                 issued <- Issued

\* Every behaviour of the pipeline is one of the ledger: the commit of an ingest
\* records its events, the commit of an invoice charges exactly what is due.
LedgerSpec == Ledger!Spec
=============================================================================
