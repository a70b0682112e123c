----------------------------- MODULE BillingInv ------------------------------
(***************************************************************************)
(* The inductive invariant behind the safety properties of Billing.  It    *)
(* says which locks each point of a transaction holds, and what is known   *)
(* there of the transaction's private rows relative to the tables.  Then   *)
(* who waits for whom, and why nobody waits for ever in a circle.          *)
(***************************************************************************)
EXTENDS BillingRefinement, FiniteSets

IngestPc == {"idle", "waitSeal", "locked", "inserted"}
ComputedPc == {"reaggregated", "summed", "lateSelected", "creditsSelected"}
InvoicePc == {"idle", "waitBilling", "waitSeal", "locked"} \cup ComputedPc
AggregatePc == {"idle", "waitBilling", "locked", "upserted"}

\* Who holds a lock follows from where it is, and conflicting holders exclude
\* each other.
LockInv ==
    /\ \A i \in Ingesters : /\ pc[i] \in IngestPc
                            /\ pc[i] \in {"locked", "inserted"} => i \in held["seal"]
    /\ \A i \in Invoicers :
          /\ pc[i] \in InvoicePc
          /\ pc[i] \in {"locked"} \cup ComputedPc => i \in held["seal"]
          /\ pc[i] \in {"waitSeal", "locked"} \cup ComputedPc => i \in held["billing"]
    /\ \A a \in Aggregators :
          /\ pc[a] \in AggregatePc
          /\ pc[a] \in {"locked", "upserted"} => a \in held["billing"]
    /\ \A p, q \in held["seal"] : p # q => p \in Ingesters /\ q \in Ingesters
    /\ \A p, q \in held["billing"] : p = q

\* An uncommitted event is new, belongs to one transaction only, and carries
\* the flag that is still right when it commits.
IngestInv ==
    /\ \A i \in Ingesters, r \in Rids : ing[i].rows[r] # None =>
          /\ pc[i] = "inserted"
          /\ event[r] = None
          /\ ~ing[i].rows[r].adjusted
          /\ ing[i].rows[r].late <=> IsLate(ing[i].rows[r].hour)
    /\ \A i, j \in Ingesters, r \in Rids :
          ing[i].rows[r] # None /\ ing[j].rows[r] # None => i = j

\* A window counts only events of its hour and is sealed only with its month.
WindowInv ==
    /\ \A h \in Hours : /\ window[h].counted \subseteq EventsIn(h)
                        /\ window[h].sealed => IsLate(h)
    /\ \A a \in Aggregators, h \in Hours : agg[a].rows[h] # {} =>
          /\ pc[a] = "upserted"
          /\ agg[a].rows[h] \subseteq EventsIn(h)
          /\ ~window[h].sealed

EventsOf(p) == {r \in Recorded : PeriodOf[event[r].hour] = p}

\* Between re-aggregation and commit the invoicer's private results stay equal
\* to what the queries would return now.
InvoiceInv ==
    \A i \in Invoicers :
      LET p == inv[i].period IN
      /\ pc[i] \notin ComputedPc => inv[i].rows = NoWindows
      /\ pc[i] \in ComputedPc =>
            /\ invoice[p] = None
            /\ \A h \in Hours :
                  inv[i].rows[h] = IF PeriodOf[h] = p THEN EventsIn(h) ELSE {}
      /\ pc[i] \in {"summed", "lateSelected", "creditsSelected"} =>
            inv[i].usage = EventsOf(p)
      /\ pc[i] \in {"lateSelected", "creditsSelected"} => inv[i].late = LateEvents(p)
      /\ pc[i] = "creditsSelected" => inv[i].credits \subseteq PendingCredits

\* Every query of the invoicer is still current when the invoice is committed,
\* every flag of an ingest is still right when its events are.
IInv ==
    /\ TypeOK /\ LockInv /\ IngestInv /\ WindowInv /\ InvoiceInv
    /\ NeverDoubleBilled /\ NeverLost /\ SealedWindowsExact /\ CreditAppliedOnce

-----------------------------------------------------------------------------
(* Waiting                                                                 *)

\* A lock is held from its grant to the end of the transaction and no longer, and
\* the queue of a lock is in one order, that of the requests.
WorkPc == {"locked", "inserted", "upserted"} \cup ComputedPc
QueueInv ==
    /\ \A p \in held["seal"] : pc[p] \in WorkPc
    /\ \A p \in held["billing"] : pc[p] \in {"waitSeal"} \cup WorkPc
    /\ \A p \in Procs : ahead[p] # {} => pc[p] \in {"waitSeal", "waitBilling"}
    /\ \A p \in Procs : \A q \in ahead[p] :
          pc[q] = pc[p] /\ ahead[q] \subseteq ahead[p] /\ q \notin ahead[q]

\* The next statement of process p waits for the end of the transaction of q, or
\* for q to be granted the lock before it.
Waits(p, q) ==
    \/ \E l \in {"seal", "billing"} :
          /\ pc[p] = WaitPc(l)
          /\ q \in ahead[p] \/ (q \in held[l] /\ ~ Compatible(l, p, q))
    \/ /\ p \in Ingesters /\ q \in Ingesters \ {p}
       /\ pc[p] = "locked"
       /\ \E r \in Rids : ing[p].batch[r] # None /\ ing[q].rows[r] # None

\* No deadlock: among any processes that run, one waits for none of them, although
\* the invoicer asks for the seal lock with the billing lock in its hands.
NoDeadlock ==
    \A D \in SUBSET Procs :
        IsFiniteSet(D) /\ D # {} => \E p \in D : \A q \in D : ~ Waits(p, q)
=============================================================================
