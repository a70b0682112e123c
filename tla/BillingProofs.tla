---------------------------- MODULE BillingProofs ----------------------------
(* Theorems about Billing for any number of events, hours, months, credits  *)
(* and processes: type correctness, the inductive invariant, the safety     *)
(* properties it implies, the step properties, the proof that Billing       *)
(* implements UsageLedger, and the absence of deadlock.                     *)
EXTENDS BillingInv, SumLemmas, TLAPS

-----------------------------------------------------------------------------
(* Type correctness                                                        *)

\* The private state of a transaction stays well formed when one field changes.
LEMMA IngField ==
  ASSUME NEW x \in IngTxn
  PROVE  /\ \A b \in Batches : [x EXCEPT !.batch = b] \in IngTxn
         /\ \A w \in [Rids -> EventRow \cup {None}] : [x EXCEPT !.rows = w] \in IngTxn
BY DEF IngTxn

LEMMA InvField ==
  ASSUME NEW x \in InvTxn
  PROVE  /\ \A p \in Periods : [x EXCEPT !.period = p] \in InvTxn
         /\ \A w \in [Hours -> SUBSET Rids] : [x EXCEPT !.rows = w] \in InvTxn
         /\ \A u \in SUBSET Rids : [x EXCEPT !.usage = u] \in InvTxn
         /\ \A u \in SUBSET Rids : [x EXCEPT !.late = u] \in InvTxn
         /\ \A c \in SUBSET Credits : [x EXCEPT !.credits = c] \in InvTxn
BY DEF InvTxn

LEMMA AggField ==
  ASSUME NEW x \in AggTxn
  PROVE  /\ \A H \in SUBSET Hours : [x EXCEPT !.hours = H] \in AggTxn
         /\ \A w \in [Hours -> SUBSET Rids] : [x EXCEPT !.rows = w] \in AggTxn
BY DEF AggTxn

\* A transaction that has ended, or not begun, has no private state.
LEMMA IdleType == IdleIng \in IngTxn /\ IdleInv \in InvTxn /\ IdleAgg \in AggTxn
BY PeriodsAssumption
   DEF IdleIng, IdleInv, IdleAgg, IngTxn, InvTxn, AggTxn, NoEvents, NoWindows,
       Batches, Periods

LEMMA InitTypeOK == Init => TypeOK
BY IdleType
   DEF Init, TypeOK, NoEvents, NoWindows, WindowRow, PcValues, LockNames, Periods

\* What the lock operators do to the control state.
LEMMA RequestType ==
  ASSUME TypeOK, NEW p \in Procs, NEW l \in {"seal", "billing"}, Request(p, l)
  PROVE  pc' \in [Procs -> PcValues] /\ ahead' \in [Procs -> SUBSET Procs]
BY DEF TypeOK, Request, Queued, WaitPc, PcValues

LEMMA ReleaseAllType ==
  ASSUME TypeOK, NEW p \in Procs, ReleaseAll(p)
  PROVE  /\ pc' \in [Procs -> PcValues]
         /\ held' \in [LockNames -> SUBSET Procs]
         /\ ahead' \in [Procs -> SUBSET Procs]
BY DEF TypeOK, ReleaseAll, PcValues

LEMMA UpsertType == \A H : Upsert(H) \in [Hours -> SUBSET Rids]
BY DEF Upsert, EventsIn

LEMMA IngestTypeOK ==
  ASSUME TypeOK, NEW i \in Ingesters, IngestBegin(i) \/ IngestStep(i) \/ IngestAbort(i)
  PROVE  TypeOK'
<1>. ing[i] \in IngTxn /\ i \in Procs
  BY DEF TypeOK, Procs
<1>1. CASE IngestBegin(i)
  <2>1. PICK b \in Batches : ing' = [ing EXCEPT ![i].batch = b]
    BY <1>1 DEF IngestBegin
  <2>2. [ing[i] EXCEPT !.batch = b] \in IngTxn
    BY IngField
  <2>3. ing' \in [Ingesters -> IngTxn]
    BY <2>1, <2>2 DEF TypeOK
  <2>4. pc' \in [Procs -> PcValues] /\ ahead' \in [Procs -> SUBSET Procs]
    BY <1>1, RequestType DEF IngestBegin
  <2>. QED
    BY <1>1, <2>3, <2>4 DEF IngestBegin, TypeOK
<1>2. CASE IngestLock(i)
  BY <1>2 DEF IngestLock, TypeOK, PcValues, LockNames
<1>3. CASE IngestInsert(i)
  <2>. DEFINE rows == [r \in Rids |-> IF ing[i].batch[r] # None /\ event[r] = None
                                      THEN InsertedRow(ing[i].batch[r]) ELSE None]
  <2>1. rows \in [Rids -> EventRow \cup {None}]
    <3>1. ASSUME NEW r \in Rids, ing[i].batch[r] # None
          PROVE  InsertedRow(ing[i].batch[r]) \in EventRow
      BY <3>1 DEF IngTxn, Batches, IsLate, InsertedRow, EventRow
    <3>. QED
      BY <3>1
  <2>2. ing' = [ing EXCEPT ![i].rows = rows]
    BY <1>3 DEF IngestInsert
  <2>. HIDE DEF rows
  <2>3. [ing[i] EXCEPT !.rows = rows] \in IngTxn
    BY <2>1, IngField
  <2>4. ing' \in [Ingesters -> IngTxn]
    BY <2>2, <2>3 DEF TypeOK
  <2>. QED
    BY <1>3, <2>4 DEF IngestInsert, TypeOK, PcValues
<1>4. CASE IngestCommit(i)
  <2>1. event' \in [Rids -> EventRow \cup {None}]
    BY <1>4 DEF IngestCommit, TypeOK, IngTxn
  <2>2. ing' \in [Ingesters -> IngTxn]
    BY <1>4, IdleType DEF IngestCommit, TypeOK
  <2>. QED
    BY <1>4, <2>1, <2>2, ReleaseAllType DEF IngestCommit, TypeOK
<1>5. CASE IngestAbort(i)
  <2>1. ing' \in [Ingesters -> IngTxn]
    BY <1>5, IdleType DEF IngestAbort, TypeOK
  <2>. QED
    BY <1>5, <2>1, ReleaseAllType DEF IngestAbort, TypeOK
<1>. QED
  BY <1>1, <1>2, <1>3, <1>4, <1>5 DEF IngestStep

LEMMA InvoiceTypeOK ==
  ASSUME TypeOK, NEW i \in Invoicers, InvoiceBegin(i) \/ InvoiceStep(i) \/ InvoiceAbort(i)
  PROVE  TypeOK'
<1>. inv[i] \in InvTxn /\ i \in Procs
  BY DEF TypeOK, Procs
<1>1. CASE InvoiceBegin(i)
  <2>1. PICK p \in Periods : inv' = [inv EXCEPT ![i].period = p]
    BY <1>1 DEF InvoiceBegin
  <2>2. [inv[i] EXCEPT !.period = p] \in InvTxn
    BY InvField
  <2>3. inv' \in [Invoicers -> InvTxn]
    BY <2>1, <2>2 DEF TypeOK
  <2>4. pc' \in [Procs -> PcValues] /\ ahead' \in [Procs -> SUBSET Procs]
    BY <1>1, RequestType DEF InvoiceBegin
  <2>. QED
    BY <1>1, <2>3, <2>4 DEF InvoiceBegin, TypeOK
<1>2. CASE InvoiceBillingLock(i)
  BY <1>2 DEF InvoiceBillingLock, TypeOK, PcValues, LockNames, Queued
<1>3. CASE InvoiceSealLock(i)
  BY <1>3 DEF InvoiceSealLock, TypeOK, PcValues, LockNames
<1>4. CASE InvoiceExists(i)
  <2>1. inv' \in [Invoicers -> InvTxn]
    BY <1>4, IdleType DEF InvoiceExists, TypeOK
  <2>. QED
    BY <1>4, <2>1, ReleaseAllType DEF InvoiceExists, TypeOK
<1>5. CASE InvoiceReaggregate(i)
  <2>. DEFINE w == Upsert(HoursOf(inv[i].period))
  <2>1. w \in [Hours -> SUBSET Rids]
    BY UpsertType
  <2>2. inv' = [inv EXCEPT ![i].rows = w]
    BY <1>5 DEF InvoiceReaggregate
  <2>. HIDE DEF w
  <2>3. [inv[i] EXCEPT !.rows = w] \in InvTxn
    BY <2>1, InvField
  <2>4. inv' \in [Invoicers -> InvTxn]
    BY <2>2, <2>3 DEF TypeOK
  <2>. QED
    BY <1>5, <2>4 DEF InvoiceReaggregate, TypeOK, PcValues
<1>6. CASE InvoiceSumWindows(i)
  <2>. DEFINE u == UNION {Counted(i, h) : h \in HoursOf(inv[i].period)}
  <2>1. ASSUME NEW h \in HoursOf(inv[i].period)
        PROVE  Counted(i, h) \subseteq Rids
    BY DEF TypeOK, Counted, HoursOf, InvTxn, WindowRow
  <2>2. u \in SUBSET Rids
    BY <2>1
  <2>3. inv' = [inv EXCEPT ![i].usage = u]
    BY <1>6 DEF InvoiceSumWindows
  <2>. HIDE DEF u
  <2>4. [inv[i] EXCEPT !.usage = u] \in InvTxn
    BY <2>2, InvField
  <2>5. inv' \in [Invoicers -> InvTxn]
    BY <2>3, <2>4 DEF TypeOK
  <2>. QED
    BY <1>6, <2>5 DEF InvoiceSumWindows, TypeOK, PcValues
<1>7. CASE InvoiceSelectLate(i)
  <2>1. LateEvents(inv[i].period) \in SUBSET Rids
    BY DEF LateEvents
  <2>2. [inv[i] EXCEPT !.late = LateEvents(inv[i].period)] \in InvTxn
    BY <2>1, InvField
  <2>3. inv' \in [Invoicers -> InvTxn]
    BY <1>7, <2>2 DEF TypeOK, InvoiceSelectLate
  <2>. QED
    BY <1>7, <2>3 DEF InvoiceSelectLate, TypeOK, PcValues
<1>8. CASE InvoiceSelectCredits(i)
  <2>1. PendingCredits \in SUBSET Credits
    BY DEF PendingCredits
  <2>2. [inv[i] EXCEPT !.credits = PendingCredits] \in InvTxn
    BY <2>1, InvField
  <2>3. inv' \in [Invoicers -> InvTxn]
    BY <1>8, <2>2 DEF TypeOK, InvoiceSelectCredits
  <2>. QED
    BY <1>8, <2>3 DEF InvoiceSelectCredits, TypeOK, PcValues
<1>9. CASE InvoiceCommit(i)
  <2>1. invoice' \in [Periods -> InvoiceRow \cup {None}]
    BY <1>9 DEF InvoiceCommit, TypeOK, InvTxn, InvoiceRow
  <2>2. event' \in [Rids -> EventRow \cup {None}]
    <3>1. \A x \in EventRow : [x EXCEPT !.adjusted = TRUE] \in EventRow
      BY DEF EventRow
    <3>. QED
      BY <1>9, <3>1 DEF InvoiceCommit, TypeOK
  <2>3. credit' \in [Credits -> Periods \cup {Pending, None}]
    BY <1>9 DEF InvoiceCommit, TypeOK, InvTxn
  <2>4. window' \in [Hours -> WindowRow]
    <3>1. ASSUME NEW h \in Hours
          PROVE  [counted |-> Counted(i, h), sealed |-> SealedAfter(i, h)] \in WindowRow
      BY DEF TypeOK, Counted, SealedAfter, InvTxn, WindowRow
    <3>. QED
      BY <1>9, <3>1 DEF InvoiceCommit
  <2>5. inv' \in [Invoicers -> InvTxn]
    BY <1>9, IdleType DEF InvoiceCommit, TypeOK
  <2>. QED
    BY <1>9, <2>1, <2>2, <2>3, <2>4, <2>5, ReleaseAllType DEF InvoiceCommit, TypeOK
<1>10. CASE InvoiceAbort(i)
  <2>1. inv' \in [Invoicers -> InvTxn]
    BY <1>10, IdleType DEF InvoiceAbort, TypeOK
  <2>. QED
    BY <1>10, <2>1, ReleaseAllType DEF InvoiceAbort, TypeOK
<1>. QED
  BY <1>1, <1>2, <1>3, <1>4, <1>5, <1>6, <1>7, <1>8, <1>9, <1>10 DEF InvoiceStep

LEMMA AggregateTypeOK ==
  ASSUME TypeOK, NEW a \in Aggregators,
         AggregateScan(a) \/ AggregateStep(a) \/ AggregateAbort(a)
  PROVE  TypeOK'
<1>. agg[a] \in AggTxn /\ a \in Procs
  BY DEF TypeOK, Procs
<1>1. CASE AggregateScan(a)
  <2>1. PICK H \in SUBSET Hours : agg' = [agg EXCEPT ![a].hours = H]
    BY <1>1 DEF AggregateScan
  <2>2. [agg[a] EXCEPT !.hours = H] \in AggTxn
    BY AggField
  <2>3. agg' \in [Aggregators -> AggTxn]
    BY <2>1, <2>2 DEF TypeOK
  <2>4. pc' \in [Procs -> PcValues] /\ ahead' \in [Procs -> SUBSET Procs]
    BY <1>1, RequestType DEF AggregateScan
  <2>5. held' \in [LockNames -> SUBSET Procs]
    BY <1>1 DEF AggregateScan, TypeOK, LockNames
  <2>. QED
    BY <1>1, <2>3, <2>4, <2>5 DEF AggregateScan, TypeOK
<1>2. CASE AggregateLock(a)
  BY <1>2 DEF AggregateLock, TypeOK, PcValues, LockNames
<1>3. CASE AggregateUpsert(a)
  <2>1. Upsert(agg[a].hours) \in [Hours -> SUBSET Rids]
    BY UpsertType
  <2>2. [agg[a] EXCEPT !.rows = Upsert(agg[a].hours)] \in AggTxn
    BY <2>1, AggField
  <2>3. agg' \in [Aggregators -> AggTxn]
    BY <1>3, <2>2 DEF TypeOK, AggregateUpsert
  <2>. QED
    BY <1>3, <2>3 DEF AggregateUpsert, TypeOK, PcValues
<1>4. CASE AggregateCommit(a)
  <2>1. agg' \in [Aggregators -> AggTxn]
    BY <1>4, IdleType DEF AggregateCommit, TypeOK
  <2>2. window' \in [Hours -> WindowRow]
    BY <1>4 DEF AggregateCommit, TypeOK, AggTxn, WindowRow
  <2>. QED
    BY <1>4, <2>1, <2>2, ReleaseAllType DEF AggregateCommit, TypeOK
<1>5. CASE AggregateAbort(a)
  <2>1. agg' \in [Aggregators -> AggTxn]
    BY <1>5, IdleType DEF AggregateAbort, TypeOK
  <2>. QED
    BY <1>5, <2>1, ReleaseAllType DEF AggregateAbort, TypeOK
<1>. QED
  BY <1>1, <1>2, <1>3, <1>4, <1>5 DEF AggregateStep

LEMMA CreditTypeOK ==
  ASSUME TypeOK, NEW c \in Credits, IssueCredit(c)
  PROVE  TypeOK'
BY DEF IssueCredit, TypeOK

\* Type correctness: no statement, commit, rollback or lock grant puts a value
\* in a column, a transaction or a lock that does not belong there.
THEOREM TypeCorrect == Spec => []TypeOK
<1>1. Init => TypeOK
  BY InitTypeOK
<1>2. TypeOK /\ [Next]_vars => TypeOK'
  <2>. SUFFICES ASSUME TypeOK, [Next]_vars PROVE TypeOK'
    OBVIOUS
  <2>1. CASE Next
    BY <2>1, IngestTypeOK, InvoiceTypeOK, AggregateTypeOK, CreditTypeOK DEF Next
  <2>2. CASE UNCHANGED vars
    BY <2>2 DEF vars, TypeOK
  <2>. QED
    BY <2>1, <2>2
<1>. QED
  BY <1>1, <1>2, PTL DEF Spec


-----------------------------------------------------------------------------
(* Locks                                                                   *)

\* A process that releases everything keeps the lock discipline.
LEMMA ReleaseLockInv ==
  ASSUME TypeOK, LockInv, NEW p \in Procs, ReleaseAll(p)
  PROVE  LockInv'
<1>1. /\ pc' = [pc EXCEPT ![p] = "idle"]
      /\ \A l \in LockNames : held'[l] = held[l] \ {p}
  BY DEF ReleaseAll, TypeOK
<1>2. \A q \in Procs : q # p => pc'[q] = pc[q]
  BY <1>1 DEF TypeOK
<1>3. pc'[p] = "idle"
  BY <1>1 DEF TypeOK
<1>. QED
  BY <1>1, <1>2, <1>3
     DEF LockInv, Procs, LockNames, IngestPc, InvoicePc, AggregatePc, ComputedPc

\* A statement moves a process on while it keeps its locks.
LEMMA StatementLockInv ==
  ASSUME TypeOK, LockInv, NEW p \in Procs, NEW s,
         pc' = [pc EXCEPT ![p] = s], held' = held,
         \/ p \in Ingesters /\ pc[p] = "locked" /\ s = "inserted"
         \/ p \in Invoicers /\ pc[p] \in {"locked"} \cup ComputedPc /\ s \in ComputedPc
         \/ p \in Aggregators /\ pc[p] = "locked" /\ s = "upserted"
  PROVE  LockInv'
<1>1. \A q \in Procs : q # p => pc'[q] = pc[q]
  BY DEF TypeOK
<1>2. pc'[p] = s
  BY DEF TypeOK
<1>. QED
  BY <1>1, <1>2, ProcsAssumption
     DEF LockInv, Procs, IngestPc, InvoicePc, AggregatePc, ComputedPc

LEMMA IngestLockInv ==
  ASSUME TypeOK, LockInv, NEW i \in Ingesters,
         IngestBegin(i) \/ IngestStep(i) \/ IngestAbort(i)
  PROVE  LockInv'
<1>. i \in Procs
  BY DEF Procs
<1>1. CASE IngestBegin(i)
  BY <1>1, ProcsAssumption
     DEF IngestBegin, Request, WaitPc, TypeOK, LockInv, Procs, IngestPc, InvoicePc,
         AggregatePc, ComputedPc
<1>2. CASE IngestLock(i)
  BY <1>2, ProcsAssumption
     DEF IngestLock, Grantable, Compatible, TypeOK, LockInv, Procs, LockNames,
         IngestPc, InvoicePc, AggregatePc, ComputedPc
<1>3. CASE IngestInsert(i)
  BY <1>3, StatementLockInv DEF IngestInsert
<1>4. CASE IngestCommit(i) \/ IngestAbort(i)
  BY <1>4, ReleaseLockInv DEF IngestCommit, IngestAbort
<1>. QED
  BY <1>1, <1>2, <1>3, <1>4 DEF IngestStep

LEMMA InvoiceLockInv ==
  ASSUME TypeOK, LockInv, NEW i \in Invoicers,
         InvoiceBegin(i) \/ InvoiceStep(i) \/ InvoiceAbort(i)
  PROVE  LockInv'
<1>. i \in Procs
  BY DEF Procs
<1>1. CASE InvoiceBegin(i)
  BY <1>1, ProcsAssumption
     DEF InvoiceBegin, Request, WaitPc, TypeOK, LockInv, Procs, IngestPc, InvoicePc,
         AggregatePc, ComputedPc
<1>2. CASE InvoiceBillingLock(i)
  BY <1>2, ProcsAssumption
     DEF InvoiceBillingLock, Grantable, Compatible, TypeOK, LockInv, Procs,
         LockNames, IngestPc, InvoicePc, AggregatePc, ComputedPc
<1>3. CASE InvoiceSealLock(i)
  BY <1>3, ProcsAssumption
     DEF InvoiceSealLock, Grantable, Compatible, WaitPc, TypeOK, LockInv, Procs,
         LockNames, IngestPc, InvoicePc, AggregatePc, ComputedPc
<1>4. CASE InvoiceReaggregate(i) \/ InvoiceSumWindows(i) \/ InvoiceSelectLate(i)
           \/ InvoiceSelectCredits(i)
  BY <1>4, StatementLockInv
     DEF InvoiceReaggregate, InvoiceSumWindows, InvoiceSelectLate,
         InvoiceSelectCredits, ComputedPc
<1>5. CASE InvoiceExists(i) \/ InvoiceCommit(i) \/ InvoiceAbort(i)
  BY <1>5, ReleaseLockInv DEF InvoiceExists, InvoiceCommit, InvoiceAbort
<1>. QED
  BY <1>1, <1>2, <1>3, <1>4, <1>5 DEF InvoiceStep

LEMMA AggregateLockInv ==
  ASSUME TypeOK, LockInv, NEW a \in Aggregators,
         AggregateScan(a) \/ AggregateStep(a) \/ AggregateAbort(a)
  PROVE  LockInv'
<1>. a \in Procs
  BY DEF Procs
<1>1. CASE AggregateScan(a)
  BY <1>1, ProcsAssumption
     DEF AggregateScan, Request, WaitPc, TypeOK, LockInv, Procs, LockNames,
         IngestPc, InvoicePc, AggregatePc, ComputedPc
<1>2. CASE AggregateLock(a)
  BY <1>2, ProcsAssumption
     DEF AggregateLock, Grantable, Compatible, TypeOK, LockInv, Procs,
         LockNames, IngestPc, InvoicePc, AggregatePc, ComputedPc
<1>3. CASE AggregateUpsert(a)
  BY <1>3, StatementLockInv DEF AggregateUpsert
<1>4. CASE AggregateCommit(a) \/ AggregateAbort(a)
  BY <1>4, ReleaseLockInv DEF AggregateCommit, AggregateAbort
<1>. QED
  BY <1>1, <1>2, <1>3, <1>4 DEF AggregateStep

\* While an invoicer computes, no ingest is between its insert and its commit,
\* and nobody else is at work on windows.
LEMMA InvoicerAlone ==
  ASSUME LockInv, NEW i \in Invoicers, pc[i] \in {"locked"} \cup ComputedPc
  PROVE  /\ \A j \in Ingesters : pc[j] \notin {"locked", "inserted"}
         /\ \A k \in Invoicers : k # i => pc[k] \notin {"locked"} \cup ComputedPc
         /\ \A a \in Aggregators : pc[a] \notin {"locked", "upserted"}
BY ProcsAssumption DEF LockInv

\* An aggregator that writes excludes a computing invoicer and other writers.
LEMMA AggregatorAlone ==
  ASSUME LockInv, NEW a \in Aggregators, pc[a] \in {"locked", "upserted"}
  PROVE  /\ \A k \in Invoicers : pc[k] \notin {"locked"} \cup ComputedPc
         /\ \A b \in Aggregators : b # a => pc[b] \notin {"locked", "upserted"}
BY ProcsAssumption DEF LockInv

-----------------------------------------------------------------------------
(* What each step does to the tables and to the private rows               *)

\* Committing an ingest adds rows that were not there, flagged correctly.
LEMMA IngestCommitEffect ==
  ASSUME TypeOK, IngestInv, NEW i \in Ingesters, IngestCommit(i)
  PROVE  /\ \A r \in Recorded : event'[r] = event[r]
         /\ \A r \in Rids : event[r] = None /\ event'[r] # None =>
               /\ event'[r] \in EventRow
               /\ event'[r] = ing[i].rows[r]
               /\ ~event'[r].adjusted
               /\ event'[r].late <=> IsLate(event'[r].hour)
         /\ \A r \in Rids : ing[i].rows[r] # None => event'[r] = ing[i].rows[r]
BY DEF IngestCommit, TypeOK, IngTxn, IngestInv, Recorded

\* A commit stores one invoice, that of its period.
LEMMA InvoiceCommitStores ==
  ASSUME TypeOK, NEW i \in Invoicers, InvoiceCommit(i)
  PROVE  LET p == inv[i].period IN
         /\ p \in Periods
         /\ invoice'[p] = [usage |-> inv[i].usage, late |-> inv[i].late,
                           credits |-> inv[i].credits]
         /\ invoice'[p] # None
         /\ \A q \in Periods : q # p => invoice'[q] = invoice[q]
<1>. DEFINE p == inv[i].period
            row == [usage |-> inv[i].usage, late |-> inv[i].late, credits |-> inv[i].credits]
<1>1. p \in Periods /\ inv[i].usage \in SUBSET Rids /\ inv[i].late \in SUBSET Rids
      /\ inv[i].credits \in SUBSET Credits
  BY DEF TypeOK, InvTxn
<1>2. row \in InvoiceRow /\ row # None
  BY <1>1, NoneAssumption DEF InvoiceRow
<1>3. invoice' = [invoice EXCEPT ![p] = row]
  BY DEF InvoiceCommit
<1>. HIDE DEF row, p
<1>4. invoice'[p] = row /\ \A q \in Periods : q # p => invoice'[q] = invoice[q]
  BY <1>1, <1>3 DEF TypeOK
<1>. QED
  BY <1>1, <1>2, <1>4 DEF row, p

\* Committing an invoice adds one invoice and marks its late events.
LEMMA InvoiceCommitEffect ==
  ASSUME TypeOK, InvoiceInv, NEW i \in Invoicers, InvoiceCommit(i),
         NEW p, p = inv[i].period
  PROVE  /\ p \in Periods /\ invoice[p] = None
         /\ invoice'[p] = [usage |-> inv[i].usage, late |-> inv[i].late,
                           credits |-> inv[i].credits]
         /\ invoice'[p] # None
         /\ \A q \in Periods : q # p => invoice'[q] = invoice[q]
         /\ Issued' = Issued \cup {p}
         /\ inv[i].usage = EventsOf(p)
         /\ inv[i].late = LateEvents(p)
         /\ inv[i].credits \subseteq PendingCredits
         /\ Recorded' = Recorded
         /\ \A r \in Recorded : /\ event'[r] \in EventRow
                                /\ event'[r].hour = event[r].hour
                                /\ event'[r].late = event[r].late
<1>1. p \in Periods /\ inv[i].usage \in SUBSET Rids /\ inv[i].late \in SUBSET Rids
      /\ inv[i].credits \in SUBSET Credits
  BY DEF TypeOK, InvTxn
<1>2. /\ invoice[p] = None
      /\ inv[i].usage = EventsOf(p)
      /\ inv[i].late = LateEvents(p)
      /\ inv[i].credits \subseteq PendingCredits
  BY DEF InvoiceCommit, InvoiceInv, ComputedPc
<1>5. /\ invoice'[p] = [usage |-> inv[i].usage, late |-> inv[i].late,
                        credits |-> inv[i].credits]
      /\ invoice'[p] # None
      /\ \A q \in Periods : q # p => invoice'[q] = invoice[q]
  BY InvoiceCommitStores
<1>6. Issued' = Issued \cup {p}
  BY <1>1, <1>5 DEF Issued
<1>7. \A r \in Recorded : event'[r] = IF r \in LateEvents(p)
                                    THEN [event[r] EXCEPT !.adjusted = TRUE]
                                    ELSE event[r]
  BY <1>2 DEF InvoiceCommit, Recorded
<1>8. \A r \in Recorded : event[r] \in EventRow
  BY DEF TypeOK, Recorded
<1>9. \A r \in Recorded : /\ event'[r] \in EventRow
                           /\ event'[r].hour = event[r].hour
                           /\ event'[r].late = event[r].late
  BY <1>7, <1>8 DEF EventRow
<1>10. Recorded' = Recorded
  <2>1. \A r \in Rids : event[r] = None => event'[r] = None
    BY DEF InvoiceCommit
  <2>2. \A r \in Recorded : event'[r] # None
    BY <1>9, NoneAssumption
  <2>. QED
    BY <2>1, <2>2 DEF Recorded
<1>. QED
  BY <1>1, <1>2, <1>5, <1>6, <1>9, <1>10

LEMMA InvoiceCommitKeeps ==
  ASSUME TypeOK, InvoiceInv, NEW i \in Invoicers, InvoiceCommit(i),
         NEW r \in Recorded
  PROVE  /\ event[r] \in EventRow /\ event'[r] \in EventRow
         /\ event'[r].hour = event[r].hour
         /\ event'[r].late = event[r].late
<1>1. event'[r] = IF r \in inv[i].late
                  THEN [event[r] EXCEPT !.adjusted = TRUE] ELSE event[r]
  BY DEF InvoiceCommit, Recorded
<1>2. event[r] \in EventRow
  BY DEF TypeOK, Recorded
<1>. QED
  BY <1>1, <1>2 DEF EventRow

\* A late event is adjusted from the commit that charges it onwards.
LEMMA InvoiceCommitMarks ==
  ASSUME TypeOK, InvoiceInv, NEW i \in Invoicers, InvoiceCommit(i),
         NEW r \in Recorded
  PROVE  event'[r].adjusted <=>
           event[r].adjusted \/ r \in LateEvents(inv[i].period)
<1>1. event'[r] = IF r \in LateEvents(inv[i].period)
                  THEN [event[r] EXCEPT !.adjusted = TRUE] ELSE event[r]
  BY DEF InvoiceCommit, InvoiceInv, Recorded
<1>2. event[r] \in EventRow
  BY DEF TypeOK, Recorded
<1>. QED
  BY <1>1, <1>2 DEF EventRow

-----------------------------------------------------------------------------
(* Uncommitted events                                                      *)

\* Steps that leave ingesters, events and invoices alone.
LEMMA IngestInvFrame ==
  ASSUME IngestInv, UNCHANGED <<event, invoice, ing>>,
         \A i \in Ingesters : pc'[i] = pc[i]
  PROVE  IngestInv'
BY DEF IngestInv, IsLate

LEMMA IngestKeepsIngestInv ==
  ASSUME TypeOK, IngestInv, NEW i \in Ingesters,
         IngestBegin(i) \/ IngestStep(i) \/ IngestAbort(i)
  PROVE  IngestInv'
<1>. i \in Procs /\ ing[i] \in IngTxn
  BY DEF Procs, TypeOK
<1>1. CASE IngestBegin(i)
  <2>1. \A j \in Ingesters : ing'[j].rows = ing[j].rows
    BY <1>1 DEF IngestBegin, TypeOK, IngTxn
  <2>2. /\ UNCHANGED <<event, invoice>>
        /\ \A j \in Ingesters : j # i => pc'[j] = pc[j]
        /\ \A r \in Rids : ing[i].rows[r] = None
    BY <1>1 DEF IngestBegin, Request, TypeOK, Procs, IngestInv
  <2>. QED
    BY <2>1, <2>2 DEF IngestInv, IsLate
<1>2. CASE IngestLock(i)
  <2>1. /\ UNCHANGED <<event, invoice, ing>>
        /\ \A j \in Ingesters : j # i => pc'[j] = pc[j]
        /\ \A r \in Rids : ing[i].rows[r] = None
    BY <1>2 DEF IngestLock, Grantable, WaitPc, TypeOK, Procs, IngestInv
  <2>. QED
    BY <2>1 DEF IngestInv, IsLate
<1>3. CASE IngestInsert(i)
  <2>. DEFINE rows == [r \in Rids |-> IF ing[i].batch[r] # None /\ event[r] = None
                                      THEN InsertedRow(ing[i].batch[r]) ELSE None]
  <2>1. /\ \A j \in Ingesters : j # i => ing'[j] = ing[j] /\ pc'[j] = pc[j]
        /\ ing'[i].rows = rows
        /\ pc'[i] = "inserted"
        /\ UNCHANGED <<event, invoice>>
    BY <1>3 DEF IngestInsert, TypeOK, IngTxn, Procs
  <2>2. \A r \in Rids : rows[r] # None =>
          /\ event[r] = None /\ ing[i].batch[r] # None
          /\ rows[r] = InsertedRow(ing[i].batch[r])
    OBVIOUS
  <2>3. \A r \in Rids : rows[r] # None =>
          ~rows[r].adjusted /\ (rows[r].late <=> IsLate(rows[r].hour))
    BY <2>2 DEF InsertedRow, IsLate
  <2>4. \A j \in Ingesters, r \in Rids :
          ing[i].batch[r] # None /\ ing[j].rows[r] # None => j = i
    BY <1>3 DEF IngestInsert, BlockedOnRow
  <2>. HIDE DEF rows
  <2>5. \A h \in Hours : IsLate(h)' = IsLate(h)
    BY <2>1 DEF IsLate
  <2>6. ASSUME NEW j \in Ingesters, NEW r \in Rids, ing'[j].rows[r] # None
        PROVE  /\ pc'[j] = "inserted"
               /\ event'[r] = None
               /\ ~ing'[j].rows[r].adjusted
               /\ ing'[j].rows[r].late <=> IsLate(ing[j].rows[r].hour)'
    <3>1. CASE j = i
      BY <2>1, <2>2, <2>3, <2>6, <3>1 DEF IsLate
    <3>2. CASE j # i
      BY <2>1, <2>6, <3>2 DEF IngestInv, IsLate
    <3>. QED
      BY <3>1, <3>2
  <2>7. ASSUME NEW j \in Ingesters, NEW k \in Ingesters, NEW r \in Rids,
               ing'[j].rows[r] # None, ing'[k].rows[r] # None
        PROVE  j = k
    <3>1. CASE j = i /\ k # i
      BY <2>1, <2>2, <2>4, <2>7, <3>1
    <3>2. CASE k = i /\ j # i
      BY <2>1, <2>2, <2>4, <2>7, <3>2
    <3>3. CASE j # i /\ k # i
      BY <2>1, <2>7, <3>3 DEF IngestInv
    <3>. QED
      BY <3>1, <3>2, <3>3
  <2>. QED
    BY <2>6, <2>7 DEF IngestInv
<1>4. CASE IngestCommit(i) \/ IngestAbort(i)
  <2>1. /\ \A j \in Ingesters : j # i => ing'[j] = ing[j] /\ pc'[j] = pc[j]
        /\ \A r \in Rids : ing'[i].rows[r] = None
        /\ UNCHANGED invoice
    BY <1>4 DEF IngestCommit, IngestAbort, ReleaseAll, TypeOK, IdleIng, NoEvents, Procs
  <2>2. \A r \in Rids : event[r] = None /\ ing[i].rows[r] = None => event'[r] = None
    BY <1>4 DEF IngestCommit, IngestAbort
  <2>3. ASSUME NEW j \in Ingesters, NEW r \in Rids, ing'[j].rows[r] # None
        PROVE  j # i /\ ing[j].rows[r] # None /\ ing[i].rows[r] = None
    BY <2>1, <2>3 DEF IngestInv
  <2>. QED
    BY <2>1, <2>2, <2>3 DEF IngestInv, IsLate
<1>. QED
  BY <1>1, <1>2, <1>3, <1>4 DEF IngestStep

LEMMA InvoiceKeepsIngestInv ==
  ASSUME TypeOK, LockInv, IngestInv, NEW i \in Invoicers,
         InvoiceBegin(i) \/ InvoiceStep(i) \/ InvoiceAbort(i)
  PROVE  IngestInv'
<1>1. \A j \in Ingesters : pc'[j] = pc[j]
  BY ProcsAssumption
     DEF InvoiceBegin, InvoiceStep, InvoiceAbort, InvoiceBillingLock, InvoiceSealLock,
         InvoiceExists, InvoiceReaggregate, InvoiceSumWindows, InvoiceSelectLate,
         InvoiceSelectCredits, InvoiceCommit, Request, ReleaseAll, TypeOK, Procs
<1>2. CASE InvoiceCommit(i)
  <2>1. \A j \in Ingesters : pc[j] # "inserted"
    BY <1>2, InvoicerAlone DEF InvoiceCommit, ComputedPc
  <2>2. \A j \in Ingesters, r \in Rids : ing'[j].rows[r] = None
    BY <1>2, <2>1 DEF InvoiceCommit, IngestInv
  <2>. QED
    BY <2>2 DEF IngestInv
<1>3. CASE ~InvoiceCommit(i)
  <2>1. UNCHANGED <<event, invoice, ing>>
    BY <1>3
       DEF InvoiceBegin, InvoiceStep, InvoiceAbort, InvoiceBillingLock, InvoiceSealLock,
           InvoiceExists, InvoiceReaggregate, InvoiceSumWindows, InvoiceSelectLate,
           InvoiceSelectCredits
  <2>. QED
    BY <1>1, <2>1, IngestInvFrame
<1>. QED
  BY <1>2, <1>3

LEMMA AggregateKeepsIngestInv ==
  ASSUME TypeOK, IngestInv, NEW a \in Aggregators,
         AggregateScan(a) \/ AggregateStep(a) \/ AggregateAbort(a)
  PROVE  IngestInv'
<1>1. \A j \in Ingesters : pc'[j] = pc[j]
  BY ProcsAssumption
     DEF AggregateScan, AggregateStep, AggregateAbort, AggregateLock, AggregateUpsert,
         AggregateCommit, Request, ReleaseAll, TypeOK, Procs
<1>2. UNCHANGED <<event, invoice, ing>>
  BY DEF AggregateScan, AggregateStep, AggregateAbort, AggregateLock,
         AggregateUpsert, AggregateCommit
<1>. QED
  BY <1>1, <1>2, IngestInvFrame

-----------------------------------------------------------------------------
(* Windows                                                                 *)

\* Steps that leave the tables and the aggregators alone.
LEMMA WindowInvFrame ==
  ASSUME WindowInv, UNCHANGED <<event, window, invoice, agg>>,
         \A a \in Aggregators : pc'[a] = pc[a]
  PROVE  WindowInv'
BY DEF WindowInv, IsLate, EventsIn

LEMMA IngestKeepsWindowInv ==
  ASSUME TypeOK, IngestInv, WindowInv, NEW i \in Ingesters,
         IngestBegin(i) \/ IngestStep(i) \/ IngestAbort(i)
  PROVE  WindowInv'
<1>1. \A a \in Aggregators : pc'[a] = pc[a]
  BY ProcsAssumption
     DEF IngestBegin, IngestStep, IngestAbort, IngestLock, IngestInsert, IngestCommit,
         Request, ReleaseAll, TypeOK, Procs
<1>2. UNCHANGED <<window, invoice, agg>>
  BY DEF IngestBegin, IngestStep, IngestAbort, IngestLock, IngestInsert, IngestCommit
<1>3. CASE IngestCommit(i)
  <2>1. \A h \in Hours : EventsIn(h) \subseteq EventsIn(h)'
    <3>1. \A r \in Recorded : event'[r] = event[r]
      BY <1>3, IngestCommitEffect
    <3>. QED
      BY <3>1 DEF EventsIn, Recorded
  <2>. QED
    BY <1>1, <1>2, <2>1 DEF WindowInv, IsLate
<1>4. CASE ~IngestCommit(i)
  <2>1. UNCHANGED event
    BY <1>4 DEF IngestBegin, IngestStep, IngestAbort, IngestLock, IngestInsert
  <2>. QED
    BY <1>1, <1>2, <2>1, WindowInvFrame
<1>. QED
  BY <1>3, <1>4

\* When an invoicer has computed, it sees every event of its month counted.
LEMMA CountedExact ==
  ASSUME TypeOK, WindowInv, InvoiceInv, NEW i \in Invoicers, pc[i] \in ComputedPc,
         NEW h \in Hours
  PROVE  Counted(i, h) = IF PeriodOf[h] = inv[i].period THEN EventsIn(h)
                                                       ELSE window[h].counted
<1>1. inv[i].rows[h] = IF PeriodOf[h] = inv[i].period THEN EventsIn(h) ELSE {}
  BY DEF InvoiceInv
<1>2. window[h].counted \subseteq EventsIn(h)
  BY DEF WindowInv
<1>. QED
  BY <1>1, <1>2 DEF Counted

LEMMA InvoiceKeepsWindowInv ==
  ASSUME TypeOK, LockInv, WindowInv, InvoiceInv, NEW i \in Invoicers,
         InvoiceBegin(i) \/ InvoiceStep(i) \/ InvoiceAbort(i)
  PROVE  WindowInv'
<1>1. \A a \in Aggregators : pc'[a] = pc[a]
  BY ProcsAssumption
     DEF InvoiceBegin, InvoiceStep, InvoiceAbort, InvoiceBillingLock, InvoiceSealLock,
         InvoiceExists, InvoiceReaggregate, InvoiceSumWindows, InvoiceSelectLate,
         InvoiceSelectCredits, InvoiceCommit, Request, ReleaseAll, TypeOK, Procs
<1>2. CASE InvoiceCommit(i)
  <2>. PICK p : p = inv[i].period
    OBVIOUS
  <2>1. \A a \in Aggregators, h \in Hours : agg'[a].rows[h] = {}
    <3>1. \A a \in Aggregators : pc[a] # "upserted"
      BY <1>2, InvoicerAlone DEF InvoiceCommit, ComputedPc
    <3>. QED
      BY <1>2, <3>1 DEF InvoiceCommit, WindowInv
  <2>2. \A h \in Hours : EventsIn(h)' = EventsIn(h)
    <3>1. Recorded' = Recorded /\ \A r \in Recorded : event'[r].hour = event[r].hour
      BY <1>2, InvoiceCommitEffect
    <3>. QED
      BY <3>1 DEF EventsIn, Recorded
  <2>3. /\ invoice'[p] # None
        /\ \A q \in Periods : q # p => invoice'[q] = invoice[q]
    BY <1>2, InvoiceCommitStores
  <2>4. ASSUME NEW h \in Hours
        PROVE  window'[h].counted \subseteq EventsIn(h)'
    <3>1. window'[h].counted = Counted(i, h)
      BY <1>2 DEF InvoiceCommit
    <3>2. Counted(i, h) \subseteq EventsIn(h)
      BY <1>2, CountedExact DEF InvoiceCommit, ComputedPc, WindowInv
    <3>. QED
      BY <3>1, <3>2, <2>2
  <2>5. ASSUME NEW h \in Hours, window'[h].sealed
        PROVE  IsLate(h)'
    <3>1. SealedAfter(i, h)
      BY <1>2, <2>5 DEF InvoiceCommit
    <3>2. PeriodOf[h] = p \/ invoice[PeriodOf[h]] # None
      BY <3>1 DEF SealedAfter, WindowInv, IsLate
    <3>3. PeriodOf[h] \in Periods
      BY PeriodsAssumption
    <3>. QED
      BY <2>3, <3>2, <3>3 DEF IsLate
  <2>. QED
    BY <2>1, <2>4, <2>5 DEF WindowInv
<1>3. CASE ~InvoiceCommit(i)
  <2>1. UNCHANGED <<event, window, invoice, agg>>
    BY <1>3
       DEF InvoiceBegin, InvoiceStep, InvoiceAbort, InvoiceBillingLock, InvoiceSealLock,
           InvoiceExists, InvoiceReaggregate, InvoiceSumWindows, InvoiceSelectLate,
           InvoiceSelectCredits
  <2>. QED
    BY <1>1, <2>1, WindowInvFrame
<1>. QED
  BY <1>2, <1>3

LEMMA AggregateKeepsWindowInv ==
  ASSUME TypeOK, LockInv, WindowInv, NEW a \in Aggregators,
         AggregateScan(a) \/ AggregateStep(a) \/ AggregateAbort(a)
  PROVE  WindowInv'
<1>. a \in Procs /\ agg[a] \in AggTxn
  BY DEF Procs, TypeOK
<1>1. /\ \A b \in Aggregators : b # a => pc'[b] = pc[b] /\ agg'[b] = agg[b]
      /\ UNCHANGED <<event, invoice>>
  BY DEF AggregateScan, AggregateStep, AggregateAbort, AggregateLock, AggregateUpsert,
         AggregateCommit, Request, ReleaseAll, TypeOK, Procs
<1>2. CASE AggregateScan(a) \/ AggregateLock(a)
  <2>1. /\ UNCHANGED window
        /\ agg'[a].rows = agg[a].rows
        /\ pc[a] # "upserted"
    BY <1>2 DEF AggregateScan, AggregateLock, Grantable, WaitPc, TypeOK, AggTxn
  <2>2. \A h \in Hours : agg[a].rows[h] = {}
    BY <2>1 DEF WindowInv
  <2>. QED
    BY <1>1, <2>1, <2>2 DEF WindowInv, IsLate, EventsIn
<1>3. CASE AggregateUpsert(a)
  <2>1. /\ UNCHANGED window
        /\ agg'[a].rows = Upsert(agg[a].hours)
        /\ pc'[a] = "upserted"
    BY <1>3 DEF AggregateUpsert, TypeOK, AggTxn
  <2>2. \A h \in Hours : Upsert(agg[a].hours)[h] # {} =>
          /\ Upsert(agg[a].hours)[h] = EventsIn(h)
          /\ ~window[h].sealed
    BY DEF Upsert
  <2>. QED
    BY <1>1, <2>1, <2>2 DEF WindowInv, IsLate, EventsIn
<1>4. CASE AggregateCommit(a)
  <2>1. \A b \in Aggregators, h \in Hours : agg'[b].rows[h] = {}
    <3>1. \A b \in Aggregators : b # a => pc[b] # "upserted"
      BY <1>4, AggregatorAlone DEF AggregateCommit
    <3>2. agg'[a] = IdleAgg
      BY <1>4 DEF AggregateCommit, TypeOK
    <3>. QED
      BY <1>1, <3>1, <3>2 DEF WindowInv, IdleAgg, NoWindows
  <2>2. \A h \in Hours :
          /\ window'[h].counted = IF agg[a].rows[h] # {} THEN agg[a].rows[h]
                                                        ELSE window[h].counted
          /\ window'[h].sealed = window[h].sealed
    BY <1>4 DEF AggregateCommit, TypeOK, WindowRow
  <2>. QED
    BY <1>1, <2>1, <2>2 DEF WindowInv, IsLate, EventsIn
<1>5. CASE AggregateAbort(a)
  <2>1. UNCHANGED window /\ \A h \in Hours : agg'[a].rows[h] = {}
    BY <1>5 DEF AggregateAbort, TypeOK, IdleAgg, NoWindows
  <2>. QED
    BY <1>1, <2>1 DEF WindowInv, IsLate, EventsIn
<1>. QED
  BY <1>2, <1>3, <1>4, <1>5 DEF AggregateStep

-----------------------------------------------------------------------------
(* The invoicer's private results                                          *)

\* The part of InvoiceInv that is about one invoicer.
InvoicerKnows(i) ==
  LET p == inv[i].period IN
  /\ pc[i] \notin ComputedPc => inv[i].rows = NoWindows
  /\ pc[i] \in ComputedPc =>
        /\ invoice[p] = None
        /\ \A h \in Hours :
              inv[i].rows[h] = IF PeriodOf[h] = p THEN EventsIn(h) ELSE {}
  /\ pc[i] \in {"summed", "lateSelected", "creditsSelected"} =>
        inv[i].usage = EventsOf(p)
  /\ pc[i] \in {"lateSelected", "creditsSelected"} => inv[i].late = LateEvents(p)
  /\ pc[i] = "creditsSelected" => inv[i].credits \subseteq PendingCredits

LEMMA InvoiceInvSplit == InvoiceInv <=> \A i \in Invoicers : InvoicerKnows(i)
BY DEF InvoiceInv, InvoicerKnows

\* What an invoicer knows outlives steps that leave the tables alone.
LEMMA InvoicerKnowsFrame ==
  ASSUME NEW i \in Invoicers, InvoicerKnows(i),
         UNCHANGED <<event, invoice>>, inv'[i] = inv[i], pc'[i] = pc[i],
         PendingCredits \subseteq PendingCredits'
  PROVE  InvoicerKnows(i)'
BY DEF InvoicerKnows, EventsIn, EventsOf, Recorded, LateEvents

\* An invoicer that has computed nothing knows nothing the tables could refute.
LEMMA InvoicerKnowsNothing ==
  ASSUME NEW i \in Invoicers, pc[i] \notin ComputedPc, inv[i].rows = NoWindows
  PROVE  InvoicerKnows(i)
BY DEF InvoicerKnows, ComputedPc

LEMMA InvoicerKnowsNothingNext ==
  ASSUME NEW i \in Invoicers, pc'[i] \notin ComputedPc, inv'[i].rows = NoWindows
  PROVE  InvoicerKnows(i)'
BY DEF InvoicerKnows, ComputedPc

LEMMA IngestKeepsInvoiceInv ==
  ASSUME TypeOK, LockInv, InvoiceInv, NEW j \in Ingesters,
         IngestBegin(j) \/ IngestStep(j) \/ IngestAbort(j)
  PROVE  InvoiceInv'
<1>1. \A i \in Invoicers : pc'[i] = pc[i] /\ inv'[i] = inv[i]
  BY ProcsAssumption
     DEF IngestBegin, IngestStep, IngestAbort, IngestLock, IngestInsert, IngestCommit,
         Request, ReleaseAll, TypeOK, Procs
<1>2. UNCHANGED <<invoice, credit>>
  BY DEF IngestBegin, IngestStep, IngestAbort, IngestLock, IngestInsert, IngestCommit
<1>3. SUFFICES ASSUME NEW i \in Invoicers PROVE InvoicerKnows(i)'
  BY DEF InvoiceInv, InvoicerKnows
<1>4. InvoicerKnows(i)
  BY DEF InvoiceInv, InvoicerKnows
<1>5. CASE IngestCommit(j)
  <2>1. pc[i] \notin ComputedPc
    BY <1>5, InvoicerAlone DEF IngestCommit
  <2>2. inv[i].rows = NoWindows
    BY <1>4, <2>1 DEF InvoicerKnows
  <2>. QED
    BY <1>1, <2>1, <2>2, InvoicerKnowsNothingNext
<1>6. CASE ~IngestCommit(j)
  <2>1. UNCHANGED event
    BY <1>6 DEF IngestBegin, IngestStep, IngestAbort, IngestLock, IngestInsert
  <2>2. PendingCredits' = PendingCredits
    BY <1>2 DEF PendingCredits
  <2>. QED
    BY <1>1, <1>2, <1>4, <2>1, <2>2, InvoicerKnowsFrame
<1>. QED
  BY <1>5, <1>6

LEMMA InvoiceKeepsInvoiceInv ==
  ASSUME TypeOK, LockInv, WindowInv, InvoiceInv, NEW i \in Invoicers,
         InvoiceBegin(i) \/ InvoiceStep(i) \/ InvoiceAbort(i)
  PROVE  InvoiceInv'
<1>. i \in Procs /\ inv[i] \in InvTxn
  BY DEF Procs, TypeOK
<1>1. \A k \in Invoicers : k # i => pc'[k] = pc[k] /\ inv'[k] = inv[k]
  BY DEF InvoiceBegin, InvoiceStep, InvoiceAbort, InvoiceBillingLock, InvoiceSealLock,
         InvoiceExists, InvoiceReaggregate, InvoiceSumWindows, InvoiceSelectLate,
         InvoiceSelectCredits, InvoiceCommit, Request, ReleaseAll, TypeOK, Procs
<1>2. \A k \in Invoicers : InvoicerKnows(k)
  BY InvoiceInvSplit
<1>3. CASE InvoiceCommit(i)
  <2>1. /\ \A k \in Invoicers : k # i => pc[k] \notin ComputedPc
        /\ inv'[i] = IdleInv /\ pc'[i] = "idle"
    BY <1>3, InvoicerAlone DEF InvoiceCommit, ComputedPc, ReleaseAll, TypeOK
  <2>2. \A k \in Invoicers : pc'[k] \notin ComputedPc /\ inv'[k].rows = NoWindows
    BY <1>1, <1>2, <2>1 DEF InvoicerKnows, IdleInv, ComputedPc
  <2>. QED
    BY <2>2 DEF InvoiceInv, ComputedPc
<1>4. CASE ~InvoiceCommit(i)
  <2>1. UNCHANGED <<event, window, invoice, credit>>
    BY <1>4
       DEF InvoiceBegin, InvoiceStep, InvoiceAbort, InvoiceBillingLock, InvoiceSealLock,
           InvoiceExists, InvoiceReaggregate, InvoiceSumWindows, InvoiceSelectLate,
           InvoiceSelectCredits
  <2>2. PendingCredits' = PendingCredits
    BY <2>1 DEF PendingCredits
  <2>3. \A k \in Invoicers : k # i => InvoicerKnows(k)'
    BY <1>1, <1>2, <2>1, <2>2, InvoicerKnowsFrame
  <2>4. InvoicerKnows(i)'
    <3>. PICK p : p = inv[i].period
      OBVIOUS
    <3>7. /\ EventsOf(p)' = EventsOf(p)
          /\ LateEvents(p)' = LateEvents(p)
          /\ \A h \in Hours : EventsIn(h)' = EventsIn(h)
      BY <2>1 DEF EventsOf, LateEvents, EventsIn, Recorded
    <3>1. CASE InvoiceBegin(i) \/ InvoiceBillingLock(i) \/ InvoiceSealLock(i)
      <4>1. pc[i] \notin ComputedPc /\ pc'[i] \notin ComputedPc
            /\ inv'[i].rows = inv[i].rows
        BY <3>1 DEF InvoiceBegin, InvoiceBillingLock, InvoiceSealLock, Grantable,
                    WaitPc, Request, TypeOK, InvTxn, ComputedPc
      <4>. QED
        BY <1>2, <4>1, InvoicerKnowsNothingNext DEF InvoicerKnows
    <3>2. CASE InvoiceExists(i) \/ InvoiceAbort(i)
      <4>1. pc'[i] = "idle" /\ inv'[i] = IdleInv
        BY <3>2 DEF InvoiceExists, InvoiceAbort, ReleaseAll, TypeOK
      <4>. QED
        BY <4>1, InvoicerKnowsNothingNext DEF IdleInv, ComputedPc
    <3>3. CASE InvoiceReaggregate(i)
      <4>1. /\ invoice[p] = None
            /\ pc'[i] = "reaggregated"
            /\ inv'[i].rows = Upsert(HoursOf(p))
            /\ inv'[i].period = p
        BY <3>3 DEF InvoiceReaggregate, AlreadyIssued, TypeOK, InvTxn
      <4>2. ASSUME NEW h \in Hours
            PROVE  inv'[i].rows[h] = IF PeriodOf[h] = p THEN EventsIn(h) ELSE {}
        <5>1. PeriodOf[h] = p => ~window[h].sealed
          BY <4>1 DEF WindowInv, IsLate
        <5>. QED
          BY <4>1, <5>1 DEF Upsert, HoursOf
      <4>. QED
        BY <2>1, <3>7, <4>1, <4>2 DEF InvoicerKnows, ComputedPc
    <3>4. CASE InvoiceSumWindows(i)
      <4>. DEFINE u == UNION {Counted(i, h) : h \in HoursOf(p)}
      <4>1. /\ pc[i] = "reaggregated" /\ pc'[i] = "summed"
            /\ inv'[i].usage = u
            /\ inv'[i].period = p /\ inv'[i].rows = inv[i].rows
        BY <3>4 DEF InvoiceSumWindows, TypeOK, InvTxn
      <4>2. \A h \in HoursOf(p) : Counted(i, h) = EventsIn(h)
        BY <4>1, CountedExact DEF HoursOf, ComputedPc
      <4>3. u = EventsOf(p)
        <5>1. \A r \in Recorded : event[r].hour \in Hours
          BY DEF Recorded, TypeOK, EventRow
        <5>. QED
          BY <4>2, <5>1 DEF EventsOf, Recorded, EventsIn, HoursOf
      <4>. HIDE DEF u
      <4>. QED
        BY <1>2, <2>1, <3>7, <4>1, <4>3 DEF InvoicerKnows, ComputedPc
    <3>5. CASE InvoiceSelectLate(i)
      <4>1. /\ pc[i] = "summed" /\ pc'[i] = "lateSelected"
            /\ inv'[i].late = LateEvents(p)
            /\ inv'[i].period = p /\ inv'[i].rows = inv[i].rows
            /\ inv'[i].usage = inv[i].usage
        BY <3>5 DEF InvoiceSelectLate, TypeOK, InvTxn
      <4>. QED
        BY <1>2, <2>1, <3>7, <4>1 DEF InvoicerKnows, ComputedPc
    <3>6. CASE InvoiceSelectCredits(i)
      <4>1. /\ pc[i] = "lateSelected" /\ pc'[i] = "creditsSelected"
            /\ inv'[i].credits = PendingCredits
            /\ inv'[i].period = p /\ inv'[i].rows = inv[i].rows
            /\ inv'[i].usage = inv[i].usage /\ inv'[i].late = inv[i].late
        BY <3>6 DEF InvoiceSelectCredits, TypeOK, InvTxn
      <4>. QED
        BY <1>2, <2>1, <2>2, <3>7, <4>1 DEF InvoicerKnows, ComputedPc
    <3>. QED
      BY <1>4, <3>1, <3>2, <3>3, <3>4, <3>5, <3>6 DEF InvoiceStep
  <2>. QED
    BY <2>3, <2>4 DEF InvoiceInv, InvoicerKnows
<1>. QED
  BY <1>3, <1>4

LEMMA AggregateKeepsInvoiceInv ==
  ASSUME TypeOK, InvoiceInv, NEW a \in Aggregators,
         AggregateScan(a) \/ AggregateStep(a) \/ AggregateAbort(a)
  PROVE  InvoiceInv'
<1>1. \A i \in Invoicers : pc'[i] = pc[i]
  BY ProcsAssumption
     DEF AggregateScan, AggregateStep, AggregateAbort, AggregateLock, AggregateUpsert,
         AggregateCommit, Request, ReleaseAll, TypeOK, Procs
<1>2. UNCHANGED <<event, invoice, credit, inv>>
  BY DEF AggregateScan, AggregateStep, AggregateAbort, AggregateLock,
         AggregateUpsert, AggregateCommit
<1>3. PendingCredits' = PendingCredits
  BY <1>2 DEF PendingCredits
<1>. QED
  BY <1>1, <1>2, <1>3, InvoicerKnowsFrame DEF InvoiceInv, InvoicerKnows

-----------------------------------------------------------------------------
(* The tables                                                              *)

TablesInv == NeverDoubleBilled /\ NeverLost /\ SealedWindowsExact /\ CreditAppliedOnce

LEMMA TablesFrame ==
  ASSUME TablesInv, UNCHANGED tables
  PROVE  TablesInv'
BY DEF TablesInv, tables, NeverDoubleBilled, NeverLost, SealedWindowsExact,
       CreditAppliedOnce, Recorded, Issued, ChargedOn, EventsIn

LEMMA IngestKeepsTables ==
  ASSUME TypeOK, IngestInv, WindowInv, TablesInv, NEW i \in Ingesters,
         IngestBegin(i) \/ IngestStep(i) \/ IngestAbort(i)
  PROVE  TablesInv'
<1>1. UNCHANGED <<window, invoice, credit>>
  BY DEF IngestBegin, IngestStep, IngestAbort, IngestLock, IngestInsert, IngestCommit
<1>2. CASE IngestCommit(i)
  <2>1. \A r \in Recorded : event'[r] = event[r]
    BY <1>2, IngestCommitEffect
  <2>2. \A r \in Rids : event[r] = None /\ event'[r] # None =>
          /\ event'[r] \in EventRow
          /\ ~event'[r].adjusted
          /\ event'[r].late <=> IsLate(event'[r].hour)
    BY <1>2, IngestCommitEffect
  <2>3. Recorded \subseteq Recorded' /\ Issued' = Issued
    BY <1>1, <2>1 DEF Recorded, Issued
  <2>4. NeverDoubleBilled'
    BY <1>1, <2>1, <2>3 DEF TablesInv, NeverDoubleBilled, Issued, ChargedOn
  <2>5. NeverLost'
    <3>1. \A r \in Recorded' : r \notin Recorded =>
            /\ event'[r].hour \in Hours
            /\ ~event'[r].adjusted
            /\ event'[r].late <=> PeriodOf[event'[r].hour] \in Issued
            /\ \A q \in Issued : r \notin invoice[q].usage \cup invoice[q].late
      <4>1. \A h \in Hours : IsLate(h) <=> PeriodOf[h] \in Issued
        BY PeriodsAssumption DEF IsLate, Issued
      <4>2. \A q \in Issued : invoice[q].usage \cup invoice[q].late \subseteq Recorded
        BY DEF TablesInv, NeverDoubleBilled
      <4>3. \A r \in Recorded' : r \notin Recorded =>
              /\ r \in Rids /\ event[r] = None /\ event'[r] # None
        BY DEF Recorded
      <4>4. \A r \in Recorded' : r \notin Recorded => event'[r].hour \in Hours
        BY <2>2, <4>3 DEF EventRow
      <4>. QED
        BY <2>2, <4>1, <4>2, <4>3, <4>4
    <3>2. ASSUME NEW r \in Recorded', r \in Recorded
          PROVE  LET p == PeriodOf[event'[r].hour] IN
                 /\ event'[r].late => p \in Issued
                 /\ p \in Issued => (event'[r].late <=> r \notin invoice[p].usage)
                 /\ event'[r].adjusted <=> \E q \in Issued : r \in invoice[q].late
                 /\ event'[r].adjusted => event'[r].late
      BY <2>1, <3>2 DEF TablesInv, NeverLost
    <3>3. ASSUME NEW r \in Recorded', r \notin Recorded
          PROVE  LET p == PeriodOf[event'[r].hour] IN
                 /\ event'[r].late => p \in Issued
                 /\ p \in Issued => (event'[r].late <=> r \notin invoice[p].usage)
                 /\ event'[r].adjusted <=> \E q \in Issued : r \in invoice[q].late
                 /\ event'[r].adjusted => event'[r].late
      BY <3>1, <3>3
    <3>. QED
      BY <1>1, <2>3, <3>2, <3>3 DEF NeverLost
  <2>6. SealedWindowsExact'
    <3>1. SUFFICES ASSUME NEW h \in Hours, window[h].sealed
                   PROVE  {r \in EventsIn(h) : ~event[r].late}'
                            = {r \in EventsIn(h) : ~event[r].late}
      BY <1>1 DEF TablesInv, SealedWindowsExact
    <3>2. IsLate(h)
      BY <3>1 DEF WindowInv
    <3>. QED
      BY <2>1, <2>2, <3>2 DEF EventsIn, Recorded
  <2>7. CreditAppliedOnce'
    BY <1>1 DEF TablesInv, CreditAppliedOnce, Issued
  <2>. QED
    BY <2>4, <2>5, <2>6, <2>7 DEF TablesInv
<1>3. CASE ~IngestCommit(i)
  <2>1. UNCHANGED event
    BY <1>3 DEF IngestBegin, IngestStep, IngestAbort, IngestLock, IngestInsert
  <2>. QED
    BY <1>1, <2>1, TablesFrame DEF tables
<1>. QED
  BY <1>2, <1>3

LEMMA AggregateKeepsTables ==
  ASSUME TypeOK, WindowInv, TablesInv, NEW a \in Aggregators,
         AggregateScan(a) \/ AggregateStep(a) \/ AggregateAbort(a)
  PROVE  TablesInv'
<1>1. UNCHANGED <<event, invoice, credit>>
  BY DEF AggregateScan, AggregateStep, AggregateAbort, AggregateLock,
         AggregateUpsert, AggregateCommit
<1>2. CASE AggregateCommit(a)
  <2>1. \A h \in Hours : /\ window'[h].sealed = window[h].sealed
                         /\ window[h].sealed => window'[h] = window[h]
    BY <1>2 DEF AggregateCommit, TypeOK, WindowRow, WindowInv
  <2>2. SealedWindowsExact'
    BY <1>1, <2>1 DEF TablesInv, SealedWindowsExact, EventsIn
  <2>. QED
    BY <1>1, <2>2 DEF TablesInv, NeverDoubleBilled, NeverLost, CreditAppliedOnce,
                      Recorded, Issued, ChargedOn
<1>3. CASE ~AggregateCommit(a)
  <2>1. UNCHANGED window
    BY <1>3 DEF AggregateScan, AggregateStep, AggregateAbort, AggregateLock, AggregateUpsert
  <2>. QED
    BY <1>1, <2>1, TablesFrame DEF tables
<1>. QED
  BY <1>2, <1>3

LEMMA CreditKeepsTables ==
  ASSUME TypeOK, TablesInv, NEW c \in Credits, IssueCredit(c)
  PROVE  TablesInv'
<1>1. UNCHANGED <<event, window, invoice>>
  BY DEF IssueCredit
<1>2. CreditAppliedOnce'
  <2>1. \A p \in Periods : credit[c] # p /\ credit'[c] # p
    BY NoneAssumption DEF IssueCredit, TypeOK, Periods, Pending
  <2>2. \A d \in Credits : d # c => credit'[d] = credit[d]
    BY DEF IssueCredit, TypeOK
  <2>. QED
    BY <1>1, <2>1, <2>2 DEF TablesInv, CreditAppliedOnce, Issued
<1>. QED
  BY <1>1, <1>2 DEF TablesInv, NeverDoubleBilled, NeverLost, SealedWindowsExact,
                    Recorded, Issued, ChargedOn, EventsIn

\* The commit that issues an invoice charges what was due and nothing twice.
LEMMA InvoiceCommitKeepsTables ==
  ASSUME TypeOK, WindowInv, InvoiceInv, TablesInv, NEW i \in Invoicers, InvoiceCommit(i)
  PROVE  TablesInv'
<1>. PICK p : p = inv[i].period
  OBVIOUS
<1>1. /\ p \in Periods /\ p \notin Issued
      /\ Issued' = Issued \cup {p}
      /\ Recorded' = Recorded
  <2>1. p \in Periods /\ invoice[p] = None
    BY InvoiceCommitEffect
  <2>2. Issued' = Issued \cup {p} /\ Recorded' = Recorded
    BY InvoiceCommitEffect
  <2>. QED
    BY <2>1, <2>2 DEF Issued
<1>2. /\ invoice'[p].usage = EventsOf(p)
      /\ invoice'[p].late = LateEvents(p)
      /\ invoice'[p].credits = inv[i].credits
      /\ inv[i].credits \subseteq PendingCredits
      /\ \A q \in Issued : invoice'[q] = invoice[q]
  <2>1. /\ invoice'[p] = [usage |-> inv[i].usage, late |-> inv[i].late,
                          credits |-> inv[i].credits]
        /\ inv[i].usage = EventsOf(p)
        /\ inv[i].late = LateEvents(p)
        /\ inv[i].credits \subseteq PendingCredits
    BY InvoiceCommitEffect
  <2>2. \A q \in Periods : q # p => invoice'[q] = invoice[q]
    BY DEF InvoiceCommit, TypeOK
  <2>3. \A q \in Issued : q \in Periods /\ q # p
    BY <1>1 DEF Issued
  <2>. QED
    BY <2>1, <2>2, <2>3
<1>3. \A r \in Recorded : /\ event[r] \in EventRow /\ event'[r] \in EventRow
                           /\ event'[r].hour = event[r].hour
                           /\ event'[r].late = event[r].late
  BY InvoiceCommitKeeps
<1>4. \A r \in Recorded : event'[r].adjusted <=> event[r].adjusted \/ r \in LateEvents(p)
  BY InvoiceCommitMarks
\* Nothing of month p is late yet, and late events of earlier months that wait
\* are charged nowhere.
<1>5. \A r \in Recorded :
        LET q == PeriodOf[event[r].hour] IN
        /\ event[r].late => q \in Issued
        /\ q \in Issued => (event[r].late <=> r \notin invoice[q].usage)
        /\ event[r].adjusted <=> \E k \in Issued : r \in invoice[k].late
        /\ event[r].adjusted => event[r].late
  BY DEF TablesInv, NeverLost
<1>6. /\ \A r \in EventsOf(p) : r \in Recorded /\ PeriodOf[event[r].hour] = p
      /\ \A r \in Recorded : PeriodOf[event[r].hour] = p => r \in EventsOf(p)
      /\ \A r \in LateEvents(p) : /\ r \in Recorded /\ event[r].late
                                  /\ ~event[r].adjusted /\ PeriodOf[event[r].hour] < p
  BY DEF EventsOf, LateEvents, Recorded
<1>7. \A r \in EventsOf(p) : ~event[r].late /\ ~event[r].adjusted
  BY <1>1, <1>5, <1>6
<1>8. \A q \in Issued :
        /\ invoice[q].usage \cap invoice[q].late = {}
        /\ \A r \in invoice[q].usage : r \in Recorded /\ PeriodOf[event[r].hour] = q
        /\ \A r \in invoice[q].late : r \in Recorded /\ PeriodOf[event[r].hour] < q
  BY DEF TablesInv, NeverDoubleBilled
<1>9. \A r \in EventsOf(p) \cup LateEvents(p) : \A q \in Issued :
        r \notin invoice[q].usage \cup invoice[q].late
  <2>1. \A r \in EventsOf(p) : \A q \in Issued : r \notin invoice[q].usage
    BY <1>1, <1>6, <1>8
  <2>2. \A r \in LateEvents(p) : \A q \in Issued : r \notin invoice[q].usage
    BY <1>5, <1>6, <1>8
  <2>3. \A r \in EventsOf(p) \cup LateEvents(p) : \A q \in Issued : r \notin invoice[q].late
    BY <1>5, <1>6, <1>7
  <2>. QED
    BY <2>1, <2>2, <2>3
<1>10. NeverDoubleBilled'
  <2>1. EventsOf(p) \cap LateEvents(p) = {}
    BY <1>6, <1>7
  <2>2. ASSUME NEW q \in Issued'
        PROVE  /\ invoice'[q].usage \cap invoice'[q].late = {}
               /\ \A r \in invoice'[q].usage : r \in Recorded' /\ PeriodOf[event'[r].hour] = q
               /\ \A r \in invoice'[q].late : r \in Recorded' /\ PeriodOf[event'[r].hour] < q
    <3>1. CASE q = p
      BY <1>1, <1>2, <1>3, <1>6, <2>1, <3>1
    <3>2. CASE q \in Issued
      BY <1>1, <1>2, <1>3, <1>8, <3>2
    <3>. QED
      BY <1>1, <3>1, <3>2
  <2>3. ASSUME NEW r \in Rids, NEW q \in ChargedOn(r)', NEW k \in ChargedOn(r)'
        PROVE  q = k
    <3>1. \A m \in ChargedOn(r)' :
            \/ m \in Issued /\ m \in ChargedOn(r)
            \/ m = p /\ r \in EventsOf(p) \cup LateEvents(p)
      BY <1>1, <1>2 DEF ChargedOn
    <3>2. \A m \in ChargedOn(r) : m \in Issued /\ r \in invoice[m].usage \cup invoice[m].late
      BY DEF ChargedOn
    <3>3. CASE q \in ChargedOn(r) /\ k \in ChargedOn(r)
      BY <3>3 DEF TablesInv, NeverDoubleBilled
    <3>. QED
      BY <1>9, <3>1, <3>2, <3>3
  <2>. QED
    BY <2>2, <2>3 DEF NeverDoubleBilled
<1>11. NeverLost'
  <2>1. ASSUME NEW r \in Recorded
        PROVE  LET q == PeriodOf[event'[r].hour] IN
               /\ event'[r].late => q \in Issued'
               /\ q \in Issued' => (event'[r].late <=> r \notin invoice'[q].usage)
    <3>. DEFINE q == PeriodOf[event[r].hour]
    <3>1. event'[r].hour = event[r].hour /\ event'[r].late = event[r].late
      BY <1>3
    <3>2. CASE q = p
      BY <1>1, <1>2, <1>6, <1>7, <3>1, <3>2
    <3>3. CASE q # p
      BY <1>1, <1>2, <1>5, <3>1, <3>3
    <3>. QED
      BY <3>2, <3>3
  <2>2. ASSUME NEW r \in Recorded
        PROVE  event'[r].adjusted <=> \E k \in Issued' : r \in invoice'[k].late
    <3>1. (\E k \in Issued' : r \in invoice'[k].late)
            <=> (\E k \in Issued : r \in invoice[k].late) \/ r \in LateEvents(p)
      BY <1>1, <1>2
    <3>. QED
      BY <1>4, <1>5, <3>1
  <2>3. ASSUME NEW r \in Recorded, event'[r].adjusted
        PROVE  event'[r].late
    BY <1>3, <1>4, <1>5, <1>6, <2>3
  <2>. QED
    BY <1>1, <2>1, <2>2, <2>3 DEF NeverLost
<1>12. SealedWindowsExact'
  <2>1. SUFFICES ASSUME NEW h \in Hours, window'[h].sealed
                 PROVE  window'[h].counted = {r \in EventsIn(h) : ~event[r].late}'
    BY DEF SealedWindowsExact
  <2>2. {r \in EventsIn(h) : ~event[r].late}' = {r \in EventsIn(h) : ~event[r].late}
    BY <1>1, <1>3 DEF EventsIn, Recorded
  <2>3. window'[h].counted = Counted(i, h) /\ SealedAfter(i, h)
    BY <2>1 DEF InvoiceCommit
  <2>4. Counted(i, h) = IF PeriodOf[h] = p THEN EventsIn(h) ELSE window[h].counted
    BY CountedExact DEF InvoiceCommit, ComputedPc
  <2>5. CASE PeriodOf[h] = p
    <3>1. \A r \in EventsIn(h) : ~event[r].late
      BY <1>6, <1>7, <2>5 DEF EventsIn, Recorded
    <3>. QED
      BY <2>2, <2>3, <2>4, <2>5, <3>1
  <2>6. CASE PeriodOf[h] # p
    <3>1. window[h].sealed
      BY <2>3, <2>6 DEF SealedAfter
    <3>. QED
      BY <2>2, <2>3, <2>4, <2>6, <3>1 DEF TablesInv, SealedWindowsExact
  <2>. QED
    BY <2>5, <2>6
<1>13. CreditAppliedOnce'
  <2>1. \A c \in Credits : credit'[c] = IF c \in inv[i].credits THEN p ELSE credit[c]
    BY DEF InvoiceCommit, Consumed
  <2>2. \A c \in inv[i].credits : c \in Credits /\ credit[c] = Pending
    BY <1>2 DEF PendingCredits
  <2>3. ASSUME NEW c \in Credits, NEW q \in Periods
        PROVE  credit'[c] = q <=> q \in Issued' /\ c \in invoice'[q].credits
    <3>1. credit[c] = q <=> q \in Issued /\ c \in invoice[q].credits
      BY DEF TablesInv, CreditAppliedOnce
    <3>2. q # Pending
      BY DEF Periods, Pending
    <3>3. CASE c \in inv[i].credits
      BY <1>1, <1>2, <2>1, <2>2, <3>1, <3>2, <3>3
    <3>4. CASE c \notin inv[i].credits
      BY <1>1, <1>2, <2>1, <3>1, <3>4
    <3>. QED
      BY <3>3, <3>4
  <2>. QED
    BY <2>3 DEF CreditAppliedOnce
<1>. QED
  BY <1>10, <1>11, <1>12, <1>13 DEF TablesInv

LEMMA InvoiceKeepsTables ==
  ASSUME TypeOK, WindowInv, InvoiceInv, TablesInv, NEW i \in Invoicers,
         InvoiceBegin(i) \/ InvoiceStep(i) \/ InvoiceAbort(i)
  PROVE  TablesInv'
<1>1. CASE InvoiceCommit(i)
  BY <1>1, InvoiceCommitKeepsTables
<1>2. CASE ~InvoiceCommit(i)
  <2>1. UNCHANGED tables
    BY <1>2
       DEF InvoiceBegin, InvoiceStep, InvoiceAbort, InvoiceBillingLock, InvoiceSealLock,
           InvoiceExists, InvoiceReaggregate, InvoiceSumWindows, InvoiceSelectLate,
           InvoiceSelectCredits, tables
  <2>. QED
    BY <2>1, TablesFrame
<1>. QED
  BY <1>1, <1>2

-----------------------------------------------------------------------------
(* The inductive invariant and what it implies                             *)

LEMMA InitIInv == Init => IInv
<1>1. Init => TypeOK
  BY InitTypeOK
<1>2. Init => LockInv
  BY DEF Init, LockInv, Procs, LockNames, IngestPc, InvoicePc, AggregatePc, ComputedPc
<1>3. Init => IngestInv /\ WindowInv
  BY DEF Init, IngestInv, WindowInv, IdleIng, IdleAgg, NoEvents, NoWindows
<1>4. Init => InvoiceInv
  BY DEF Init, InvoiceInv, IdleInv, Procs, ComputedPc
<1>5. Init => NeverDoubleBilled /\ NeverLost /\ SealedWindowsExact
  BY DEF Init, NeverDoubleBilled, NeverLost, SealedWindowsExact, Recorded, Issued,
         ChargedOn, NoEvents
<1>6. Init => CreditAppliedOnce
  BY NoneAssumption DEF Init, CreditAppliedOnce, Issued, Periods
<1>. QED
  BY <1>1, <1>2, <1>3, <1>4, <1>5, <1>6 DEF IInv

LEMMA NextIInv == IInv /\ [Next]_vars => IInv'
<1>. SUFFICES ASSUME IInv, [Next]_vars PROVE IInv'
  OBVIOUS
<1>. /\ TypeOK /\ LockInv /\ IngestInv /\ WindowInv /\ InvoiceInv /\ TablesInv
  BY DEF IInv, TablesInv
<1>1. ASSUME NEW i \in Ingesters, IngestBegin(i) \/ IngestStep(i) \/ IngestAbort(i)
      PROVE  IInv'
  BY <1>1, IngestTypeOK, IngestLockInv, IngestKeepsIngestInv, IngestKeepsWindowInv,
     IngestKeepsInvoiceInv, IngestKeepsTables DEF IInv, TablesInv
<1>2. ASSUME NEW i \in Invoicers, InvoiceBegin(i) \/ InvoiceStep(i) \/ InvoiceAbort(i)
      PROVE  IInv'
  BY <1>2, InvoiceTypeOK, InvoiceLockInv, InvoiceKeepsIngestInv, InvoiceKeepsWindowInv,
     InvoiceKeepsInvoiceInv, InvoiceKeepsTables DEF IInv, TablesInv
<1>3. ASSUME NEW a \in Aggregators,
             AggregateScan(a) \/ AggregateStep(a) \/ AggregateAbort(a)
      PROVE  IInv'
  BY <1>3, AggregateTypeOK, AggregateLockInv, AggregateKeepsIngestInv,
     AggregateKeepsWindowInv, AggregateKeepsInvoiceInv, AggregateKeepsTables
     DEF IInv, TablesInv
<1>4. ASSUME NEW c \in Credits, IssueCredit(c)
      PROVE  IInv'
  <2>1. UNCHANGED <<event, window, invoice, pc, ing, inv, agg, held>>
    BY <1>4 DEF IssueCredit
  <2>2. LockInv'
    BY <2>1 DEF LockInv
  <2>3. IngestInv'
    BY <2>1, IngestInvFrame
  <2>4. WindowInv'
    BY <2>1, WindowInvFrame
  <2>5. InvoiceInv'
    <3>1. PendingCredits \subseteq PendingCredits'
      BY <1>4, NoneAssumption DEF IssueCredit, PendingCredits, TypeOK, Pending
    <3>. QED
      BY <2>1, <3>1, InvoicerKnowsFrame DEF InvoiceInv, InvoicerKnows
  <2>. QED
    BY <1>4, <2>2, <2>3, <2>4, <2>5, CreditTypeOK, CreditKeepsTables DEF IInv, TablesInv
<1>5. CASE UNCHANGED vars
  <2>1. TypeOK' /\ LockInv' /\ IngestInv' /\ WindowInv'
    BY <1>5, IngestInvFrame, WindowInvFrame DEF vars, TypeOK, LockInv
  <2>2. InvoiceInv'
    BY <1>5, InvoicerKnowsFrame DEF vars, InvoiceInv, InvoicerKnows, PendingCredits
  <2>. QED
    BY <1>5, <2>1, <2>2, TablesFrame DEF vars, tables, IInv, TablesInv
<1>. QED
  BY <1>1, <1>2, <1>3, <1>4, <1>5 DEF Next

\* The inductive invariant holds in every reachable state.
THEOREM Invariance == Spec => []IInv
BY InitIInv, NextIInv, PTL DEF Spec

\* No event is charged twice, whatever the interleaving of ingests, aggregator
\* runs, concurrent invoicer runs, retries and rollbacks.
THEOREM NoDoubleBilling == Spec => []NeverDoubleBilled
<1>1. IInv => NeverDoubleBilled
  BY DEF IInv
<1>. QED
  BY <1>1, Invariance, PTL

\* No recorded event is lost between an invoice and the late-event adjustments.
THEOREM NothingLost == Spec => []NeverLost
<1>1. IInv => NeverLost
  BY DEF IInv
<1>. QED
  BY <1>1, Invariance, PTL

\* A sealed window stays the sum of the on-time events of its hour.
THEOREM SealedExact == Spec => []SealedWindowsExact
<1>1. IInv => SealedWindowsExact
  BY DEF IInv
<1>. QED
  BY <1>1, Invariance, PTL

\* A credit is consumed by exactly the invoice that carries its line item.
THEOREM CreditsOnce == Spec => []CreditAppliedOnce
<1>1. IInv => CreditAppliedOnce
  BY DEF IInv
<1>. QED
  BY <1>1, Invariance, PTL

-----------------------------------------------------------------------------
(* Step properties and the refinement of UsageLedger                       *)

\* At most one open transaction has uncommitted windows, so no two writers meet
\* on a usage_window row.
THEOREM WindowWriters == Spec => []OneWindowWriter
<1>1. IInv => OneWindowWriter
  <2>. SUFFICES ASSUME IInv,
                       NEW p \in Invoicers \cup Aggregators, WritesWindows(p),
                       NEW q \in Invoicers \cup Aggregators, WritesWindows(q)
                PROVE  p = q
    BY DEF OneWindowWriter
  <2>1. ASSUME NEW w \in Invoicers \cup Aggregators, WritesWindows(w)
        PROVE  w \in held["billing"]
    <3>1. CASE w \in Invoicers
      BY <2>1, <3>1 DEF WritesWindows, IInv, InvoiceInv, LockInv
    <3>2. CASE w \in Aggregators
      <4>1. w \notin Invoicers /\ agg[w].rows # NoWindows
        BY <2>1, <3>2, ProcsAssumption DEF WritesWindows
      <4>2. PICK h \in Hours : agg[w].rows[h] # {}
        <5>1. agg[w].rows \in [Hours -> SUBSET Rids]
          BY <3>2 DEF IInv, TypeOK, AggTxn
        <5>. QED
          BY <4>1, <5>1 DEF NoWindows
      <4>. QED
        BY <3>2, <4>2 DEF IInv, WindowInv, LockInv
    <3>. QED
      BY <2>1, <3>1, <3>2
  <2>. QED
    BY <2>1 DEF IInv, LockInv
<1>. QED
  BY <1>1, Invariance, PTL

\* No step changes a sealed window.
THEOREM SealedForever == Spec => SealedWindowsFrozen
<1>. DEFINE Frozen == \A h \in Hours : window[h].sealed => window'[h] = window[h]
<1>1. IInv /\ [Next]_vars => [Frozen]_vars
  <2>. SUFFICES ASSUME IInv, Next, NEW h \in Hours, window[h].sealed
                PROVE  window'[h] = window[h]
    OBVIOUS
  <2>1. ASSUME NEW i \in Invoicers, InvoiceCommit(i)
        PROVE  window'[h] = window[h]
    <3>1. PeriodOf[h] # inv[i].period
      BY <2>1 DEF IInv, WindowInv, IsLate, InvoiceInv, InvoiceCommit, ComputedPc
    <3>2. Counted(i, h) = window[h].counted
      BY <2>1, <3>1, CountedExact DEF IInv, InvoiceCommit, ComputedPc
    <3>3. window'[h] = [counted |-> window[h].counted, sealed |-> TRUE]
      BY <2>1, <3>2 DEF InvoiceCommit, SealedAfter
    <3>. QED
      BY <3>3 DEF IInv, TypeOK, WindowRow
  <2>2. ASSUME NEW a \in Aggregators, AggregateCommit(a)
        PROVE  window'[h] = window[h]
    BY <2>2 DEF IInv, WindowInv, AggregateCommit
  <2>3. CASE UNCHANGED window
    BY <2>3
  <2>. QED
    BY <2>1, <2>2, <2>3
       DEF Next, IngestBegin, IngestStep, IngestAbort, IngestLock, IngestInsert,
           IngestCommit, InvoiceBegin, InvoiceStep, InvoiceAbort, InvoiceBillingLock,
           InvoiceSealLock, InvoiceExists, InvoiceReaggregate, InvoiceSumWindows,
           InvoiceSelectLate, InvoiceSelectCredits, AggregateScan, AggregateStep,
           AggregateAbort, AggregateLock, AggregateUpsert, IssueCredit
<1>. QED
  BY <1>1, Invariance, PTL DEF Spec, SealedWindowsFrozen

\* Only the commit of an invoice changes table invoice.
LEMMA InvoiceOnlyByCommit ==
  ASSUME Next, \A i \in Invoicers : ~InvoiceCommit(i)
  PROVE  UNCHANGED invoice
BY DEF Next, IngestBegin, IngestStep, IngestAbort, IngestLock, IngestInsert,
       IngestCommit, InvoiceBegin, InvoiceStep, InvoiceAbort, InvoiceBillingLock,
       InvoiceSealLock, InvoiceExists, InvoiceReaggregate, InvoiceSumWindows,
       InvoiceSelectLate, InvoiceSelectCredits, AggregateScan, AggregateStep,
       AggregateAbort, AggregateLock, AggregateUpsert, AggregateCommit, IssueCredit

\* The commit that issues an invoice leaves no earlier late event unadjusted.
THEOREM NoLateEventSkipped == Spec => LateNeverSkipped
<1>. DEFINE NotSkipped ==
       \A p \in Periods : invoice[p] = None /\ invoice'[p] # None =>
          \A r \in Rids : event'[r] # None /\ event'[r].late
                          /\ PeriodOf[event'[r].hour] < p => event'[r].adjusted
<1>1. IInv /\ [Next]_vars => [NotSkipped]_vars
  <2>. SUFFICES ASSUME IInv, Next, NEW p \in Periods, invoice[p] = None,
                       invoice'[p] # None, NEW r \in Rids, event'[r] # None,
                       event'[r].late, PeriodOf[event'[r].hour] < p
                PROVE  event'[r].adjusted
    OBVIOUS
  <2>. TypeOK /\ InvoiceInv
    BY DEF IInv
  <2>1. PICK i \in Invoicers : InvoiceCommit(i)
    BY InvoiceOnlyByCommit
  <2>2. inv[i].period = p
    BY <2>1 DEF InvoiceCommit, TypeOK
  <2>3. r \in Recorded
    BY <2>1 DEF InvoiceCommit, Recorded
  <2>4. event'[r].hour = event[r].hour /\ event'[r].late = event[r].late
    BY <2>1, <2>3, InvoiceCommitKeeps
  <2>5. event[r].adjusted \/ r \in LateEvents(p)
    BY <2>3, <2>4 DEF LateEvents, Recorded
  <2>. QED
    BY <2>1, <2>2, <2>3, <2>5, InvoiceCommitMarks
<1>. QED
  BY <1>1, Invariance, PTL DEF Spec, LateNeverSkipped

-----------------------------------------------------------------------------
(* Late events and the windows of an invoiced month                        *)

UnsealedLate ==
    \A h \in Hours, r \in Rids :
        r \in EventsIn(h) /\ PeriodOf[h] \in Issued /\ ~window[h].sealed => event[r].late

\* An event that is recorded in an invoiced month is flagged as late.
LEMMA IngestKeepsUnsealedLate ==
  ASSUME IInv, UnsealedLate, NEW i \in Ingesters, IngestCommit(i)
  PROVE  UnsealedLate'
<1>. SUFFICES ASSUME NEW h \in Hours, NEW r \in Rids, r \in EventsIn(h)',
                     PeriodOf[h] \in Issued', ~window'[h].sealed
              PROVE  event'[r].late
  BY DEF UnsealedLate
<1>1. PeriodOf[h] \in Issued /\ ~window[h].sealed
  BY DEF IngestCommit, Issued
<1>2. CASE ing[i].rows[r] # None
  <2>1. event'[r] = ing[i].rows[r]
    BY <1>2 DEF IngestCommit
  <2>2. ing[i].rows[r].late <=> IsLate(ing[i].rows[r].hour)
    BY <1>2 DEF IInv, IngestInv
  <2>3. ing[i].rows[r].hour = h
    BY <2>1 DEF EventsIn
  <2>. QED
    BY <1>1, <2>1, <2>2, <2>3 DEF IsLate, Issued
<1>3. CASE ing[i].rows[r] = None
  <2>1. event'[r] = event[r]
    BY <1>3 DEF IngestCommit
  <2>. QED
    BY <1>1, <2>1 DEF UnsealedLate, EventsIn
<1>. QED
  BY <1>2, <1>3

\* The commit of an invoice seals every hour of its month that has events.
LEMMA CommitKeepsUnsealedLate ==
  ASSUME IInv, UnsealedLate, NEW i \in Invoicers, InvoiceCommit(i)
  PROVE  UnsealedLate'
<1>. SUFFICES ASSUME NEW h \in Hours, NEW r \in Rids, r \in EventsIn(h)',
                     PeriodOf[h] \in Issued', ~window'[h].sealed
              PROVE  event'[r].late
  BY DEF UnsealedLate
<1>. TypeOK /\ WindowInv /\ InvoiceInv
  BY DEF IInv
<1>1. event[r] # None
  BY DEF InvoiceCommit, EventsIn
<1>2. event'[r].hour = event[r].hour /\ event'[r].late = event[r].late
  BY <1>1, InvoiceCommitKeeps DEF Recorded
<1>3. r \in EventsIn(h)
  BY <1>1, <1>2 DEF EventsIn
<1>4. ~SealedAfter(i, h)
  BY DEF InvoiceCommit
<1>5. PeriodOf[h] # inv[i].period
  BY <1>3, <1>4, CountedExact DEF SealedAfter, InvoiceCommit, ComputedPc
<1>6. PeriodOf[h] \in Issued
  BY <1>5 DEF InvoiceCommit, Issued
<1>. QED
  BY <1>2, <1>3, <1>4, <1>6 DEF UnsealedLate, SealedAfter

LEMMA NextUnsealedLate ==
  ASSUME IInv, UnsealedLate, [Next]_vars
  PROVE  UnsealedLate'
<1>1. ASSUME NEW i \in Ingesters, IngestCommit(i) PROVE UnsealedLate'
  BY <1>1, IngestKeepsUnsealedLate
<1>2. ASSUME NEW i \in Invoicers, InvoiceCommit(i) PROVE UnsealedLate'
  BY <1>2, CommitKeepsUnsealedLate
<1>3. ASSUME NEW a \in Aggregators, AggregateCommit(a) PROVE UnsealedLate'
  <2>1. /\ event' = event /\ invoice' = invoice
        /\ \A h \in Hours : window'[h].sealed = window[h].sealed
    BY <1>3 DEF AggregateCommit, IInv, TypeOK, WindowRow
  <2>. QED
    BY <2>1 DEF UnsealedLate, EventsIn, Issued
<1>4. CASE UNCHANGED <<event, window, invoice>>
  BY <1>4 DEF UnsealedLate, EventsIn, Issued
<1>. QED
  BY <1>1, <1>2, <1>3, <1>4
     DEF Next, IngestBegin, IngestStep, IngestAbort, IngestLock, IngestInsert,
         InvoiceBegin, InvoiceStep, InvoiceAbort, InvoiceBillingLock,
         InvoiceSealLock, InvoiceExists, InvoiceReaggregate, InvoiceSumWindows,
         InvoiceSelectLate, InvoiceSelectCredits, AggregateScan, AggregateStep,
         AggregateAbort, AggregateLock, AggregateUpsert, IssueCredit, vars

\* In an invoiced month late events alone are in unsealed windows or missing
\* from the sums that the drift detector compares.
THEOREM LateEventsExplainDrift == Spec => []LateExplainsDrift
<1>1. Init => UnsealedLate
  BY DEF Init, UnsealedLate, EventsIn, NoEvents
<1>2. IInv /\ UnsealedLate /\ [Next]_vars => UnsealedLate'
  BY NextUnsealedLate
<1>3. IInv /\ UnsealedLate => LateExplainsDrift
  <2>. SUFFICES ASSUME IInv, UnsealedLate PROVE LateExplainsDrift
    OBVIOUS
  <2>1. ASSUME NEW h \in Hours, PeriodOf[h] \in Issued, ~window[h].sealed,
               NEW r \in EventsIn(h)
        PROVE  event[r].late
    BY <2>1 DEF UnsealedLate, EventsIn
  <2>2. ASSUME NEW h \in Hours, window[h].sealed, NEW r \in EventsIn(h) \ window[h].counted
        PROVE  event[r].late
    BY <2>2 DEF IInv, SealedWindowsExact
  <2>. QED
    BY <2>1, <2>2 DEF LateExplainsDrift, WindowDrift
<1>. QED
  BY <1>1, <1>2, <1>3, Invariance, PTL DEF Spec

-----------------------------------------------------------------------------
(* Billing implements UsageLedger                                          *)

\* What the ledger says is due is what the invoicer's two queries return.
LEMMA DueIsSelected ==
  ASSUME IInv, NEW p \in Periods, p \notin Issued, NEW r \in Rids
  PROVE  r \in Ledger!Due(p) <=> r \in EventsOf(p) \cup LateEvents(p)
<1>1. r \in Ledger!Due(p) <=>
        /\ MonthOfEvent(r) # 0
        /\ ChargedOn(r) = {}
        /\ \/ MonthOfEvent(r) = p
           \/ MonthOfEvent(r) < p /\ MonthOfEvent(r) \in Issued
  BY DEF Ledger!Due
<1>2. CASE r \notin Recorded
  BY <1>1, <1>2 DEF MonthOfEvent, Recorded, EventsOf, LateEvents
<1>3. CASE r \in Recorded
  <2>. DEFINE m == PeriodOf[event[r].hour]
  <2>1. m \in Periods /\ MonthOfEvent(r) = m /\ m # 0
    BY <1>3, PeriodsAssumption
       DEF IInv, TypeOK, EventRow, Recorded, MonthOfEvent, Periods
  <2>2. /\ event[r].late => m \in Issued
        /\ m \in Issued => (event[r].late <=> r \notin invoice[m].usage)
        /\ event[r].adjusted <=> \E q \in Issued : r \in invoice[q].late
        /\ event[r].adjusted => event[r].late
    BY <1>3 DEF IInv, NeverLost
  <2>3. \A q \in Issued : r \in invoice[q].usage => q = m
    BY DEF IInv, NeverDoubleBilled
  <2>4. /\ r \in EventsOf(p) <=> m = p
        /\ r \in LateEvents(p) <=> event[r].late /\ ~event[r].adjusted /\ m < p
    BY <1>3 DEF EventsOf, LateEvents, Recorded
  <2>5. ChargedOn(r) = {} <=>
          \A q \in Issued : r \notin invoice[q].usage /\ r \notin invoice[q].late
    BY DEF ChargedOn
  <2>. HIDE DEF m
  <2>6. ChargedOn(r) = {} <=> ~event[r].adjusted /\ (m \in Issued => event[r].late)
    BY <2>2, <2>3, <2>5
  <2>7. m = p => m \notin Issued
    OBVIOUS
  <2>. QED
    BY <1>1, <2>1, <2>2, <2>4, <2>6, <2>7
<1>. QED
  BY <1>2, <1>3

LEMMA CommitIngestRecords ==
  ASSUME IInv, NEW i \in Ingesters, IngestCommit(i), TypeOK'
  PROVE  Ledger!Record
<1>1. UNCHANGED invoice
  BY DEF IngestCommit
<1>2. Issued' = Issued /\ \A r \in Rids : ChargedOn(r)' = ChargedOn(r)
  BY <1>1 DEF Issued, ChargedOn
<1>3. \A r \in Recorded : event'[r] = event[r]
  BY IngestCommitEffect DEF IInv
<1>4. \A r \in Rids : MonthOfEvent(r)' \in 0 .. NumPeriods
  BY PeriodsAssumption DEF MonthOfEvent, TypeOK, EventRow, Periods
<1>5. \A r \in Rids : MonthOfEvent(r) # 0 => MonthOfEvent(r)' = MonthOfEvent(r)
  BY <1>3, NoneAssumption DEF MonthOfEvent, Recorded
<1>. QED
  BY <1>2, <1>4, <1>5 DEF Ledger!Record

LEMMA CommitInvoiceIssues ==
  ASSUME IInv, NEW i \in Invoicers, InvoiceCommit(i), NEW p, p = inv[i].period
  PROVE  p \in Periods /\ Ledger!Issue(p)
<1>. TypeOK /\ InvoiceInv
  BY DEF IInv
<1>1. p \in Periods /\ invoice[p] = None /\ p \notin Issued
  <2>1. p \in Periods /\ invoice[p] = None
    BY InvoiceCommitEffect
  <2>. QED
    BY <2>1 DEF Issued
<1>2. Issued' = Issued \cup {p} /\ Recorded' = Recorded
  BY InvoiceCommitEffect
<1>3. invoice'[p].usage = EventsOf(p) /\ invoice'[p].late = LateEvents(p)
  <2>1. /\ invoice'[p] = [usage |-> inv[i].usage, late |-> inv[i].late,
                          credits |-> inv[i].credits]
        /\ inv[i].usage = EventsOf(p) /\ inv[i].late = LateEvents(p)
    BY InvoiceCommitEffect
  <2>. QED
    BY <2>1
<1>4. \A q \in Issued : invoice'[q] = invoice[q]
  BY <1>1 DEF InvoiceCommit, TypeOK, Issued
<1>5. ASSUME NEW r \in Rids
      PROVE  ChargedOn(r)' = IF r \in Ledger!Due(p) THEN {p} ELSE ChargedOn(r)
  <2>1. r \in Ledger!Due(p) <=> r \in EventsOf(p) \cup LateEvents(p)
    BY <1>1, DueIsSelected
  <2>2. \A q : q \in ChargedOn(r)' <=>
               \/ q \in ChargedOn(r)
               \/ q = p /\ r \in EventsOf(p) \cup LateEvents(p)
    BY <1>1, <1>2, <1>3, <1>4 DEF ChargedOn
  <2>3. r \in Ledger!Due(p) => ChargedOn(r) = {}
    BY DEF Ledger!Due
  <2>. QED
    BY <2>1, <2>2, <2>3
<1>6. ASSUME NEW r \in Rids
      PROVE  MonthOfEvent(r)' = MonthOfEvent(r)
  <2>1. CASE r \in Recorded
    <3>1. event'[r].hour = event[r].hour
      BY <2>1, InvoiceCommitKeeps
    <3>. QED
      BY <1>2, <2>1, <3>1 DEF MonthOfEvent, Recorded
  <2>2. CASE r \notin Recorded
    BY <1>2, <2>2 DEF MonthOfEvent, Recorded
  <2>. QED
    BY <2>1, <2>2
<1>. QED
  BY <1>1, <1>2, <1>5, <1>6 DEF Ledger!Issue

\* Steps other than these two commits change neither events nor invoices.
LEMMA OtherStepsStutter ==
  ASSUME Next, \A i \in Ingesters : ~IngestCommit(i),
         \A i \in Invoicers : ~InvoiceCommit(i)
  PROVE  UNCHANGED <<event, invoice>>
BY DEF Next, IngestBegin, IngestStep, IngestAbort, IngestLock, IngestInsert,
       InvoiceBegin, InvoiceStep, InvoiceAbort, InvoiceBillingLock,
       InvoiceSealLock, InvoiceExists, InvoiceReaggregate, InvoiceSumWindows,
       InvoiceSelectLate, InvoiceSelectCredits, AggregateScan, AggregateStep,
       AggregateAbort, AggregateLock, AggregateUpsert, AggregateCommit, IssueCredit

\* The concurrent pipeline implements the ledger: every interleaving of its
\* transactions looks like recording batches and issuing invoices one at a time.
THEOREM ImplementsLedger == Spec => LedgerSpec
<1>1. Init => Ledger!Init
  BY DEF Init, Ledger!Init, MonthOfEvent, ChargedOn, Issued, NoEvents
<1>2. IInv /\ IInv' /\ [Next]_vars => [Ledger!Next]_(Ledger!ledger)
  <2>. SUFFICES ASSUME IInv, IInv', [Next]_vars
                PROVE  Ledger!Next \/ UNCHANGED Ledger!ledger
    OBVIOUS
  <2>1. ASSUME NEW i \in Ingesters, IngestCommit(i)
        PROVE  Ledger!Next
    BY <2>1, CommitIngestRecords DEF IInv, Ledger!Next
  <2>2. ASSUME NEW i \in Invoicers, InvoiceCommit(i)
        PROVE  Ledger!Next
    <3>. PICK p : p = inv[i].period
      OBVIOUS
    <3>. QED
      BY <2>2, CommitInvoiceIssues DEF Ledger!Next, Ledger!Months, Periods
  <2>3. CASE UNCHANGED <<event, invoice>>
    <3>1. Issued' = Issued
      BY <2>3 DEF Issued
    <3>2. \A r \in Rids : ChargedOn(r)' = ChargedOn(r) /\ MonthOfEvent(r)' = MonthOfEvent(r)
      BY <2>3 DEF ChargedOn, Issued, MonthOfEvent
    <3>. QED
      BY <3>1, <3>2 DEF Ledger!ledger
  <2>. QED
    BY <2>1, <2>2, <2>3, OtherStepsStutter DEF vars
<1>. QED
  BY <1>1, <1>2, Invariance, PTL DEF Spec, LedgerSpec, Ledger!Spec
-----------------------------------------------------------------------------
(* No deadlock: the queues of the advisory locks are ordered, and what a   *)
(* process waits for is ahead of it in its queue or at a later point.      *)

\* A process that is idle asks for a lock.
LEMMA AskQueueInv ==
  ASSUME TypeOK, QueueInv, NEW p \in Procs, NEW l \in {"seal", "billing"},
         pc[p] = "idle", Request(p, l),
         held'["seal"] = held["seal"], held'["billing"] = held["billing"]
  PROVE  QueueInv'
<1>1. /\ ahead[p] = {} /\ p \notin held["seal"] /\ p \notin held["billing"]
      /\ \A q \in Procs : p \notin ahead[q]
  BY DEF QueueInv, WorkPc, ComputedPc
<1>2. /\ pc'[p] = WaitPc(l) /\ ahead'[p] = Queued(l)
      /\ \A q \in Procs \ {p} : pc'[q] = pc[q] /\ ahead'[q] = ahead[q]
  BY DEF Request, TypeOK
<1>3. \A x \in held'["seal"] : pc'[x] \in WorkPc
  BY <1>1, <1>2 DEF QueueInv, TypeOK, LockNames
<1>4. \A x \in held'["billing"] : pc'[x] \in {"waitSeal"} \cup WorkPc
  BY <1>1, <1>2 DEF QueueInv, TypeOK, LockNames
<1>5. \A x \in Procs : ahead'[x] # {} => pc'[x] \in {"waitSeal", "waitBilling"}
  BY <1>1, <1>2 DEF QueueInv, WaitPc
<1>6. ASSUME NEW x \in Procs, NEW q \in ahead'[x]
      PROVE  pc'[q] = pc'[x] /\ ahead'[q] \subseteq ahead'[x] /\ q \notin ahead'[q]
  <2>1. CASE x = p
    <3>1. q \in Procs \ {p} /\ pc[q] = WaitPc(l)
      BY <1>2, <1>6, <2>1 DEF Queued, WaitPc
    <3>2. ahead[q] \subseteq Queued(l) /\ q \notin ahead[q]
      BY <3>1 DEF Queued, QueueInv, TypeOK
    <3> QED
      BY <1>2, <2>1, <3>1, <3>2
  <2>2. CASE x # p
    <3>1. q \in ahead[x] /\ q \in Procs \ {p}
      BY <1>1, <1>2, <1>6, <2>2 DEF TypeOK
    <3> QED
      BY <1>2, <2>2, <3>1 DEF QueueInv
  <2> QED
    BY <2>1, <2>2
<1> QED
  BY <1>3, <1>4, <1>5, <1>6 DEF QueueInv

\* The lock is granted to the process at the head of its queue, which goes to work.
LEMMA GrantQueueInv ==
  ASSUME TypeOK, QueueInv, NEW p \in Procs, NEW l \in {"seal", "billing"},
         Grantable(p, l), pc' = [pc EXCEPT ![p] = "locked"],
         held' = [held EXCEPT ![l] = @ \cup {p}],
         ahead' = [q \in Procs |-> ahead[q] \ {p}]
  PROVE  QueueInv'
<1>1. /\ pc'[p] = "locked" /\ ahead[p] = {}
      /\ \A q \in Procs \ {p} : pc'[q] = pc[q]
      /\ \A q \in Procs : ahead'[q] = ahead[q] \ {p}
      /\ \A m \in LockNames : held'[m] \subseteq held[m] \cup {p} /\ held[m] \subseteq Procs
  BY DEF Grantable, TypeOK, LockNames
<1>2. \A x \in held'["seal"] : pc'[x] \in WorkPc
  BY <1>1 DEF QueueInv, LockNames, WorkPc
<1>3. \A x \in held'["billing"] : pc'[x] \in {"waitSeal"} \cup WorkPc
  BY <1>1 DEF QueueInv, LockNames, WorkPc
<1>4. \A x \in Procs : ahead'[x] # {} => pc'[x] \in {"waitSeal", "waitBilling"}
  BY <1>1 DEF QueueInv
<1>5. ASSUME NEW x \in Procs, NEW q \in ahead'[x]
      PROVE  pc'[q] = pc'[x] /\ ahead'[q] \subseteq ahead'[x] /\ q \notin ahead'[q]
  <2>1. q \in ahead[x] /\ x # p /\ q \in Procs \ {p}
    BY <1>1, <1>5 DEF TypeOK
  <2> QED
    BY <1>1, <2>1 DEF QueueInv
<1> QED
  BY <1>2, <1>3, <1>4, <1>5 DEF QueueInv

\* The invoicer is granted the billing lock and joins the queue of the seal lock.
LEMMA BillingLockQueueInv ==
  ASSUME TypeOK, QueueInv, NEW p \in Invoicers, InvoiceBillingLock(p)
  PROVE  QueueInv'
<1>1. /\ p \in Procs /\ pc[p] = "waitBilling" /\ pc'[p] = "waitSeal"
      /\ ahead'[p] = Queued("seal")
      /\ \A q \in Procs \ {p} : pc'[q] = pc[q] /\ ahead'[q] = ahead[q] \ {p}
      /\ held'["seal"] = held["seal"] /\ held'["billing"] = held["billing"] \cup {p}
      /\ \A m \in LockNames : held[m] \subseteq Procs
  BY DEF InvoiceBillingLock, Grantable, WaitPc, TypeOK, Procs, LockNames
<1>2. \A x \in held'["seal"] : pc'[x] \in WorkPc
  BY <1>1 DEF QueueInv, LockNames, WorkPc, ComputedPc
<1>3. \A x \in held'["billing"] : pc'[x] \in {"waitSeal"} \cup WorkPc
  BY <1>1 DEF QueueInv, LockNames
<1>4. \A x \in Procs : ahead'[x] # {} => pc'[x] \in {"waitSeal", "waitBilling"}
  BY <1>1 DEF QueueInv
<1>5. ASSUME NEW x \in Procs, NEW q \in ahead'[x]
      PROVE  pc'[q] = pc'[x] /\ ahead'[q] \subseteq ahead'[x] /\ q \notin ahead'[q]
  <2>1. CASE x = p
    <3>1. q \in Procs \ {p} /\ pc[q] = "waitSeal"
      BY <1>1, <1>5, <2>1 DEF Queued, WaitPc
    <3>2. ahead[q] \subseteq Queued("seal") /\ q \notin ahead[q]
      BY <3>1 DEF Queued, WaitPc, QueueInv, TypeOK
    <3> QED
      BY <1>1, <2>1, <3>1, <3>2
  <2>2. CASE x # p
    <3>1. q \in ahead[x] /\ q \in Procs \ {p}
      BY <1>1, <1>5, <2>2 DEF TypeOK
    <3> QED
      BY <1>1, <2>2, <3>1 DEF QueueInv
  <2> QED
    BY <2>1, <2>2
<1> QED
  BY <1>2, <1>3, <1>4, <1>5 DEF QueueInv

\* A statement of a process at work.
LEMMA WorkQueueInv ==
  ASSUME TypeOK, QueueInv, NEW p \in Procs, NEW s \in WorkPc, pc[p] \in WorkPc,
         pc' = [pc EXCEPT ![p] = s], UNCHANGED <<held, ahead>>
  PROVE  QueueInv'
<1>1. /\ pc'[p] \in WorkPc /\ \A q \in Procs \ {p} : pc'[q] = pc[q]
      /\ ahead[p] = {} /\ \A q \in Procs : p \notin ahead[q]
      /\ held["seal"] \subseteq Procs /\ held["billing"] \subseteq Procs
  BY DEF TypeOK, QueueInv, WorkPc, ComputedPc, LockNames
<1>2. \A x \in Procs : ahead[x] \subseteq Procs
  BY DEF TypeOK
<1> QED
  BY <1>1, <1>2 DEF QueueInv

\* The end of a transaction.
LEMMA ReleaseQueueInv ==
  ASSUME TypeOK, QueueInv, NEW p \in Procs, ReleaseAll(p)
  PROVE  QueueInv'
<1>1. /\ pc'[p] = "idle" /\ \A q \in Procs \ {p} : pc'[q] = pc[q]
      /\ ahead'[p] = {} /\ \A q \in Procs \ {p} : ahead'[q] = ahead[q] \ {p}
      /\ \A m \in LockNames : held'[m] = held[m] \ {p} /\ held[m] \subseteq Procs
  BY DEF ReleaseAll, TypeOK
<1>2. ASSUME NEW x \in Procs, NEW q \in ahead'[x]
      PROVE  pc'[q] = pc'[x] /\ ahead'[q] \subseteq ahead'[x] /\ q \notin ahead'[q]
  <2>1. q \in ahead[x] /\ x # p /\ q \in Procs \ {p}
    BY <1>1, <1>2 DEF TypeOK
  <2> QED
    BY <1>1, <2>1 DEF QueueInv
<1> QED
  BY <1>1, <1>2 DEF QueueInv, LockNames

LEMMA NextQueueInv == IInv /\ QueueInv /\ [Next]_vars => QueueInv'
<1> SUFFICES ASSUME IInv, QueueInv, [Next]_vars PROVE QueueInv'
  OBVIOUS
<1> TypeOK
  BY DEF IInv
<1>1. ASSUME NEW i \in Ingesters, IngestBegin(i) \/ IngestStep(i) \/ IngestAbort(i)
      PROVE  QueueInv'
  <2> i \in Procs
    BY DEF Procs
  <2>1. CASE IngestBegin(i)
    BY <2>1, AskQueueInv DEF IngestBegin
  <2>2. CASE IngestLock(i)
    BY <2>2, GrantQueueInv DEF IngestLock
  <2>3. CASE IngestInsert(i)
    BY <2>3, WorkQueueInv DEF IngestInsert, WorkPc
  <2>4. CASE IngestCommit(i) \/ IngestAbort(i)
    BY <2>4, ReleaseQueueInv DEF IngestCommit, IngestAbort
  <2> QED
    BY <1>1, <2>1, <2>2, <2>3, <2>4 DEF IngestStep
<1>2. ASSUME NEW i \in Invoicers, InvoiceBegin(i) \/ InvoiceStep(i) \/ InvoiceAbort(i)
      PROVE  QueueInv'
  <2> i \in Procs
    BY DEF Procs
  <2>1. CASE InvoiceBegin(i)
    BY <2>1, AskQueueInv DEF InvoiceBegin
  <2>2. CASE InvoiceBillingLock(i)
    BY <2>2, BillingLockQueueInv
  <2>3. CASE InvoiceSealLock(i)
    BY <2>3, GrantQueueInv DEF InvoiceSealLock
  <2>4. CASE InvoiceReaggregate(i) \/ InvoiceSumWindows(i) \/ InvoiceSelectLate(i)
             \/ InvoiceSelectCredits(i)
    BY <2>4, WorkQueueInv
       DEF InvoiceReaggregate, InvoiceSumWindows, InvoiceSelectLate,
           InvoiceSelectCredits, WorkPc, ComputedPc
  <2>5. CASE InvoiceExists(i) \/ InvoiceCommit(i) \/ InvoiceAbort(i)
    BY <2>5, ReleaseQueueInv DEF InvoiceExists, InvoiceCommit, InvoiceAbort
  <2> QED
    BY <1>2, <2>1, <2>2, <2>3, <2>4, <2>5 DEF InvoiceStep
<1>3. ASSUME NEW a \in Aggregators,
             AggregateScan(a) \/ AggregateStep(a) \/ AggregateAbort(a)
      PROVE  QueueInv'
  <2> a \in Procs
    BY DEF Procs
  <2>1. CASE AggregateScan(a)
    <3>1. held'["seal"] = held["seal"] /\ held'["billing"] = held["billing"]
      BY <2>1 DEF AggregateScan, TypeOK, LockNames
    <3> QED
      BY <2>1, <3>1, AskQueueInv DEF AggregateScan
  <2>2. CASE AggregateLock(a)
    BY <2>2, GrantQueueInv DEF AggregateLock
  <2>3. CASE AggregateUpsert(a)
    BY <2>3, WorkQueueInv DEF AggregateUpsert, WorkPc
  <2>4. CASE AggregateCommit(a) \/ AggregateAbort(a)
    BY <2>4, ReleaseQueueInv DEF AggregateCommit, AggregateAbort
  <2> QED
    BY <1>3, <2>1, <2>2, <2>3, <2>4 DEF AggregateStep
<1>4. CASE (\E c \in Credits : IssueCredit(c)) \/ UNCHANGED vars
  BY <1>4 DEF IssueCredit, vars, QueueInv
<1> QED
  BY <1>1, <1>2, <1>3, <1>4 DEF Next

\* Of finitely many processes in a queue one is before all the others: the one
\* with the fewest of them ahead of it.
LEMMA FirstInLine ==
  ASSUME TypeOK, QueueInv, NEW W \in SUBSET Procs, IsFiniteSet(W), W # {}
  PROVE  \E p \in W : ahead[p] \cap W = {}
<1> DEFINE Before(p) == ahead[p] \cap W
           T == {Cardinality(Before(p)) : p \in W}
<1>1. \A p \in W : IsFiniteSet(Before(p)) /\ Cardinality(Before(p)) \in Nat
  BY FS_Subset, FS_CardinalityType
<1>2. PICK n \in T : \A m \in T : n <= m
  <2>1. T \subseteq Nat /\ T # {}
    BY <1>1
  <2> HIDE DEF T
  <2> QED
    BY <2>1, NatMin
<1>3. PICK p \in W : n = Cardinality(Before(p))
  BY <1>2
<1>4. ASSUME NEW q \in Before(p)
      PROVE  FALSE
  <2>1. q \in W /\ q \in ahead[p]
    BY <1>4
  <2>2. Before(q) \subseteq Before(p) /\ q \notin Before(q) /\ Before(q) # Before(p)
    BY <1>3, <1>4, <2>1 DEF QueueInv
  <2>3. Cardinality(Before(q)) < Cardinality(Before(p))
    BY <1>1, <1>3, <2>2, FS_Subset
  <2>4. Cardinality(Before(p)) <= Cardinality(Before(q))
    BY <1>2, <1>3, <2>1
  <2> HIDE DEF Before
  <2> QED
    BY <1>1, <1>3, <2>1, <2>3, <2>4
<1> QED
  BY <1>3, <1>4

LEMMA QueuesAreServed == IInv /\ QueueInv => NoDeadlock
<1> SUFFICES ASSUME IInv, QueueInv, NEW D \in SUBSET Procs, IsFiniteSet(D), D # {}
             PROVE  \E p \in D : \A q \in D : ~ Waits(p, q)
  BY DEF NoDeadlock
<1> TypeOK /\ IngestInv
  BY DEF IInv
<1>1. CASE \E p \in D : pc[p] \notin {"waitSeal", "waitBilling", "locked"}
  BY <1>1 DEF Waits, WaitPc
<1>2. CASE /\ \A p \in D : pc[p] \in {"waitSeal", "waitBilling", "locked"}
           /\ \E p \in D : pc[p] = "locked"
  BY <1>2 DEF Waits, WaitPc, IngestInv
<1>3. ASSUME NEW l \in {"seal", "billing"}, \E p \in D : pc[p] = WaitPc(l),
             \A p \in D : pc[p] \in {"waitSeal", "waitBilling"},
             \A q \in D : q \notin held[l]
      PROVE  \E p \in D : \A q \in D : ~ Waits(p, q)
  <2> DEFINE W == {p \in D : pc[p] = WaitPc(l)}
  <2>1. W \in SUBSET Procs /\ IsFiniteSet(W) /\ W # {}
    BY <1>3, FS_Subset
  <2>2. PICK p \in W : ahead[p] \cap W = {}
    <3> HIDE DEF W
    <3> QED
      BY <2>1, FirstInLine
  <2>3. ASSUME NEW q \in D, Waits(p, q)
        PROVE  FALSE
    <3>1. q \in ahead[p] \/ q \in held[l]
      BY <1>3, <2>2, <2>3 DEF Waits, WaitPc
    <3>2. q \notin ahead[p]
      BY <2>2, <2>3 DEF QueueInv
    <3> QED
      BY <1>3, <2>3, <3>1, <3>2
  <2> QED
    BY <2>2, <2>3
<1>4. CASE /\ \A p \in D : pc[p] \in {"waitSeal", "waitBilling"}
           /\ \E p \in D : pc[p] = "waitSeal"
  <2>1. \A q \in D : q \notin held["seal"]
    BY <1>4 DEF QueueInv, WorkPc, ComputedPc
  <2> QED
    BY <1>3, <1>4, <2>1 DEF WaitPc
<1>5. CASE \A p \in D : pc[p] = "waitBilling"
  <2>1. \A q \in D : q \notin held["billing"]
    BY <1>5 DEF QueueInv, WorkPc, ComputedPc
  <2> QED
    BY <1>3, <1>5, <2>1 DEF WaitPc
<1> QED
  BY <1>1, <1>2, <1>4, <1>5

\* Ingesters, invoicers and aggregators never wait for one another in a circle, in
\* whatever order they queue for the two locks that invoicers take together.
THEOREM NoCircularWait == Spec => []NoDeadlock
<1>1. Init => QueueInv
  BY DEF Init, QueueInv, LockNames
<1> QED
  BY <1>1, InitIInv, NextIInv, NextQueueInv, QueuesAreServed, PTL DEF Spec
=============================================================================
