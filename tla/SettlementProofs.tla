-------------------------- MODULE SettlementProofs ---------------------------
(***************************************************************************)
(* Safety of Settlement for any number of invoices, lines, requests,       *)
(* deliveries and workers.  First what a total depends on and what         *)
(* appending to the audit log does, then the inductive invariant one part  *)
(* at a time, then the properties.                                         *)
(***************************************************************************)
EXTENDS SettlementRefinement, SumLemmas, SequenceTheorems, TLAPS

\* The total of an invoice depends on its own lines only.
LEMMA TotalOfOwnLines ==
    ASSUME NEW i, NEW f, NEW g, \A l \in LinesOf(i) : f[l] = g[l]
    PROVE  TotalOf(i, f) = TotalOf(i, g)
<1>1. [l \in LinesOf(i) |-> f[l]] = [l \in LinesOf(i) |-> g[l]]
  OBVIOUS
<1> QED
  BY <1>1 DEF TotalOf, LineSum

LEMMA TotalAfterOverride ==
    ASSUME NEW i, NEW r, NEW f \in [Lines -> Int], NEW g \in [Lines -> Int],
           \A k \in LinesOf(i) : f[k] = g[k]
    PROVE  TotalOf(i, Overridden(f, r)) = TotalOf(i, Overridden(g, r))
<1>1. \A k \in LinesOf(i) : Overridden(f, r)[k] = Overridden(g, r)[k]
  BY DEF LinesOf, Overridden
<1> QED
  BY <1>1, TotalOfOwnLines

\* A sequence is one over its own elements, also after an Append.
LEMMA AppendRange ==
    ASSUME NEW s, s \in Seq(Range(s)), NEW e
    PROVE  /\ Append(s, e) \in Seq(Range(Append(s, e)))
           /\ Len(Append(s, e)) = Len(s) + 1
           /\ Len(s) \in Nat
           /\ \A n \in 1 .. Len(s) : Append(s, e)[n] = s[n]
           /\ Append(s, e)[Len(s) + 1] = e
<1> DEFINE S == Range(s) \cup {e}
           t == Append(s, e)
<1>1. s \in Seq(S)
  BY SeqMonotonic
<1>2. /\ t \in Seq(S) /\ Len(t) = Len(s) + 1
      /\ \A n \in 1 .. Len(s) : t[n] = s[n]
      /\ t[Len(s) + 1] = e
  BY <1>1, AppendProperties
<1>3. Len(s) \in Nat /\ Len(t) \in Nat
  BY <1>1, <1>2, LenProperties
<1> HIDE DEF S, t
<1>4. t \in [1 .. Len(t) -> S]
  BY <1>2, LenProperties
<1>5. t \in [1 .. Len(t) -> Range(t)]
  BY <1>4 DEF Range
<1>6. t \in Seq(Range(t))
  BY <1>3, <1>5
<1> QED
  BY <1>2, <1>3, <1>6 DEF t
-----------------------------------------------------------------------------
(* Frames: what a step of one worker leaves to the others                  *)

StaffStep(s) == OverrideBegin(s) \/ OverrideStep(s) \/ OverrideAbort(s)
HookAct(h) == HookReceive(h) \/ HookStep(h) \/ HookAbort(h)

\* What a request and a report name exists.
LEMMA RequestFields ==
  ASSUME NEW r \in Requests
  PROVE  /\ r \in Request /\ r # None
         /\ r.invoice \in Invoices /\ r.line \in Lines /\ r.amount \in Int
         /\ r.invoice \in Rows /\ r.line \in Rows
BY InputsAssumption, NoneAssumption DEF Request, Rows

\* A worker takes only free locks and gives up only its own.
LocksOfOthers(w) ==
  \A x \in Rows, v \in Workers \ {w} :
      (rowLock[x] = v => rowLock'[x] = v) /\ (rowLock'[x] = v => rowLock[x] = v)

LEMMA FinishLocks ==
  ASSUME Shape, NEW w \in Workers, Finish(w)
  PROVE  /\ rowLock' \in [Rows -> Workers \cup {None}]
         /\ pc' \in [Workers -> PcValues]
         /\ pc'[w] = "idle" /\ \A v \in Workers \ {w} : pc'[v] = pc[v]
         /\ LocksOfOthers(w)
BY NoneAssumption DEF Shape, Finish, Unlocked, PcValues, LocksOfOthers

LEMMA TakeLock ==
  ASSUME Shape, NEW w \in Workers, NEW x \in Rows, RowFree(x),
         rowLock' = [rowLock EXCEPT ![x] = w]
  PROVE  /\ rowLock' \in [Rows -> Workers \cup {None}]
         /\ rowLock'[x] = w
         /\ \A y \in Rows : rowLock[y] = w => rowLock'[y] = w
         /\ LocksOfOthers(w)
BY NoneAssumption DEF Shape, RowFree, LocksOfOthers

\* A worker moves on without touching locks.
LEMMA MoveOn ==
  ASSUME Shape, NEW w \in Workers, NEW v \in PcValues,
         pc' = [pc EXCEPT ![w] = v]
  PROVE  /\ pc' \in [Workers -> PcValues]
         /\ pc'[w] = v /\ \A u \in Workers \ {w} : pc'[u] = pc[u]
BY DEF Shape

\* The locals of a worker after an EXCEPT.
LEMMA ReqRecord ==
  ASSUME Shape, NEW s \in Staff
  PROVE  /\ DOMAIN req = Staff
         /\ req[s] = [request |-> req[s].request, before |-> req[s].before,
                      total |-> req[s].total]
BY DEF Shape

LEMMA HookRecord ==
  ASSUME Shape, NEW h \in Hooks
  PROVE  /\ DOMAIN hook = Hooks
         /\ hook[h] = [delivery |-> hook[h].delivery, status |-> hook[h].status,
                       total |-> hook[h].total]
BY DEF Shape

\* An override keeps what it knows while nobody changes what it has locked.
LEMMA OverrideFrame ==
  ASSUME NEW s \in Staff, OverrideKnows(s), Shape, line' \in [Lines -> Int],
         pc'[s] = pc[s], req'[s] = req[s],
         \A x \in Rows : rowLock[x] = s => rowLock'[x] = s,
         \A i \in Invoices : rowLock[i] = s =>
            /\ invoice'[i].status = invoice[i].status
            /\ \A l \in LinesOf(i) : line'[l] = line[l]
  PROVE  OverrideKnows(s)'
<1> DEFINE r == req[s].request
<1>1. CASE pc[s] = "idle"
  BY <1>1 DEF OverrideKnows, BothLocked
<1>2. CASE pc[s] # "idle"
  <2>1. /\ r \in Requests /\ r.invoice \in Invoices /\ r.line \in Lines
        /\ r.invoice \in Rows /\ r.line \in Rows
    BY <1>2, RequestFields DEF OverrideKnows
  <2>2. CASE pc[s] \notin BothLocked
    BY <2>1, <2>2 DEF OverrideKnows, BothLocked
  <2>3. CASE pc[s] \in BothLocked
    <3>1. /\ rowLock[r.invoice] = s /\ InvoiceOf[r.line] = r.invoice
          /\ r.line \in LinesOf(r.invoice)
      BY <2>1, <2>3 DEF OverrideKnows, LinesOf
    <3>2. \A l \in LinesOf(r.invoice) : line'[l] = line[l]
      BY <2>1, <3>1
    <3>3. TotalOf(r.invoice, Overridden(line', r))
            = TotalOf(r.invoice, Overridden(line, r))
      <4>1. line \in [Lines -> Int]
        BY DEF Shape
      <4> HIDE DEF r
      <4> QED
        BY <3>2, <4>1, TotalAfterOverride
    <3>4. line'[r.line] = line[r.line]
      BY <3>1, <3>2
    <3> QED
      BY <2>1, <2>3, <3>1, <3>3, <3>4 DEF OverrideKnows, BothLocked
  <2> QED
    BY <2>2, <2>3
<1> QED
  BY <1>1, <1>2

\* A webhook worker keeps what it knows while nobody changes what it has locked.
LEMMA HookFrame ==
  ASSUME NEW h \in Hooks, HookKnows(h), Shape,
         pc'[h] = pc[h], hook'[h] = hook[h],
         pc[h] \in Processing => delivery'[hook[h].delivery] = delivery[hook[h].delivery],
         \A d \in Deliveries : sent[d] # None => sent'[d] = sent[d],
         \A x \in Rows : rowLock[x] = h => rowLock'[x] = h,
         \A i \in Invoices : rowLock[i] = h =>
            /\ invoice'[i].status = invoice[i].status
            /\ invoice'[i].total = invoice[i].total
  PROVE  HookKnows(h)'
<1> DEFINE d == hook[h].delivery
<1>1. CASE pc[h] = "idle"
  BY <1>1 DEF HookKnows, Processing
<1>2. CASE pc[h] # "idle"
  <2>1. d \in Deliveries /\ sent[d] # None /\ sent'[d] = sent[d]
    BY <1>2 DEF HookKnows
  <2>2. CASE pc[h] # "locked"
    BY <2>1, <2>2, <1>2 DEF HookKnows, Processing
  <2>3. CASE pc[h] = "locked"
    <3>1. sent[d].invoice \in Invoices /\ rowLock[sent[d].invoice] = h
          /\ sent[d].invoice \in Rows
      BY <2>3 DEF HookKnows, Rows
    <3> QED
      BY <2>1, <2>3, <3>1 DEF HookKnows, Processing
  <2> QED
    BY <2>2, <2>3
<1> QED
  BY <1>1, <1>2
-----------------------------------------------------------------------------
(* Overrides                                                               *)

ReqShape == req = [s \in Staff |-> [request |-> req[s].request, before |-> req[s].before,
                                    total |-> req[s].total]]

StaffLeaves(s) ==
  /\ \A v \in Workers \ {s} : pc'[v] = pc[v]
  /\ \A t \in Staff \ {s} : req'[t] = req[t]
  /\ LocksOfOthers(s)
  /\ \A i \in Invoices : rowLock[i] # s =>
        invoice'[i] = invoice[i] /\ \A l \in LinesOf(i) : line'[l] = line[l]
  /\ \A i \in Invoices : /\ invoice'[i].status = invoice[i].status
                         /\ invoice'[i].paidBy = invoice[i].paidBy
  /\ UNCHANGED <<payments, delivery, external, hook, watch>>

StaffKeeps(s) == Shape' /\ StaffLeaves(s) /\ OverrideKnows(s)'

\* A worker that writes one of its locals keeps the others.
LEMMA BeforeWritten ==
  ASSUME ReqShape, NEW s \in Staff, NEW v, req' = [req EXCEPT ![s].before = v]
  PROVE  /\ ReqShape' /\ req'[s].request = req[s].request /\ req'[s].before = v
         /\ \A t \in Staff \ {s} : req'[t] = req[t]
<1>1. /\ DOMAIN req' = Staff
      /\ req'[s] = [request |-> req[s].request, before |-> v, total |-> req[s].total]
      /\ \A t \in Staff \ {s} : req'[t] = req[t]
  BY DEF ReqShape
<1>2. \A t \in Staff : req'[t] = [request |-> req'[t].request, before |-> req'[t].before,
                                  total |-> req'[t].total]
  BY <1>1 DEF ReqShape
<1> QED
  BY <1>1, <1>2 DEF ReqShape

LEMMA TotalWritten ==
  ASSUME ReqShape, NEW s \in Staff, NEW v, req' = [req EXCEPT ![s].total = v]
  PROVE  /\ ReqShape' /\ req'[s].request = req[s].request
         /\ req'[s].before = req[s].before /\ req'[s].total = v
         /\ \A t \in Staff \ {s} : req'[t] = req[t]
<1>1. /\ DOMAIN req' = Staff
      /\ req'[s] = [request |-> req[s].request, before |-> req[s].before, total |-> v]
      /\ \A t \in Staff \ {s} : req'[t] = req[t]
  BY DEF ReqShape
<1>2. \A t \in Staff : req'[t] = [request |-> req'[t].request, before |-> req'[t].before,
                                  total |-> req'[t].total]
  BY <1>1 DEF ReqShape
<1> QED
  BY <1>1, <1>2 DEF ReqShape

InvoiceShape == invoice = [i \in Invoices |-> [status |-> invoice[i].status,
                                               total |-> invoice[i].total,
                                               paidBy |-> invoice[i].paidBy]]

\* A write of the total of an invoice keeps its other columns.
LEMMA InvoiceTotalWritten ==
  ASSUME InvoiceShape, NEW a \in Invoices, NEW v, invoice' = [invoice EXCEPT ![a].total = v]
  PROVE  /\ InvoiceShape'
         /\ invoice'[a].total = v
         /\ \A i \in Invoices : /\ invoice'[i].status = invoice[i].status
                                /\ invoice'[i].paidBy = invoice[i].paidBy
                                /\ i # a => invoice'[i] = invoice[i]
<1>1. /\ DOMAIN invoice' = Invoices
      /\ invoice'[a] = [status |-> invoice[a].status, total |-> v, paidBy |-> invoice[a].paidBy]
      /\ \A i \in Invoices \ {a} : invoice'[i] = invoice[i]
  BY DEF InvoiceShape
<1>2. \A i \in Invoices : invoice'[i] = [status |-> invoice'[i].status,
                                        total |-> invoice'[i].total,
                                        paidBy |-> invoice'[i].paidBy]
  BY <1>1 DEF InvoiceShape
<1> QED
  BY <1>1, <1>2 DEF InvoiceShape

LEMMA OverrideGivesUp ==
  ASSUME SInv, NEW s \in Staff, req' = [req EXCEPT ![s] = IdleReq], Finish(s),
         UNCHANGED <<tables, external, hook, watch>>
  PROVE  StaffKeeps(s)
<1> s \in Workers /\ Shape
  BY DEF Workers, SInv
<1>1. ReqShape' /\ \A t \in Staff \ {s} : req'[t] = req[t]
  BY DEF Shape, IdleReq, ReqShape
<1>2. Shape'
  BY <1>1, FinishLocks DEF Shape, tables, external, ReqShape
<1>3. StaffLeaves(s)
  BY <1>1, FinishLocks DEF StaffLeaves, tables
<1>4. OverrideKnows(s)'
  BY FinishLocks DEF OverrideKnows, OverridePc, BothLocked
<1> QED
  BY <1>2, <1>3, <1>4 DEF StaffKeeps

LEMMA OverrideBeginKeeps ==
  ASSUME SInv, NEW s \in Staff, OverrideBegin(s)
  PROVE  StaffKeeps(s)
<1> s \in Workers /\ Shape
  BY DEF Workers, SInv
<1> USE DEF OverrideBegin
<1>1. PICK r \in Requests : req' = [req EXCEPT ![s].request = r]
  OBVIOUS
<1>2. ReqShape' /\ req'[s].request = r /\ \A t \in Staff \ {s} : req'[t] = req[t]
  BY <1>1, ZenonT(60) DEF Shape, ReqShape
<1>3. /\ pc' \in [Workers -> PcValues] /\ pc'[s] = "lockLine"
      /\ \A v \in Workers \ {s} : pc'[v] = pc[v]
  BY MoveOn DEF PcValues
<1>4. Shape'
  BY <1>2, <1>3 DEF Shape, tables, external, ReqShape
<1>5. StaffLeaves(s)
  BY <1>2, <1>3 DEF StaffLeaves, tables, LocksOfOthers
<1>6. OverrideKnows(s)'
  BY <1>2, <1>3 DEF OverrideKnows, OverridePc, BothLocked
<1> QED
  BY <1>4, <1>5, <1>6 DEF StaffKeeps

LEMMA OverrideLockLineKeeps ==
  ASSUME SInv, NEW s \in Staff, OverrideLockLine(s)
  PROVE  StaffKeeps(s)
<1> s \in Workers /\ Shape /\ OverrideKnows(s)
  BY DEF Workers, SInv
<1> USE DEF OverrideLockLine
<1> DEFINE r == req[s].request
<1>1. r \in Requests /\ r.line \in Rows /\ InvoiceOf[r.line] = r.invoice
  BY RequestFields DEF OverrideKnows
<1>2. /\ pc' \in [Workers -> PcValues] /\ pc'[s] = "lockInvoice"
      /\ \A v \in Workers \ {s} : pc'[v] = pc[v]
  BY MoveOn DEF PcValues
<1>3. /\ rowLock' \in [Rows -> Workers \cup {None}] /\ rowLock'[r.line] = s
      /\ LocksOfOthers(s)
  BY <1>1, TakeLock
<1>4. Shape'
  BY <1>2, <1>3 DEF Shape, tables, external
<1>5. StaffLeaves(s)
  BY <1>2, <1>3 DEF StaffLeaves, tables
<1>6. OverrideKnows(s)'
  BY <1>1, <1>2, <1>3 DEF OverrideKnows, OverridePc, BothLocked
<1> QED
  BY <1>4, <1>5, <1>6 DEF StaffKeeps

LEMMA OverrideLockInvoiceKeeps ==
  ASSUME SInv, NEW s \in Staff, OverrideLockInvoice(s)
  PROVE  StaffKeeps(s)
<1> s \in Workers /\ Shape /\ OverrideKnows(s)
  BY DEF Workers, SInv
<1> USE DEF OverrideLockInvoice
<1> DEFINE r == req[s].request
<1>1. /\ r \in Requests /\ r.line \in Rows /\ InvoiceOf[r.line] = r.invoice
      /\ r.invoice \in Rows /\ r.invoice \in Invoices /\ rowLock[r.line] = s
  BY RequestFields DEF OverrideKnows
<1>2. /\ pc' \in [Workers -> PcValues] /\ pc'[s] = "locked"
      /\ \A v \in Workers \ {s} : pc'[v] = pc[v]
  BY MoveOn DEF PcValues
<1>3. /\ rowLock' \in [Rows -> Workers \cup {None}] /\ rowLock'[r.invoice] = s
      /\ rowLock'[r.line] = s /\ LocksOfOthers(s)
  BY <1>1, TakeLock
<1>4. /\ ReqShape' /\ req'[s].request = r /\ req'[s].before = line[r.line]
      /\ \A t \in Staff \ {s} : req'[t] = req[t]
  <2>1. req' = [req EXCEPT ![s].before = line[r.line]]
    OBVIOUS
  <2>2. ReqShape
    BY DEF Shape, ReqShape
  <2> QED
    BY <2>1, <2>2, BeforeWritten
<1>5. Shape'
  BY <1>2, <1>3, <1>4, ZenonT(60) DEF Shape, tables, external, ReqShape
<1>6. StaffLeaves(s)
  BY <1>2, <1>3, <1>4 DEF StaffLeaves, tables
<1>7. invoice'[r.invoice].status = "issued" /\ line' = line
  BY <1>1 DEF Shape, tables
<1>8. OverrideKnows(s)'
  BY <1>1, <1>2, <1>3, <1>4, <1>7 DEF OverrideKnows, OverridePc, BothLocked
<1> QED
  BY <1>5, <1>6, <1>8 DEF StaffKeeps

LEMMA OverrideSumKeeps ==
  ASSUME SInv, NEW s \in Staff, OverrideSum(s)
  PROVE  StaffKeeps(s)
<1> s \in Workers /\ Shape /\ OverrideKnows(s)
  BY DEF Workers, SInv
<1> USE DEF OverrideSum
<1> DEFINE r == req[s].request
<1>1. /\ pc' \in [Workers -> PcValues] /\ pc'[s] = "summed"
      /\ \A v \in Workers \ {s} : pc'[v] = pc[v]
  BY MoveOn DEF PcValues
<1>2. /\ ReqShape' /\ req'[s].request = r /\ req'[s].before = req[s].before
      /\ req'[s].total = TotalOf(r.invoice, Overridden(line, r))
      /\ \A t \in Staff \ {s} : req'[t] = req[t]
  <2>1. req' = [req EXCEPT ![s].total = TotalOf(r.invoice, Overridden(line, r))]
    OBVIOUS
  <2>2. ReqShape
    BY DEF Shape, ReqShape
  <2> HIDE DEF OverrideSum
  <2> QED
    BY <2>1, <2>2, TotalWritten
<1>3. Shape'
  BY <1>1, <1>2 DEF Shape, tables, external, ReqShape
<1>4. StaffLeaves(s)
  BY <1>1, <1>2 DEF StaffLeaves, tables, LocksOfOthers
<1>5. UNCHANGED <<rowLock, invoice, line>> /\ pc[s] = "locked"
  BY DEF tables
<1> HIDE DEF OverrideSum, r
<1>6. OverrideKnows(s)'
  BY <1>1, <1>2, <1>5 DEF OverrideKnows, OverridePc, BothLocked, r
<1> QED
  BY <1>3, <1>4, <1>6 DEF StaffKeeps

LEMMA OverrideInsertKeyKeeps ==
  ASSUME SInv, NEW s \in Staff, OverrideInsertKey(s)
  PROVE  StaffKeeps(s)
<1> s \in Workers /\ Shape /\ OverrideKnows(s)
  BY DEF Workers, SInv
<1> USE DEF OverrideInsertKey
<1>1. /\ pc' \in [Workers -> PcValues] /\ pc'[s] = "keyed"
      /\ \A v \in Workers \ {s} : pc'[v] = pc[v]
  BY MoveOn DEF PcValues
<1>2. Shape'
  BY <1>1 DEF Shape, tables, external
<1>3. StaffLeaves(s)
  BY <1>1 DEF StaffLeaves, tables, LocksOfOthers
<1>4. OverrideKnows(s)'
  BY <1>1 DEF OverrideKnows, OverridePc, BothLocked, tables
<1> QED
  BY <1>2, <1>3, <1>4 DEF StaffKeeps

\* The commit: the line takes its new amount, the invoice the total computed
\* from it, the audit log one row.
LEMMA OverrideCommitEffects ==
  ASSUME SInv, NEW s \in Staff, OverrideCommit(s), NEW r, r = req[s].request
  PROVE  /\ r \in Requests /\ rowLock[r.invoice] = s /\ InvoiceOf[r.line] = r.invoice
         /\ invoice[r.invoice].status = "issued" /\ req[s].before = line[r.line]
         /\ line' \in [Lines -> Int] /\ line'[r.line] = r.amount
         /\ line' = Overridden(line, r)
         /\ \A l \in Lines \ {r.line} : line'[l] = line[l]
         /\ invoice'[r.invoice].total = TotalOf(r.invoice, line')
         /\ \A i \in Invoices : /\ invoice'[i].status = invoice[i].status
                                /\ invoice'[i].paidBy = invoice[i].paidBy
                                /\ i # r.invoice => invoice'[i] = invoice[i]
         /\ InvoiceShape'
<1> Shape /\ OverrideKnows(s)
  BY DEF SInv
<1>1. /\ pc[s] = "keyed" /\ line' = Overridden(line, r)
      /\ invoice' = [invoice EXCEPT ![r.invoice].total = req[s].total]
  BY DEF OverrideCommit
<1>2. /\ r \in Requests /\ rowLock[r.invoice] = s /\ InvoiceOf[r.line] = r.invoice
      /\ invoice[r.invoice].status = "issued" /\ req[s].before = line[r.line]
      /\ req[s].total = TotalOf(r.invoice, Overridden(line, r))
  BY <1>1 DEF OverrideKnows, BothLocked
<1>3. r.invoice \in Invoices /\ r.line \in Lines /\ r.amount \in Int
  BY <1>2, RequestFields
<1>4. /\ line' \in [Lines -> Int] /\ line'[r.line] = r.amount
      /\ \A l \in Lines \ {r.line} : line'[l] = line[l]
  BY <1>1, <1>3 DEF Overridden, Shape
<1>5. PICK t : t = req[s].total
  OBVIOUS
<1>6. invoice' = [invoice EXCEPT ![r.invoice].total = t]
  BY <1>1, <1>5
<1>7. InvoiceShape
  BY DEF Shape, InvoiceShape
<1>8. /\ InvoiceShape' /\ invoice'[r.invoice].total = t
      /\ \A i \in Invoices : /\ invoice'[i].status = invoice[i].status
                             /\ invoice'[i].paidBy = invoice[i].paidBy
                             /\ i # r.invoice => invoice'[i] = invoice[i]
  BY <1>3, <1>6, <1>7, InvoiceTotalWritten
<1> QED
  BY <1>1, <1>2, <1>4, <1>5, <1>8

LEMMA OverrideCommitKeeps ==
  ASSUME SInv, NEW s \in Staff, OverrideCommit(s)
  PROVE  StaffKeeps(s)
<1> s \in Workers /\ Shape
  BY DEF Workers, SInv
<1>1. PICK r : r = req[s].request
  OBVIOUS
<1>2. r \in Requests /\ r.invoice \in Invoices /\ r.line \in Lines
  BY <1>1, OverrideCommitEffects, RequestFields
<1>3. Finish(s) /\ req' = [req EXCEPT ![s] = IdleReq]
      /\ UNCHANGED <<payments, delivery, external, hook, watch>>
  BY DEF OverrideCommit
<1>4. ReqShape' /\ \A t \in Staff \ {s} : req'[t] = req[t]
  BY <1>3 DEF Shape, IdleReq, ReqShape
<1>5. audit' \in Seq(Range(audit'))
  BY AppendRange DEF OverrideCommit, Shape
<1>6. Shape'
  <2>1. \A i \in Invoices : /\ invoice'[i].status = invoice[i].status
                            /\ invoice'[i].paidBy = invoice[i].paidBy
    BY <1>1, OverrideCommitEffects
  <2>2. /\ line' \in [Lines -> Int]
        /\ InvoiceShape'
    BY <1>1, OverrideCommitEffects
  <2> QED
    BY <1>3, <1>4, <1>5, <2>1, <2>2, FinishLocks DEF Shape, external, ReqShape, InvoiceShape
<1>7. StaffLeaves(s)
  <2>1. \A i \in Invoices : /\ invoice'[i].status = invoice[i].status
                            /\ invoice'[i].paidBy = invoice[i].paidBy
    BY <1>1, OverrideCommitEffects
  <2>2. \A i \in Invoices : rowLock[i] # s =>
          invoice'[i] = invoice[i] /\ \A l \in LinesOf(i) : line'[l] = line[l]
    BY <1>1, OverrideCommitEffects DEF LinesOf
  <2> QED
    BY <1>3, <1>4, <2>1, <2>2, FinishLocks DEF StaffLeaves
<1>8. OverrideKnows(s)'
  BY <1>3, FinishLocks DEF OverrideKnows, OverridePc, BothLocked
<1> QED
  BY <1>6, <1>7, <1>8 DEF StaffKeeps

LEMMA StaffStepKeeps ==
  ASSUME SInv, NEW s \in Staff, StaffStep(s)
  PROVE  StaffKeeps(s)
<1>1. CASE OverrideNotFound(s) \/ OverridePaid(s) \/ OverrideKeyTaken(s) \/ OverrideAbort(s)
  BY <1>1, OverrideGivesUp
     DEF OverrideNotFound, OverridePaid, OverrideKeyTaken, OverrideAbort
<1> QED
  BY <1>1, OverrideBeginKeeps, OverrideLockLineKeeps, OverrideLockInvoiceKeeps,
     OverrideSumKeeps, OverrideInsertKeyKeeps, OverrideCommitKeeps
     DEF StaffStep, OverrideStep

-----------------------------------------------------------------------------
(* Payment deliveries                                                      *)

HookShape == hook = [h \in Hooks |-> [delivery |-> hook[h].delivery,
                                      status |-> hook[h].status, total |-> hook[h].total]]

HookLeaves(h) ==
  /\ \A v \in Workers \ {h} : pc'[v] = pc[v]
  /\ \A g \in Hooks \ {h} : hook'[g] = hook[g]
  /\ LocksOfOthers(h)
  /\ \A i \in Invoices : rowLock[i] # h => invoice'[i] = invoice[i]
  /\ \A i \in Invoices : invoice'[i].total = invoice[i].total
  /\ \A d \in Deliveries : delivery[d] # None => delivery'[d] = delivery[d]
  /\ \A d \in Deliveries : delivery'[d] # delivery[d] => sent[d] # None
  /\ \A d \in Deliveries, g \in Hooks \ {h} :
        hook[g].delivery = d /\ pc[g] \in Processing => delivery'[d] = delivery[d]
  /\ \A g \in Hooks \ {h} : pc[g] \in Processing /\ pc'[h] \in Processing
        => hook[g].delivery # hook'[h].delivery
  /\ UNCHANGED <<line, audit, idem, sent, req, watch>>

HookKeeps(h) == Shape' /\ HookLeaves(h) /\ HookKnows(h)'

\* A webhook worker that is done, whatever it has written to its delivery.
LEMMA HookDone ==
  ASSUME SInv, NEW h \in Hooks, hook' = [hook EXCEPT ![h] = IdleHook], Finish(h),
         UNCHANGED <<line, audit, idem, sent, req, watch>>,
         delivery' \in [Deliveries -> Results \cup {None}],
         payments' \in [Invoices -> Nat], InvoiceShape',
         \A i \in Invoices : /\ invoice'[i].status \in {"issued", "paid"}
                             /\ invoice'[i].status = "paid" => invoice'[i].paidBy \in Deliveries
                             /\ rowLock[i] # h => invoice'[i] = invoice[i]
                             /\ invoice'[i].total = invoice[i].total,
         \A d \in Deliveries : delivery'[d] # delivery[d] =>
            /\ delivery[d] = None /\ sent[d] # None
            /\ \A g \in Hooks \ {h} : hook[g].delivery = d => pc[g] \notin Processing
  PROVE  HookKeeps(h)
<1> h \in Workers /\ Shape
  BY DEF Workers, SInv
<1>1. HookShape' /\ \A g \in Hooks \ {h} : hook'[g] = hook[g]
  BY DEF Shape, IdleHook, HookShape
<1>2. Shape'
  BY <1>1, FinishLocks DEF Shape, HookShape, InvoiceShape
<1>3. HookLeaves(h)
  BY <1>1, FinishLocks DEF HookLeaves, Processing
<1>4. HookKnows(h)'
  BY FinishLocks DEF HookKnows, HookPc, Processing
<1> QED
  BY <1>2, <1>3, <1>4 DEF HookKeeps

\* What the worker that answers a delivery knows about it.
LEMMA ProcessingAlone ==
  ASSUME SInv, NEW h \in Hooks, pc[h] \in Processing
  PROVE  /\ hook[h].delivery \in Deliveries
         /\ sent[hook[h].delivery] \in Report /\ sent[hook[h].delivery] # None
         /\ delivery[hook[h].delivery] = None
         /\ \A g \in Hooks \ {h} :
               hook[g].delivery = hook[h].delivery => pc[g] \notin Processing
<1> HookKnows(h) /\ Shape /\ OneProcessor
  BY DEF SInv
<1>1. hook[h].delivery \in Deliveries /\ sent[hook[h].delivery] # None
  BY DEF HookKnows, Processing
<1> QED
  BY <1>1 DEF HookKnows, Shape, OneProcessor

LEMMA AnswerKeeps ==
  ASSUME SInv, NEW h \in Hooks, pc[h] \in Processing, NEW x \in Results, NEW ok,
         Answer(h, x, ok), UNCHANGED <<invoice, payments>>
  PROVE  HookKeeps(h)
<1> Shape
  BY DEF SInv
<1>1. InvoiceShape'
  BY DEF Shape, InvoiceShape
<1>2. delivery' = [delivery EXCEPT ![hook[h].delivery] = x]
  BY DEF Answer
<1>3. /\ delivery' \in [Deliveries -> Results \cup {None}]
      /\ \A d \in Deliveries : delivery'[d] # delivery[d] => d = hook[h].delivery
  BY <1>2 DEF Shape
<1> QED
  BY <1>1, <1>3, HookDone, ProcessingAlone DEF Answer, Shape

\* The payment itself: status and delivery of one invoice, locked and issued.
LEMMA HookPayEffects ==
  ASSUME SInv, NEW h \in Hooks, HookPay(h), NEW d, d = hook[h].delivery,
         NEW a, a = sent[d].invoice
  PROVE  /\ d \in Deliveries /\ a \in Invoices /\ rowLock[a] = h
         /\ delivery[d] = None /\ delivery' = [delivery EXCEPT ![d] = "accepted"]
         /\ sent[d].amount = invoice[a].total
         /\ invoice[a].status = "issued"
         /\ invoice'[a].status = "paid" /\ invoice'[a].paidBy = d
         /\ payments' = [payments EXCEPT ![a] = @ + 1]
         /\ \A i \in Invoices : /\ invoice'[i].total = invoice[i].total
                                /\ i # a => invoice'[i] = invoice[i]
         /\ InvoiceShape'
<1> Shape /\ HookKnows(h) /\ pc[h] = "locked"
  BY DEF SInv, HookPay
<1>1. /\ d \in Deliveries /\ a \in Invoices /\ rowLock[a] = h /\ delivery[d] = None
      /\ hook[h].status = invoice[a].status /\ hook[h].total = invoice[a].total
  BY DEF HookKnows, Processing
<1>2. /\ invoice' = [invoice EXCEPT ![a] = [status |-> "paid", total |-> @.total, paidBy |-> d]]
      /\ payments' = [payments EXCEPT ![a] = @ + 1]
      /\ delivery' = [delivery EXCEPT ![d] = "accepted"]
      /\ hook[h].status = "issued" /\ sent[d].amount = hook[h].total
  BY DEF HookPay, Answer, AmountMatches
<1>3. InvoiceShape
  BY SMTT(30) DEF Shape, InvoiceShape
<1> HIDE DEF Shape
<1>4. /\ DOMAIN invoice' = Invoices
      /\ invoice'[a] = [status |-> "paid", total |-> invoice[a].total, paidBy |-> d]
      /\ \A i \in Invoices \ {a} : invoice'[i] = invoice[i]
  BY <1>1, <1>2, <1>3 DEF InvoiceShape
<1>5. \A i \in Invoices : invoice'[i] = [status |-> invoice'[i].status,
                                        total |-> invoice'[i].total,
                                        paidBy |-> invoice'[i].paidBy]
  BY <1>3, <1>4 DEF InvoiceShape
<1>6. InvoiceShape'
  BY <1>2, <1>4, <1>5 DEF InvoiceShape
<1> QED
  BY <1>1, <1>2, <1>4, <1>6

LEMMA HookPayKeeps ==
  ASSUME SInv, NEW h \in Hooks, HookPay(h)
  PROVE  HookKeeps(h)
<1> Shape
  BY DEF SInv
<1>1. PICK d : d = hook[h].delivery
  OBVIOUS
<1>2. PICK a : a = sent[d].invoice
  OBVIOUS
<1>3. /\ delivery' \in [Deliveries -> Results \cup {None}]
      /\ payments' \in [Invoices -> Nat]
      /\ \A e \in Deliveries : delivery'[e] # delivery[e] => e = d
  <2>1. /\ delivery' = [delivery EXCEPT ![d] = "accepted"] /\ a \in Invoices
        /\ payments' = [payments EXCEPT ![a] = @ + 1]
    BY <1>1, <1>2, HookPayEffects
  <2>2. delivery \in [Deliveries -> Results \cup {None}] /\ payments \in [Invoices -> Nat]
    BY DEF Shape
  <2>3. /\ delivery' \in [Deliveries -> Results \cup {None}]
        /\ \A e \in Deliveries : delivery'[e] # delivery[e] => e = d
    BY <2>1, <2>2 DEF Results
  <2>4. payments' \in [Invoices -> Nat]
    BY <2>1, <2>2
  <2> QED
    BY <2>3, <2>4
<1>4. /\ InvoiceShape'
      /\ \A i \in Invoices : /\ invoice'[i].status \in {"issued", "paid"}
                             /\ invoice'[i].status = "paid" => invoice'[i].paidBy \in Deliveries
                             /\ rowLock[i] # h => invoice'[i] = invoice[i]
                             /\ invoice'[i].total = invoice[i].total
  BY <1>1, <1>2, HookPayEffects DEF Shape
<1>5. /\ delivery[d] = None /\ sent[d] # None
      /\ \A g \in Hooks \ {h} : hook[g].delivery = d => pc[g] \notin Processing
  BY <1>1, ProcessingAlone DEF HookPay, Processing
<1>6. /\ hook' = [hook EXCEPT ![h] = IdleHook] /\ Finish(h)
      /\ UNCHANGED <<line, audit, idem, sent, req, watch>>
  BY DEF HookPay, Answer
<1> QED
  BY <1>3, <1>4, <1>5, <1>6, HookDone

LEMMA HookRejectKeeps ==
  ASSUME SInv, NEW h \in Hooks, HookReject(h)
  PROVE  HookKeeps(h)
<1> Shape /\ HookKnows(h)
  BY DEF SInv
<1>1. PICK d \in Deliveries : d = hook[h].delivery /\ sent[d] # None
  BY DEF HookKnows, HookReject
<1>2. delivery' = [delivery EXCEPT ![d] = IF @ = None THEN "rejected" ELSE @]
  BY <1>1 DEF HookReject
<1>3. /\ delivery' \in [Deliveries -> Results \cup {None}]
      /\ \A e \in Deliveries : delivery'[e] # delivery[e] => e = d /\ delivery[e] = None
  BY <1>2 DEF Shape, Results
<1>4. \A g \in Hooks \ {h} : hook[g].delivery = d => pc[g] \notin Processing
  BY <1>1 DEF HookReject, DeliveryFree, Processing
<1>5. InvoiceShape'
  BY DEF Shape, InvoiceShape, HookReject
<1>6. /\ hook' = [hook EXCEPT ![h] = IdleHook] /\ Finish(h) /\ invoice' = invoice
      /\ UNCHANGED <<line, audit, payments, idem, sent, req, watch>>
  BY DEF HookReject, external
<1>7. payments' \in [Invoices -> Nat]
  BY <1>6 DEF Shape
<1>8. \A i \in Invoices : /\ invoice'[i].status \in {"issued", "paid"}
                          /\ invoice'[i].status = "paid" => invoice'[i].paidBy \in Deliveries
  BY <1>6 DEF Shape
<1>9. \A e \in Deliveries : delivery'[e] # delivery[e] =>
         /\ delivery[e] = None /\ sent[e] # None
         /\ \A g \in Hooks \ {h} : hook[g].delivery = e => pc[g] \notin Processing
  BY <1>1, <1>3, <1>4
<1> QED
  BY <1>3, <1>5, <1>6, <1>7, <1>8, <1>9, HookDone

LEMMA HookGivesUp ==
  ASSUME SInv, NEW h \in Hooks, HookDuplicate(h) \/ HookAbort(h)
  PROVE  HookKeeps(h)
<1> Shape
  BY DEF SInv
<1>1. InvoiceShape' /\ delivery' = delivery
  BY DEF Shape, InvoiceShape, HookDuplicate, HookAbort, tables
<1> QED
  BY <1>1, HookDone DEF HookDuplicate, HookAbort, Shape, tables, external

LEMMA HookReceiveKeeps ==
  ASSUME SInv, NEW h \in Hooks, HookReceive(h)
  PROVE  HookKeeps(h)
<1> h \in Workers /\ Shape
  BY DEF Workers, SInv
<1>1. PICK d \in Deliveries : sent[d] # None /\ hook' = [hook EXCEPT ![h].delivery = d]
  BY DEF HookReceive
<1>2. PICK v \in {"insert", "reject"} : pc' = [pc EXCEPT ![h] = v]
  BY DEF HookReceive
<1>3. HookShape' /\ hook'[h].delivery = d /\ \A g \in Hooks \ {h} : hook'[g] = hook[g]
  <2>1. HookShape /\ hook' = [hook EXCEPT ![h].delivery = d]
    BY <1>1 DEF Shape, HookShape
  <2>2. /\ DOMAIN hook' = Hooks
        /\ hook'[h] = [delivery |-> d, status |-> hook[h].status, total |-> hook[h].total]
        /\ \A g \in Hooks \ {h} : hook'[g] = hook[g]
    BY <2>1 DEF HookShape
  <2>3. \A g \in Hooks : hook'[g] = [delivery |-> hook'[g].delivery,
                                     status |-> hook'[g].status, total |-> hook'[g].total]
    BY <2>1, <2>2 DEF HookShape
  <2> QED
    BY <2>1, <2>2, <2>3 DEF HookShape
<1>4. /\ pc' \in [Workers -> PcValues] /\ pc'[h] = v
      /\ \A u \in Workers \ {h} : pc'[u] = pc[u]
  BY <1>2, MoveOn DEF PcValues
<1>5. UNCHANGED <<tables, external, rowLock, req, watch>>
  BY DEF HookReceive
<1>6. Shape'
  BY <1>3, <1>4, <1>5 DEF Shape, tables, external, HookShape
<1>7. HookLeaves(h)
  BY <1>3, <1>4, <1>5 DEF HookLeaves, tables, external, LocksOfOthers, Processing
<1>8. HookKnows(h)'
  BY <1>1, <1>3, <1>4, <1>5 DEF HookKnows, HookPc, Processing, external
<1> QED
  BY <1>6, <1>7, <1>8 DEF HookKeeps

LEMMA HookInsertKeeps ==
  ASSUME SInv, NEW h \in Hooks, HookInsert(h)
  PROVE  HookKeeps(h)
<1> h \in Workers /\ Shape /\ HookKnows(h)
  BY DEF Workers, SInv
<1>1. /\ pc' \in [Workers -> PcValues] /\ pc'[h] = "lock"
      /\ \A u \in Workers \ {h} : pc'[u] = pc[u]
  BY MoveOn DEF PcValues, HookInsert
<1>2. UNCHANGED <<tables, external, rowLock, req, hook, watch>> /\ pc[h] = "insert"
  BY DEF HookInsert
<1>3. Shape'
  BY <1>1, <1>2 DEF Shape, tables, external
<1>4. HookLeaves(h)
  BY <1>1, <1>2 DEF HookInsert, DeliveryFree, HookLeaves, tables, external,
                    LocksOfOthers, Processing
<1>5. HookKnows(h)'
  BY <1>1, <1>2 DEF HookKnows, HookPc, Processing, external, tables, HookInsert, DeliveryNew
<1> QED
  BY <1>3, <1>4, <1>5 DEF HookKeeps

LEMMA HookLockKeeps ==
  ASSUME SInv, NEW h \in Hooks, HookLock(h)
  PROVE  HookKeeps(h)
<1> h \in Workers /\ Shape /\ HookKnows(h)
  BY DEF Workers, SInv
<1>1. PICK d : d = hook[h].delivery
  OBVIOUS
<1>2. PICK i : i = sent[d].invoice
  OBVIOUS
<1>3. /\ pc[h] = "lock" /\ i # None /\ RowFree(i)
      /\ rowLock' = [rowLock EXCEPT ![i] = h]
      /\ hook' = [hook EXCEPT ![h] = [delivery |-> @.delivery, status |-> invoice[i].status,
                                       total |-> invoice[i].total]]
      /\ pc' = [pc EXCEPT ![h] = "locked"]
      /\ UNCHANGED <<tables, external, req, watch>>
  BY <1>1, <1>2 DEF HookLock
<1>4. /\ d \in Deliveries /\ sent[d] \in Report /\ delivery[d] = None
      /\ \A g \in Hooks \ {h} : hook[g].delivery = d => pc[g] \notin Processing
  BY <1>1, <1>3, ProcessingAlone DEF Processing
<1>5. i \in Invoices /\ i \in Rows
  BY <1>2, <1>3, <1>4 DEF Report, Rows
<1>6. /\ pc' \in [Workers -> PcValues] /\ pc'[h] = "locked"
      /\ \A u \in Workers \ {h} : pc'[u] = pc[u]
  BY <1>3, MoveOn DEF PcValues
<1>7. /\ rowLock' \in [Rows -> Workers \cup {None}] /\ rowLock'[i] = h
      /\ LocksOfOthers(h)
  BY <1>3, <1>5, TakeLock
<1>8. /\ HookShape' /\ hook'[h].delivery = d /\ \A g \in Hooks \ {h} : hook'[g] = hook[g]
      /\ hook'[h].status = invoice[i].status /\ hook'[h].total = invoice[i].total
  <2> DEFINE st == invoice[i].status
             to == invoice[i].total
  <2>1. HookShape /\ hook' = [hook EXCEPT ![h] = [delivery |-> @.delivery, status |-> st,
                                               total |-> to]]
    BY <1>3 DEF Shape, HookShape
  <2> HIDE DEF st, to
  <2>2. /\ DOMAIN hook' = Hooks
        /\ hook'[h] = [delivery |-> hook[h].delivery, status |-> st, total |-> to]
        /\ \A g \in Hooks \ {h} : hook'[g] = hook[g]
    BY <2>1 DEF HookShape
  <2>3. \A g \in Hooks : hook'[g] = [delivery |-> hook'[g].delivery,
                                     status |-> hook'[g].status, total |-> hook'[g].total]
    BY <2>1, <2>2 DEF HookShape
  <2>4. HookShape'
    BY <2>1, <2>2, <2>3 DEF HookShape
  <2> QED
    BY <1>1, <2>2, <2>4 DEF st, to
<1>9. Shape'
  BY <1>3, <1>6, <1>7, <1>8 DEF Shape, tables, external, HookShape
<1>10. HookLeaves(h)
  BY <1>3, <1>4, <1>6, <1>7, <1>8 DEF HookLeaves, tables, external
<1>11. HookKnows(h)'
  BY <1>2, <1>3, <1>4, <1>5, <1>6, <1>7, <1>8, NoneAssumption
     DEF HookKnows, HookPc, Processing, tables, external
<1> QED
  BY <1>9, <1>10, <1>11 DEF HookKeeps

LEMMA HookStepKeeps ==
  ASSUME SInv, NEW h \in Hooks, HookAct(h)
  PROVE  HookKeeps(h)
<1>1. CASE HookNotFound(h) \/ HookMismatch(h)
  BY <1>1, AnswerKeeps DEF HookNotFound, HookMismatch, Processing, Results
<1>2. CASE HookAlreadyPaid(h)
  BY <1>2, AnswerKeeps DEF HookAlreadyPaid, Processing, Results
<1> QED
  BY <1>1, <1>2, HookReceiveKeeps, HookRejectKeeps, HookInsertKeeps, HookGivesUp,
     HookLockKeeps, HookPayKeeps DEF HookAct, HookStep

-----------------------------------------------------------------------------
(* The invariant, part by part                                             *)

\* What the other workers know survives the step of one worker.
LEMMA StaffKnowledge ==
  ASSUME SInv, NEW s \in Staff, StaffKeeps(s)
  PROVE  /\ \A t \in Staff : OverrideKnows(t)'
         /\ \A h \in Hooks : HookKnows(h)'
         /\ OneProcessor'
<1> Shape /\ StaffLeaves(s) /\ Shape'
  BY DEF SInv, StaffKeeps
<1>1. ASSUME NEW t \in Staff PROVE OverrideKnows(t)'
  <2>1. CASE t = s
    BY <2>1 DEF StaffKeeps
  <2>2. CASE t # s
    <3>1. t \in Workers \ {s} /\ OverrideKnows(t) /\ line' \in [Lines -> Int]
      BY <2>2 DEF Workers, SInv, Shape
    <3>2. /\ pc'[t] = pc[t] /\ req'[t] = req[t]
          /\ \A x \in Rows : rowLock[x] = t => rowLock'[x] = t
          /\ \A i \in Invoices : rowLock[i] = t =>
                /\ invoice'[i].status = invoice[i].status
                /\ \A l \in LinesOf(i) : line'[l] = line[l]
      BY <2>2, <3>1 DEF StaffLeaves, LocksOfOthers
    <3> QED
      BY <3>1, <3>2, OverrideFrame
  <2> QED
    BY <2>1, <2>2
<1>2. ASSUME NEW h \in Hooks PROVE HookKnows(h)'
  <2>1. h \in Workers \ {s} /\ HookKnows(h)
    BY WorkersAssumption DEF Workers, SInv
  <2>2. /\ pc'[h] = pc[h] /\ hook'[h] = hook[h] /\ delivery' = delivery /\ sent' = sent
        /\ \A x \in Rows : rowLock[x] = h => rowLock'[x] = h
        /\ \A i \in Invoices : rowLock[i] = h => invoice'[i] = invoice[i]
    BY <2>1 DEF StaffLeaves, LocksOfOthers, external
  <2> QED
    BY <2>1, <2>2, HookFrame
<1>3. OneProcessor'
  <2>1. \A h \in Hooks : h \in Workers \ {s}
    BY WorkersAssumption DEF Workers
  <2> QED
    BY <2>1 DEF SInv, OneProcessor, StaffLeaves
<1> QED
  BY <1>1, <1>2, <1>3

LEMMA HookKnowledge ==
  ASSUME SInv, NEW h \in Hooks, HookKeeps(h)
  PROVE  /\ \A t \in Staff : OverrideKnows(t)'
         /\ \A g \in Hooks : HookKnows(g)'
         /\ OneProcessor'
<1> Shape /\ HookLeaves(h) /\ Shape'
  BY DEF SInv, HookKeeps
<1>1. ASSUME NEW t \in Staff PROVE OverrideKnows(t)'
  <2>1. t \in Workers \ {h} /\ OverrideKnows(t) /\ line' \in [Lines -> Int]
    BY WorkersAssumption DEF Workers, SInv, Shape
  <2>2. /\ pc'[t] = pc[t] /\ req'[t] = req[t] /\ line' = line
        /\ \A x \in Rows : rowLock[x] = t => rowLock'[x] = t
        /\ \A i \in Invoices : rowLock[i] = t => invoice'[i] = invoice[i]
    BY <2>1 DEF HookLeaves, LocksOfOthers
  <2> QED
    BY <2>1, <2>2, OverrideFrame
<1>2. ASSUME NEW g \in Hooks PROVE HookKnows(g)'
  <2>1. CASE g = h
    BY <2>1 DEF HookKeeps
  <2>2. CASE g # h
    <3>1. g \in Workers \ {h} /\ HookKnows(g)
      BY <2>2 DEF Workers, SInv
    <3>2. pc[g] \in Processing => hook[g].delivery \in Deliveries
      BY <3>1 DEF HookKnows, Processing
    <3>3. /\ pc'[g] = pc[g] /\ hook'[g] = hook[g] /\ sent' = sent
          /\ pc[g] \in Processing => delivery'[hook[g].delivery] = delivery[hook[g].delivery]
          /\ \A x \in Rows : rowLock[x] = g => rowLock'[x] = g
          /\ \A i \in Invoices : rowLock[i] = g => invoice'[i] = invoice[i]
      BY <2>2, <3>1, <3>2 DEF HookLeaves, LocksOfOthers
    <3> QED
      BY <3>1, <3>3, HookFrame
  <2> QED
    BY <2>1, <2>2
<1>3. OneProcessor'
  <2>1. \A g \in Hooks \ {h} : pc'[g] = pc[g] /\ hook'[g] = hook[g]
    BY DEF HookLeaves, Workers
  <2> QED
    BY <2>1 DEF SInv, OneProcessor, HookLeaves
<1> QED
  BY <1>1, <1>2, <1>3

\* Only the commit of an override changes lines, totals and the audit log.
LEMMA StaffMoney ==
  ASSUME SInv, NEW s \in Staff, StaffStep(s)
  PROVE  OverrideCommit(s) \/ UNCHANGED <<invoice, line, audit>>
BY DEF StaffStep, OverrideStep, OverrideBegin, OverrideNotFound, OverrideLockLine,
       OverrideLockInvoice, OverridePaid, OverrideSum, OverrideInsertKey,
       OverrideKeyTaken, OverrideAbort, tables

LEMMA StaffTotals ==
  ASSUME SInv, NEW s \in Staff, StaffStep(s)
  PROVE  TotalMatchesLines'
<1> TotalMatchesLines
  BY DEF SInv
<1>1. CASE OverrideCommit(s)
  <2>1. PICK r : r = req[s].request
    OBVIOUS
  <2>2. /\ r \in Requests /\ invoice'[r.invoice].total = TotalOf(r.invoice, line')
        /\ InvoiceOf[r.line] = r.invoice
        /\ \A i \in Invoices : i # r.invoice => invoice'[i] = invoice[i]
        /\ \A l \in Lines \ {r.line} : line'[l] = line[l]
    BY <1>1, <2>1, OverrideCommitEffects
  <2>3. ASSUME NEW i \in Invoices, i # r.invoice
        PROVE  invoice'[i].total = TotalOf(i, line')
    <3>1. \A l \in LinesOf(i) : line[l] = line'[l]
      BY <2>2, <2>3 DEF LinesOf
    <3>2. TotalOf(i, line) = TotalOf(i, line')
      BY <3>1, TotalOfOwnLines
    <3>3. invoice'[i] = invoice[i]
      BY <2>2, <2>3
    <3> QED
      BY <3>2, <3>3 DEF TotalMatchesLines
  <2> QED
    BY <2>2, <2>3 DEF TotalMatchesLines
<1>2. CASE UNCHANGED <<invoice, line, audit>>
  BY <1>2 DEF TotalMatchesLines
<1> QED
  BY <1>1, <1>2, StaffMoney

LEMMA HookTotals ==
  ASSUME SInv, NEW h \in Hooks, HookKeeps(h)
  PROVE  TotalMatchesLines'
<1>1. line' = line /\ \A i \in Invoices : invoice'[i].total = invoice[i].total
  BY DEF HookKeeps, HookLeaves
<1> QED
  BY <1>1 DEF SInv, TotalMatchesLines

\* An override never touches an invoice that is paid.
LEMMA StaffPaid ==
  ASSUME SInv, NEW s \in Staff, StaffStep(s), NEW i \in Invoices,
         invoice[i].status = "paid"
  PROVE  invoice'[i] = invoice[i] /\ \A l \in LinesOf(i) : line'[l] = line[l]
<1>1. CASE OverrideCommit(s)
  <2>1. PICK r : r = req[s].request
    OBVIOUS
  <2>2. /\ invoice[r.invoice].status = "issued" /\ InvoiceOf[r.line] = r.invoice
        /\ \A j \in Invoices : j # r.invoice => invoice'[j] = invoice[j]
        /\ \A l \in Lines \ {r.line} : line'[l] = line[l]
    BY <1>1, <2>1, OverrideCommitEffects
  <2> QED
    BY <2>2 DEF LinesOf
<1> QED
  BY <1>1, StaffMoney

\* An accepted delivery reports an invoice that exists.
LEMMA AcceptedOfInvoices ==
  ASSUME SInv, NEW d \in Deliveries, delivery[d] = "accepted"
  PROVE  sent[d] # None /\ sent[d].invoice \in Invoices
<1>1. sent[d] # None /\ sent[d].invoice # None
  BY NoneAssumption DEF SInv, DeliveredWereSent, PaidInFull, Results
<1>2. sent[d] \in Report
  BY <1>1 DEF SInv, Shape
<1> QED
  BY <1>1, <1>2 DEF Report

LEMMA StaffPayments ==
  ASSUME SInv, NEW s \in Staff, StaffStep(s), StaffLeaves(s)
  PROVE  PaidInFull' /\ PaidOnce'
<1> PaidInFull /\ PaidOnce /\ Shape
  BY DEF SInv
<1>1. /\ delivery' = delivery /\ sent' = sent /\ payments' = payments
      /\ \A i \in Invoices : /\ invoice'[i].status = invoice[i].status
                             /\ invoice'[i].paidBy = invoice[i].paidBy
  BY DEF StaffLeaves, external
<1>2. \A i \in Invoices : invoice[i].status = "paid" => invoice'[i] = invoice[i]
  BY StaffPaid
<1>3. \A d \in Deliveries : delivery[d] = "accepted" => sent[d].invoice \in Invoices
  BY AcceptedOfInvoices
<1>4. PaidInFull'
  BY <1>1, <1>2, <1>3 DEF PaidInFull
<1>5. PaidOnce'
  BY <1>1 DEF PaidOnce
<1> QED
  BY <1>4, <1>5

\* A delivery that is answered without paying changes neither invoices nor the
\* audit log, and is accepted only when its invoice is already paid in full.
LEMMA HookTables ==
  ASSUME SInv, NEW h \in Hooks, HookAct(h)
  PROVE  \/ HookPay(h)
         \/ /\ UNCHANGED <<invoice, payments>>
            /\ \A d \in Deliveries : delivery'[d] = "accepted" /\ delivery[d] # "accepted" =>
                  /\ sent[d].invoice \in Invoices
                  /\ invoice[sent[d].invoice].status = "paid"
                  /\ invoice[sent[d].invoice].total = sent[d].amount
<1> Shape /\ HookKnows(h)
  BY DEF SInv
<1>1. CASE HookReceive(h) \/ HookInsert(h) \/ HookDuplicate(h) \/ HookLock(h) \/ HookAbort(h)
  BY <1>1 DEF HookReceive, HookInsert, HookDuplicate, HookLock, HookAbort, tables
<1>2. CASE HookNotFound(h) \/ HookMismatch(h)
  <2>1. UNCHANGED <<invoice, payments>>
        /\ delivery' = [delivery EXCEPT ![hook[h].delivery] = "error"]
    BY <1>2 DEF HookNotFound, HookMismatch, Answer
  <2> QED
    BY <2>1 DEF Shape
<1>3. CASE HookReject(h)
  <2>1. UNCHANGED <<invoice, payments>>
        /\ delivery' = [delivery EXCEPT ![hook[h].delivery] =
                          IF @ = None THEN "rejected" ELSE @]
    BY <1>3 DEF HookReject
  <2> QED
    BY <2>1 DEF Shape
<1>4. CASE HookAlreadyPaid(h)
  <2>1. PICK d : d = hook[h].delivery
    OBVIOUS
  <2>2. /\ UNCHANGED <<invoice, payments>> /\ delivery' = [delivery EXCEPT ![d] = "accepted"]
        /\ hook[h].status = "paid" /\ sent[d].amount = hook[h].total /\ pc[h] = "locked"
    BY <1>4, <2>1 DEF HookAlreadyPaid, Answer, AmountMatches
  <2>3. /\ sent[d].invoice \in Invoices
        /\ invoice[sent[d].invoice].status = "paid"
        /\ invoice[sent[d].invoice].total = sent[d].amount
    BY <2>1, <2>2 DEF HookKnows
  <2>4. \A e \in Deliveries : e # d => delivery'[e] = delivery[e]
    BY <2>2 DEF Shape
  <2> QED
    BY <2>2, <2>3, <2>4
<1> QED
  BY <1>1, <1>2, <1>3, <1>4 DEF HookAct, HookStep

LEMMA HookPayments ==
  ASSUME SInv, NEW h \in Hooks, HookAct(h), HookLeaves(h)
  PROVE  PaidInFull' /\ PaidOnce'
<1> PaidInFull /\ PaidOnce /\ Shape
  BY DEF SInv
<1>1. sent' = sent
  BY DEF HookLeaves
<1>2. \A d \in Deliveries : delivery[d] = "accepted" =>
         sent[d].invoice \in Invoices /\ sent[d].invoice # None
  BY AcceptedOfInvoices, NoneAssumption
<1>3. \A d \in Deliveries : delivery[d] # None => delivery'[d] = delivery[d]
  BY DEF HookLeaves
<1>4. CASE HookPay(h)
  <2>1. PICK d : d = hook[h].delivery
    OBVIOUS
  <2>2. PICK a : a = sent[d].invoice
    OBVIOUS
  <2>3. /\ d \in Deliveries /\ a \in Invoices
        /\ sent[d].amount = invoice[a].total
        /\ invoice[a].status = "issued"
        /\ invoice'[a].status = "paid" /\ invoice'[a].paidBy = d
        /\ \A i \in Invoices : /\ invoice'[i].total = invoice[i].total
                               /\ i # a => invoice'[i] = invoice[i]
    BY <1>4, <2>1, <2>2, HookPayEffects
  <2>4. delivery' = [delivery EXCEPT ![d] = "accepted"]
    BY <1>4, <2>1, <2>2, HookPayEffects
  <2>5. payments' = [payments EXCEPT ![a] = @ + 1]
    BY <1>4, <2>1, <2>2, HookPayEffects
  <2>6. PaidOnce'
    BY <2>3, <2>5 DEF PaidOnce, Shape
  <2>7. delivery'[d] = "accepted" /\ \A e \in Deliveries : e # d => delivery'[e] = delivery[e]
    BY <2>3, <2>4 DEF Shape
  <2>8. \A e \in Deliveries : delivery'[e] = "accepted" =>
           /\ sent[e].invoice # None
           /\ invoice'[sent[e].invoice].status = "paid"
           /\ invoice'[sent[e].invoice].total = sent[e].amount
    <3>1. ASSUME NEW e \in Deliveries, e # d, delivery'[e] = "accepted"
          PROVE  /\ sent[e].invoice # None
                 /\ invoice'[sent[e].invoice].status = "paid"
                 /\ invoice'[sent[e].invoice].total = sent[e].amount
      <4>1. delivery[e] = "accepted"
        BY <2>7, <3>1
      <4>2. sent[e].invoice \in Invoices /\ invoice[sent[e].invoice].status = "paid"
            /\ invoice[sent[e].invoice].total = sent[e].amount /\ sent[e].invoice # None
        BY <1>2, <4>1 DEF PaidInFull
      <4> QED
        BY <2>3, <4>2
    <3>2. /\ sent[d].invoice # None
          /\ invoice'[sent[d].invoice].status = "paid"
          /\ invoice'[sent[d].invoice].total = sent[d].amount
      BY <2>2, <2>3, NoneAssumption
    <3> QED
      BY <3>1, <3>2
  <2>9. \A i \in Invoices : invoice'[i].status = "paid" =>
           /\ delivery'[invoice'[i].paidBy] = "accepted"
           /\ sent[invoice'[i].paidBy].invoice = i
    <3>1. ASSUME NEW i \in Invoices, i # a, invoice'[i].status = "paid"
          PROVE  /\ delivery'[invoice'[i].paidBy] = "accepted"
                 /\ sent[invoice'[i].paidBy].invoice = i
      <4>1. invoice'[i] = invoice[i] /\ invoice[i].paidBy \in Deliveries
            /\ delivery[invoice[i].paidBy] = "accepted" /\ sent[invoice[i].paidBy].invoice = i
        BY <2>3, <3>1 DEF PaidInFull, Shape
      <4> QED
        BY <2>7, <4>1
    <3> QED
      BY <2>2, <2>3, <2>7, <3>1
  <2> QED
    BY <1>1, <2>6, <2>8, <2>9 DEF PaidInFull
<1>5. CASE ~HookPay(h)
  <2>1. /\ UNCHANGED <<invoice, payments>>
        /\ \A d \in Deliveries : delivery'[d] = "accepted" /\ delivery[d] # "accepted" =>
              /\ sent[d].invoice \in Invoices
              /\ invoice[sent[d].invoice].status = "paid"
              /\ invoice[sent[d].invoice].total = sent[d].amount
    BY <1>5, HookTables
  <2>2. PaidOnce'
    BY <2>1 DEF PaidOnce
  <2>3. \A i \in Invoices : invoice[i].status = "paid" =>
           /\ delivery'[invoice[i].paidBy] = "accepted"
           /\ sent[invoice[i].paidBy].invoice = i
    BY <1>3, NoneAssumption DEF PaidInFull, Shape, Results
  <2>4. PaidInFull'
    BY <1>1, <2>1, <2>3, NoneAssumption DEF PaidInFull
  <2> QED
    BY <2>2, <2>4
<1> QED
  BY <1>4, <1>5

\* One more row in the audit log: the chain of the row's line ends in its new
\* amount, the chains of the other lines and the earlier rows are as before.
LEMMA StaffAudit ==
  ASSUME SInv, NEW s \in Staff, StaffStep(s)
  PROVE  AuditReplays'
<1> AuditReplays /\ Shape
  BY DEF SInv
<1>1. CASE UNCHANGED <<invoice, line, audit>>
  BY <1>1 DEF AuditReplays, AmountAfter
<1>2. CASE OverrideCommit(s)
  <2>1. PICK r : r = req[s].request
    OBVIOUS
  <2>2. PICK N : N = Len(audit)
    OBVIOUS
  <2>3. /\ r.line \in Lines /\ req[s].before = line[r.line] /\ line'[r.line] = r.amount
        /\ \A l \in Lines \ {r.line} : line'[l] = line[l]
    BY <1>2, <2>1, OverrideCommitEffects, RequestFields
  <2>4. PICK e : e = [line |-> r.line, before |-> req[s].before, after |-> r.amount,
                      total |-> req[s].total, key |-> r.key]
    OBVIOUS
  <2>5. audit' = Append(audit, e) /\ e.line = r.line /\ e.after = r.amount
        /\ e.before = line[r.line]
    BY <1>2, <2>1, <2>3, <2>4 DEF OverrideCommit
  <2>6. /\ N \in Nat /\ DOMAIN audit = 1 .. N /\ Len(audit') = N + 1
        /\ DOMAIN audit' = 1 .. N + 1
        /\ \A n \in 1 .. N : audit'[n] = audit[n]
        /\ audit'[N + 1] = e
    BY <2>2, <2>5, AppendRange, LenProperties DEF Shape
  <2>7. \A l, x : \A n \in 0 .. N : AmountAfter(audit, l, n, x) => AmountAfter(audit', l, n, x)
    BY <2>6 DEF AmountAfter
  <2>8. \A n \in 1 .. N + 1 : AmountAfter(audit', audit'[n].line, n - 1, audit'[n].before)
    <3>1. ASSUME NEW n \in 1 .. N
          PROVE  AmountAfter(audit', audit'[n].line, n - 1, audit'[n].before)
      <4>1. AmountAfter(audit, audit[n].line, n - 1, audit[n].before)
        BY <2>6 DEF AuditReplays
      <4>2. n - 1 \in 0 .. N /\ audit'[n] = audit[n]
        BY <2>6
      <4> QED
        BY <2>7, <4>1, <4>2
    <3>2. AmountAfter(audit', r.line, N, line[r.line])
      BY <2>2, <2>3, <2>6, <2>7 DEF AuditReplays
    <3>3. AmountAfter(audit', audit'[N + 1].line, (N + 1) - 1, audit'[N + 1].before)
      BY <2>5, <2>6, <3>2
    <3> QED
      BY <2>6, <3>1, <3>3
  <2>9. \A l \in Lines : AmountAfter(audit', l, N + 1, line'[l])
    <3>1. AmountAfter(audit', r.line, N + 1, r.amount)
      BY <2>5, <2>6 DEF AmountAfter
    <3>2. ASSUME NEW l \in Lines, l # r.line
          PROVE  AmountAfter(audit', l, N + 1, line'[l])
      <4>1. AmountAfter(audit', l, N, line'[l])
        BY <2>2, <2>3, <2>6, <2>7, <3>2 DEF AuditReplays
      <4> QED
        BY <2>5, <2>6, <3>2, <4>1 DEF AmountAfter
    <3> QED
      BY <2>3, <3>1, <3>2
  <2> QED
    BY <2>6, <2>8, <2>9 DEF AuditReplays
<1> QED
  BY <1>1, <1>2, StaffMoney

-----------------------------------------------------------------------------
(* The theorems                                                            *)

LEMMA InitSInv == Init => SInv
<1> SUFFICES ASSUME Init PROVE SInv
  OBVIOUS
<1>1. Shape
  <2>1. audit \in Seq(Range(audit))
    BY EmptySeq DEF Init
  <2>2. InvoiceShape /\ \A i \in Invoices : invoice[i].status = "issued"
    BY DEF Init, InvoiceShape
  <2>3. ReqShape
    BY DEF Init, ReqShape, IdleReq
  <2>4. HookShape
    BY DEF Init, HookShape, IdleHook
  <2>5. line \in [Lines -> Int]
    BY RowsAssumption DEF Init
  <2> QED
    BY <2>1, <2>2, <2>3, <2>4, <2>5
       DEF Init, Shape, InvoiceShape, ReqShape, HookShape, PcValues
<1>2. /\ \A s \in Staff : OverrideKnows(s)
      /\ \A h \in Hooks : HookKnows(h)
      /\ OneProcessor
  BY DEF Init, Workers, OverrideKnows, OverridePc, BothLocked, HookKnows, HookPc,
         Processing, OneProcessor
<1>3. TotalMatchesLines
  BY DEF Init, TotalMatchesLines
<1>4. DeliveredWereSent /\ PaidInFull /\ PaidOnce
  BY NoneAssumption DEF Init, DeliveredWereSent, PaidInFull, PaidOnce, Results
<1>5. AuditReplays
  BY DEF Init, AuditReplays, AmountAfter
<1> QED
  BY <1>1, <1>2, <1>3, <1>4, <1>5 DEF SInv

\* Steps that change neither what a worker knows nor any table but idem.
LEMMA OtherSteps ==
  ASSUME SInv, UNCHANGED <<invoice, line, audit, payments, delivery, rowLock, pc, req, hook>>,
         sent' \in [Deliveries -> Report \cup {None}],
         \A d \in Deliveries : sent[d] # None => sent'[d] = sent[d]
  PROVE  SInv'
<1> Shape
  BY DEF SInv
<1>1. Shape'
  BY DEF Shape
<1>2. \A s \in Staff : OverrideKnows(s)'
  BY DEF SInv, OverrideKnows
<1>3. \A h \in Hooks : HookKnows(h)'
  BY HookFrame DEF SInv
<1>4. OneProcessor' /\ TotalMatchesLines' /\ PaidOnce' /\ AuditReplays'
  BY DEF SInv, OneProcessor, TotalMatchesLines, PaidOnce, AuditReplays
<1>5. DeliveredWereSent'
  BY DEF SInv, DeliveredWereSent
<1>6. PaidInFull'
  <2>1. \A d \in Deliveries : delivery[d] = "accepted" => sent'[d] = sent[d]
    BY AcceptedOfInvoices
  <2>2. \A i \in Invoices : invoice[i].status = "paid" =>
           invoice[i].paidBy \in Deliveries /\ delivery[invoice[i].paidBy] = "accepted"
    BY DEF SInv, Shape, PaidInFull
  <2> QED
    BY <2>1, <2>2 DEF SInv, PaidInFull
<1> QED
  BY <1>1, <1>2, <1>3, <1>4, <1>5, <1>6 DEF SInv

LEMMA NextSInv == SInv /\ [Next]_vars => SInv'
<1> SUFFICES ASSUME SInv, [Next]_vars PROVE SInv'
  OBVIOUS
<1> Shape
  BY DEF SInv
<1>1. ASSUME NEW s \in Staff, StaffStep(s)
      PROVE  SInv'
  <2>1. StaffKeeps(s)
    BY <1>1, StaffStepKeeps
  <2>2. Shape' /\ StaffLeaves(s)
    BY <2>1 DEF StaffKeeps
  <2>3. DeliveredWereSent'
    BY <2>2 DEF StaffLeaves, external, SInv, DeliveredWereSent
  <2> QED
    BY <1>1, <2>1, <2>2, <2>3, StaffKnowledge, StaffTotals, StaffPayments, StaffAudit DEF SInv
<1>2. ASSUME NEW h \in Hooks, HookAct(h)
      PROVE  SInv'
  <2>1. HookKeeps(h)
    BY <1>2, HookStepKeeps
  <2>2. Shape' /\ HookLeaves(h)
    BY <2>1 DEF HookKeeps
  <2>3. DeliveredWereSent'
    BY <2>2 DEF HookLeaves, SInv, DeliveredWereSent
  <2>4. AuditReplays'
    BY <2>2 DEF HookLeaves, SInv, AuditReplays
  <2> QED
    BY <1>2, <2>1, <2>2, <2>3, <2>4, HookKnowledge, HookTotals, HookPayments DEF SInv
<1>3. ASSUME NEW d \in Deliveries, ProcessorReports(d)
      PROVE  SInv'
  <2>1. PICK i \in Invoices \cup {None}, a \in Amounts :
           sent[d] = None /\ sent' = [sent EXCEPT ![d] = [invoice |-> i, amount |-> a]]
    BY <1>3 DEF ProcessorReports
  <2>2. [invoice |-> i, amount |-> a] \in Report
    BY InputsAssumption DEF Report
  <2>3. /\ sent' \in [Deliveries -> Report \cup {None}]
        /\ \A e \in Deliveries : sent[e] # None => sent'[e] = sent[e]
    BY <2>1, <2>2 DEF Shape
  <2> QED
    BY <1>3, <2>3, OtherSteps DEF ProcessorReports, tables
<1>4. ASSUME \/ \E k \in Keys : CleanupKey(k)
             \/ ReconRead
             \/ \E i \in Invoices : ReconSumLines(i)
             \/ UNCHANGED vars
      PROVE  SInv'
  BY <1>4, OtherSteps DEF CleanupKey, ReconRead, ReconSumLines, vars, tables, external, Shape
<1> QED
  BY <1>1, <1>2, <1>3, <1>4 DEF Next, StaffStep, HookAct

\* The inductive invariant holds in every reachable state.
THEOREM SettlementInvariance == Spec => []SInv
BY InitSInv, NextSInv, PTL DEF Spec

\* The total stored on an invoice is that of its lines, whatever the overrides
\* and payments that run at the same time.
THEOREM TotalsExact == Spec => []TotalMatchesLines
<1>1. SInv => TotalMatchesLines
  BY DEF SInv
<1> QED
  BY <1>1, SettlementInvariance, PTL

\* A payment is accepted only for the full total of its invoice.
THEOREM PaymentsExact == Spec => []PaidInFull
<1>1. SInv => PaidInFull
  BY DEF SInv
<1> QED
  BY <1>1, SettlementInvariance, PTL

\* Repeated and overlapping deliveries pay an invoice once.
THEOREM PaymentsOnce == Spec => []PaidOnce
<1>1. SInv => PaidOnce
  BY DEF SInv
<1> QED
  BY <1>1, SettlementInvariance, PTL

\* The audit log is an unbroken account of every line item.
THEOREM AuditComplete == Spec => []AuditReplays
<1>1. SInv => AuditReplays
  BY DEF SInv
<1> QED
  BY <1>1, SettlementInvariance, PTL

\* A paid invoice and its lines never change again.
THEOREM PaidIsFinal == Spec => PaidFrozen
<1> DEFINE Frozen == \A i \in Invoices : invoice[i].status = "paid" =>
                        /\ invoice'[i] = invoice[i]
                        /\ \A l \in Lines : InvoiceOf[l] = i => line'[l] = line[l]
<1>1. ASSUME SInv, [Next]_vars PROVE [Frozen]_vars
  <2>1. ASSUME NEW s \in Staff, StaffStep(s) PROVE Frozen
    BY <1>1, <2>1, StaffPaid DEF LinesOf
  <2>2. ASSUME NEW h \in Hooks, HookAct(h) PROVE Frozen
    <3>1. line' = line
      BY <1>1, <2>2, HookStepKeeps DEF HookKeeps, HookLeaves
    <3>2. CASE HookPay(h)
      <4>1. PICK d : d = hook[h].delivery
        OBVIOUS
      <4>2. PICK a : a = sent[d].invoice
        OBVIOUS
      <4>3. invoice[a].status = "issued" /\ \A i \in Invoices : i # a => invoice'[i] = invoice[i]
        BY <1>1, <3>2, <4>1, <4>2, HookPayEffects
      <4> QED
        BY <3>1, <4>3
    <3> QED
      BY <1>1, <2>2, <3>1, <3>2, HookTables
  <2>3. CASE \/ \E d \in Deliveries : ProcessorReports(d)
             \/ \E k \in Keys : CleanupKey(k)
             \/ ReconRead
             \/ \E i \in Invoices : ReconSumLines(i)
             \/ UNCHANGED vars
    BY <2>3 DEF ProcessorReports, CleanupKey, ReconRead, ReconSumLines, vars, tables
  <2> QED
    BY <1>1, <2>1, <2>2, <2>3 DEF Next, StaffStep, HookAct
<1> QED
  BY <1>1, SettlementInvariance, PTL DEF Spec, PaidFrozen

-----------------------------------------------------------------------------
(* Idempotency keys                                                        *)

\* Only the commit of an override records a key or writes the audit log.
LEMMA StaffKeys ==
  ASSUME SInv, NEW s \in Staff, StaffStep(s)
  PROVE  /\ \A t \in Staff \ {s} : pc'[t] = pc[t] /\ req'[t] = req[t]
         /\ \/ OverrideCommit(s)
            \/ UNCHANGED <<idem, audit>>
         /\ \/ pc'[s] # "keyed"
            \/ OverrideInsertKey(s)
<1>1. \A t \in Staff \ {s} : pc'[t] = pc[t] /\ req'[t] = req[t]
  BY StaffStepKeeps DEF StaffKeeps, StaffLeaves, Workers
<1>2. OverrideCommit(s) \/ UNCHANGED <<idem, audit>>
  BY DEF StaffStep, OverrideStep, OverrideBegin, OverrideNotFound, OverrideLockLine,
         OverrideLockInvoice, OverridePaid, OverrideSum, OverrideInsertKey,
         OverrideKeyTaken, OverrideAbort, tables
<1>3. pc'[s] # "keyed" \/ OverrideInsertKey(s)
  <2>1. Shape /\ s \in Workers
    BY DEF SInv, Workers
  <2> QED
    BY <2>1 DEF Shape, Finish, StaffStep, OverrideStep, OverrideBegin, OverrideNotFound,
           OverrideLockLine, OverrideLockInvoice, OverridePaid, OverrideSum,
           OverrideKeyTaken, OverrideAbort, OverrideCommit
<1> QED
  BY <1>1, <1>2, <1>3

\* A commit records the key of its request, until then unused, and writes one
\* audit row.
LEMMA CommitKey ==
  ASSUME SInv, KeyInv, NEW s \in Staff, OverrideCommit(s), NEW k \in Keys,
         idem[k] # None
  PROVE  /\ k # req[s].request.key /\ idem'[k] = idem[k]
         /\ RowsOfKey(k)' = RowsOfKey(k)
<1>1. pc[s] = "keyed" /\ Shape
  BY DEF OverrideCommit, SInv
<1>2. k # req[s].request.key
  BY <1>1 DEF KeyInv, KeyUnused
<1>3. idem'[k] = idem[k]
  BY <1>2 DEF OverrideCommit
<1>4. PICK N : N = Len(audit)
  OBVIOUS
<1>5. PICK e : /\ audit' = Append(audit, e)
               /\ e = [line |-> req[s].request.line, before |-> req[s].before,
                       after |-> req[s].request.amount, total |-> req[s].total,
                       key |-> req[s].request.key]
  BY DEF OverrideCommit
<1>6. e.key # k
  BY <1>2, <1>5
<1>7. /\ N \in Nat /\ DOMAIN audit = 1 .. N /\ DOMAIN audit' = 1 .. N + 1
      /\ \A n \in 1 .. N : audit'[n] = audit[n]
      /\ audit'[N + 1] = e
  BY <1>1, <1>4, <1>5, AppendRange, LenProperties DEF Shape
<1>8. RowsOfKey(k)' = RowsOfKey(k)
  BY <1>6, <1>7 DEF RowsOfKey
<1> QED
  BY <1>2, <1>3, <1>8

LEMMA NextKeyInv == SInv /\ KeyInv /\ [Next]_vars => KeyInv'
<1> SUFFICES ASSUME SInv, KeyInv, [Next]_vars PROVE KeyInv'
  OBVIOUS
<1>1. ASSUME NEW s \in Staff, StaffStep(s)
      PROVE  KeyInv'
  <2>1. /\ \A t \in Staff \ {s} : pc'[t] = pc[t] /\ req'[t] = req[t]
        /\ pc'[s] # "keyed" \/ OverrideInsertKey(s)
    BY <1>1, StaffKeys
  <2>2. CASE OverrideInsertKey(s)
    BY <2>1, <2>2, NoneAssumption
       DEF OverrideInsertKey, KeyFree, KeyUnused, KeyInv, tables
  <2>3. CASE pc'[s] # "keyed" /\ OverrideCommit(s)
    <3>1. pc[s] = "keyed"
      BY <2>3 DEF OverrideCommit
    <3>2. \A k \in Keys : k # req[s].request.key => idem'[k] = idem[k]
      BY <2>3 DEF OverrideCommit
    <3>3. \A t \in Staff \ {s} : pc[t] = "keyed" =>
             KeyUnused(req[t].request.key) /\ req[t].request.key \notin Keys \cap {req[s].request.key}
      BY <3>1 DEF KeyInv
    <3> QED
      BY <2>1, <2>3, <3>2, <3>3 DEF KeyInv, KeyUnused
  <2>4. CASE pc'[s] # "keyed" /\ UNCHANGED <<idem, audit>>
    BY <2>1, <2>4 DEF KeyInv, KeyUnused
  <2> QED
    BY <1>1, <2>1, <2>2, <2>3, <2>4, StaffKeys
<1>2. ASSUME NEW h \in Hooks, HookAct(h)
      PROVE  KeyInv'
  <2>1. /\ req' = req /\ idem' = idem
        /\ \A t \in Staff : pc'[t] = pc[t]
    BY <1>2, HookStepKeeps, WorkersAssumption DEF HookKeeps, HookLeaves, Workers
  <2> QED
    BY <2>1 DEF KeyInv, KeyUnused
<1>3. ASSUME NEW k \in Keys, CleanupKey(k)
      PROVE  KeyInv'
  <2>1. /\ req' = req /\ pc' = pc
        /\ \A x \in Keys : idem[x] = None => idem'[x] = None
    BY <1>3 DEF CleanupKey
  <2> QED
    BY <2>1 DEF KeyInv, KeyUnused
<1>4. CASE \/ \E d \in Deliveries : ProcessorReports(d)
           \/ ReconRead
           \/ \E i \in Invoices : ReconSumLines(i)
           \/ UNCHANGED vars
  BY <1>4 DEF ProcessorReports, ReconRead, ReconSumLines, vars, tables, KeyInv, KeyUnused
<1> QED
  BY <1>1, <1>2, <1>3, <1>4 DEF Next, StaffStep, HookAct

LEMMA KeyInvariance == Spec => [](SInv /\ KeyInv)
<1>1. Init => KeyInv
  BY DEF Init, KeyInv, Workers
<1>2. SInv /\ KeyInv /\ [Next]_vars => (SInv /\ KeyInv)'
  BY NextSInv, NextKeyInv
<1> QED
  BY <1>1, <1>2, InitSInv, PTL DEF Spec

\* While an idempotency key is recorded no override carrying it is applied.
THEOREM KeysApplyOnce == Spec => KeyAppliedOnce
<1> DEFINE Once == \A k \in Keys : idem[k] # None /\ idem'[k] # None
                                      => RowsOfKey(k)' = RowsOfKey(k)
<1>1. ASSUME SInv, KeyInv, [Next]_vars PROVE [Once]_vars
  <2>1. ASSUME NEW s \in Staff, StaffStep(s) PROVE Once
    <3>1. CASE OverrideCommit(s)
      BY <1>1, <3>1, CommitKey
    <3>2. CASE UNCHANGED <<idem, audit>>
      BY <3>2 DEF RowsOfKey
    <3> QED
      BY <1>1, <2>1, <3>1, <3>2, StaffKeys
  <2>2. ASSUME NEW h \in Hooks, HookAct(h) PROVE Once
    <3>1. audit' = audit
      BY <1>1, <2>2, HookStepKeeps DEF HookKeeps, HookLeaves
    <3> QED
      BY <3>1 DEF RowsOfKey
  <2>3. CASE \/ \E d \in Deliveries : ProcessorReports(d)
             \/ \E k \in Keys : CleanupKey(k)
             \/ ReconRead
             \/ \E i \in Invoices : ReconSumLines(i)
             \/ UNCHANGED vars
    <3>1. audit' = audit
      BY <2>3 DEF ProcessorReports, CleanupKey, ReconRead, ReconSumLines, vars, tables
    <3> QED
      BY <3>1 DEF RowsOfKey
  <2> QED
    BY <1>1, <2>1, <2>2, <2>3 DEF Next, StaffStep, HookAct
<1> QED
  BY <1>1, KeyInvariance, PTL DEF Spec, KeyAppliedOnce

\* The reconciliation newly reports an invoice only when its total has changed
\* since the check read it.
THEOREM ReportsFollowChanges == Spec => QuietCheckIsClean
<1> DEFINE Quiet == \A i \in Invoices : i \in paged' \ paged => recon[i] # invoice[i].total
<1>1. ASSUME SInv, [Next]_vars PROVE [Quiet]_vars
  <2>1. ASSUME NEW i \in Invoices, ReconSumLines(i) PROVE Quiet
    <3>1. paged' \subseteq paged \cup {i} /\ (i \in paged' \ paged => recon[i] # TotalOf(i, line))
      BY <2>1 DEF ReconSumLines
    <3> QED
      BY <1>1, <3>1 DEF SInv, TotalMatchesLines
  <2>2. ASSUME NEW s \in Staff, StaffStep(s) PROVE paged' = paged
    BY <2>2, SMTT(30) DEF StaffStep, OverrideStep, OverrideBegin, OverrideNotFound, OverrideLockLine,
         OverrideLockInvoice, OverridePaid, OverrideSum, OverrideInsertKey,
         OverrideKeyTaken, OverrideCommit, OverrideAbort, watch
  <2>3. ASSUME NEW h \in Hooks, HookAct(h) PROVE paged' = paged
    BY <2>3 DEF HookAct, HookStep, HookReceive, HookReject, HookInsert, HookDuplicate,
         HookNotFound, HookLock, HookMismatch, HookPay, HookAlreadyPaid, HookAbort,
         Answer, watch
  <2>4. CASE \/ \E d \in Deliveries : ProcessorReports(d)
             \/ \E k \in Keys : CleanupKey(k)
             \/ ReconRead
             \/ UNCHANGED vars
    BY <2>4 DEF ProcessorReports, CleanupKey, ReconRead, vars, watch
  <2> QED
    BY <1>1, <2>1, <2>2, <2>3, <2>4 DEF Next, StaffStep, HookAct
<1> QED
  BY <1>1, SettlementInvariance, PTL DEF Spec, QuietCheckIsClean
-----------------------------------------------------------------------------
(* Type correctness: most types follow from the invariant, the others are  *)
(* shown to be kept given the invariant.                                   *)

\* The total of an invoice is a natural number: a finite sum, floored.
LEMMA TotalOfType ==
  ASSUME NEW i, NEW f \in [Lines -> Int]
  PROVE  TotalOf(i, f) \in Nat
<1> DEFINE g == [l \in LinesOf(i) |-> f[l]]
<1>1. IsFiniteSet(LinesOf(i)) /\ LinesOf(i) \subseteq Lines
  BY FiniteAssumption, FS_Subset DEF LinesOf
<1>2. SumFunctionOnSet(g, LinesOf(i)) \in Int
  <2>1. \A l \in LinesOf(i) : g[l] \in Int
    BY <1>1
  <2> HIDE DEF g
  <2> QED
    BY <1>1, <2>1, SumType
<1>3. TotalOf(i, f) = MaxZero(SumFunctionOnSet(g, LinesOf(i)))
  BY DEF TotalOf, LineSum, SumFunction
<1> QED
  BY <1>2, <1>3 DEF MaxZero

ReqType == [request : Request \cup {None}, before : Int, total : Nat]
HookType == [delivery : Deliveries \cup {None}, status : {"issued", "paid"}, total : Nat]

Typed ==
  /\ \A i \in Invoices : invoice[i].paidBy \in Deliveries \cup {None}
  /\ audit \in Seq(AuditRow)
  /\ idem \in [Keys -> Request \cup {None}]
  /\ acked \subseteq Deliveries
  /\ req \in [Staff -> ReqType]
  /\ hook \in [Hooks -> HookType]
  /\ recon \in [Invoices -> Nat \cup {None}] \cup {None}
  /\ paged \subseteq Invoices

LEMMA InvoiceTyped == SInv /\ Typed => invoice \in [Invoices -> InvoiceRow]
<1> SUFFICES ASSUME SInv, Typed PROVE invoice \in [Invoices -> InvoiceRow]
  OBVIOUS
<1>1. /\ InvoiceShape /\ line \in [Lines -> Int]
      /\ \A i \in Invoices : /\ invoice[i].status \in {"issued", "paid"}
                             /\ invoice[i].paidBy \in Deliveries \cup {None}
  BY DEF SInv, Typed, Shape, InvoiceShape
<1>2. \A i \in Invoices : invoice[i].total \in Nat
  BY <1>1, TotalOfType DEF SInv, TotalMatchesLines
<1> QED
  BY <1>1, <1>2 DEF InvoiceShape, InvoiceRow

LEMMA TypedIsTypeOK == SInv /\ Typed => TypeOK
  BY InvoiceTyped DEF Typed, TypeOK, SInv, Shape, ReqType, HookType

\* What an override reads is typed.
LEMMA StaffTypedReq ==
  ASSUME SInv, Typed, NEW s \in Staff, StaffStep(s)
  PROVE  req' \in [Staff -> ReqType]
<1>1. IdleReq \in ReqType
  BY DEF IdleReq, ReqType
<1>2. line \in [Lines -> Int] /\ \A r \in Requests : r \in Request
  BY InputsAssumption DEF SInv, Shape
<1>3. CASE OverrideBegin(s)
  <2>1. PICK r \in Requests : req' = [req EXCEPT ![s].request = r]
    BY <1>3 DEF OverrideBegin
  <2> QED
    BY <2>1, <1>2 DEF Typed, ReqType
<1>4. CASE OverrideLockInvoice(s)
  <2>1. PICK v : v = line[req[s].request.line] /\ req' = [req EXCEPT ![s].before = v]
    BY <1>4 DEF OverrideLockInvoice
  <2>2. v \in Int
    <3>1. req[s].request \in Requests
      BY <1>4 DEF SInv, OverrideKnows, OverrideLockInvoice
    <3> QED
      BY <2>1, <3>1, <1>2, RequestFields
  <2> QED
    BY <2>1, <2>2 DEF Typed, ReqType
<1>5. CASE OverrideSum(s)
  <2>1. PICK r : r = req[s].request
    OBVIOUS
  <2>2. PICK v : v = TotalOf(r.invoice, Overridden(line, r)) /\ req' = [req EXCEPT ![s].total = v]
    BY <1>5, <2>1 DEF OverrideSum
  <2>3. v \in Nat
    <3>1. r \in Requests
      BY <1>5, <2>1 DEF SInv, OverrideKnows, OverrideSum
    <3>2. Overridden(line, r) \in [Lines -> Int]
      BY <3>1, <1>2, RequestFields DEF Overridden
    <3> QED
      BY <2>2, <3>2, TotalOfType
  <2> QED
    BY <2>2, <2>3 DEF Typed, ReqType
<1>6. CASE req' = [req EXCEPT ![s] = IdleReq] \/ req' = req
  BY <1>1, <1>6 DEF Typed
<1>7. CASE \/ OverrideNotFound(s) \/ OverrideLockLine(s) \/ OverridePaid(s)
           \/ OverrideInsertKey(s) \/ OverrideKeyTaken(s) \/ OverrideCommit(s)
           \/ OverrideAbort(s)
  BY <1>6, <1>7 DEF OverrideNotFound, OverrideLockLine, OverridePaid, OverrideInsertKey,
         OverrideKeyTaken, OverrideCommit, OverrideAbort
<1> QED
  BY <1>3, <1>4, <1>5, <1>7 DEF StaffStep, OverrideStep

\* What an override commits is typed.
LEMMA StaffTyped ==
  ASSUME SInv, Typed, NEW s \in Staff, StaffStep(s)
  PROVE  Typed'
<1>1. StaffLeaves(s)
  BY StaffStepKeeps DEF StaffKeeps
<1>2. /\ acked' = acked /\ hook' = hook /\ recon' = recon /\ paged' = paged
      /\ \A i \in Invoices : invoice'[i].paidBy = invoice[i].paidBy
  BY <1>1 DEF StaffLeaves, external, watch
<1>3. audit' \in Seq(AuditRow) /\ idem' \in [Keys -> Request \cup {None}]
  <2>1. CASE OverrideCommit(s)
    <3>1. PICK r : r = req[s].request
      OBVIOUS
    <3>2. r \in Request /\ r.line \in Lines /\ r.amount \in Int /\ r.key \in Keys \cup {None}
      BY <2>1, <3>1, RequestFields DEF SInv, OverrideKnows, OverrideCommit, Request
    <3>3. PICK e : /\ audit' = Append(audit, e)
                   /\ e = [line |-> r.line, before |-> req[s].before, after |-> r.amount,
                           total |-> req[s].total, key |-> r.key]
      BY <2>1, <3>1 DEF OverrideCommit
    <3>4. req[s].before \in Int /\ req[s].total \in Nat
      BY DEF Typed, ReqType
    <3>5. e \in AuditRow
      BY <3>2, <3>3, <3>4 DEF AuditRow
    <3>6. audit' \in Seq(AuditRow)
      BY <3>3, <3>5, AppendProperties DEF Typed
    <3>7. idem' = [k \in Keys |-> IF k = r.key THEN r ELSE idem[k]]
      BY <2>1, <3>1 DEF OverrideCommit
    <3> QED
      BY <3>2, <3>6, <3>7 DEF Typed
  <2> QED
    BY <2>1, StaffKeys DEF Typed
<1> QED
  BY <1>2, <1>3, StaffTypedReq DEF Typed

\* What a delivery reads and commits is typed.
LEMMA HookTyped ==
  ASSUME SInv, Typed, NEW h \in Hooks, HookAct(h)
  PROVE  Typed'
<1>1. /\ audit' = audit /\ idem' = idem /\ req' = req /\ recon' = recon /\ paged' = paged
  BY HookStepKeeps DEF HookKeeps, HookLeaves, watch
<1>2. pc[h] # "idle" => hook[h].delivery \in Deliveries /\ sent[hook[h].delivery] # None
  BY DEF SInv, HookKnows
<1>3. acked' \subseteq Deliveries
  BY <1>2 DEF HookAct, HookStep, HookReceive, HookReject, HookInsert, HookDuplicate,
         HookNotFound, HookLock, HookMismatch, HookPay, HookAlreadyPaid, HookAbort,
         Answer, external, Typed
<1>4. hook' \in [Hooks -> HookType]
  <2>1. IdleHook \in HookType
    BY DEF IdleHook, HookType
  <2>2. CASE HookReceive(h)
    <3>1. PICK d \in Deliveries : hook' = [hook EXCEPT ![h].delivery = d]
      BY <2>2 DEF HookReceive
    <3> QED
      BY <3>1 DEF Typed, HookType
  <2>3. CASE HookLock(h)
    <3>1. PICK i : i = sent[hook[h].delivery].invoice
      OBVIOUS
    <3>2. /\ i # None
          /\ hook' = [hook EXCEPT ![h] = [delivery |-> @.delivery,
                                          status |-> invoice[i].status,
                                          total |-> invoice[i].total]]
      BY <2>3, <3>1 DEF HookLock
    <3>3. hook[h].delivery \in Deliveries /\ sent[hook[h].delivery] \in Report
      BY <2>3, <1>2 DEF HookLock, SInv, Shape
    <3>4. i \in Invoices
      BY <3>1, <3>2, <3>3 DEF Report
    <3>5. invoice[i].status \in {"issued", "paid"} /\ invoice[i].total \in Nat
      BY <3>4, InvoiceTyped DEF InvoiceRow
    <3>6. [delivery |-> hook[h].delivery, status |-> invoice[i].status,
           total |-> invoice[i].total] \in HookType
      BY <3>3, <3>5 DEF HookType
    <3> QED
      BY <3>2, <3>6 DEF Typed
  <2>4. CASE hook' = [hook EXCEPT ![h] = IdleHook] \/ hook' = hook
    BY <2>1, <2>4 DEF Typed
  <2>5. CASE \/ HookReject(h) \/ HookInsert(h) \/ HookDuplicate(h) \/ HookNotFound(h)
             \/ HookMismatch(h) \/ HookPay(h) \/ HookAlreadyPaid(h) \/ HookAbort(h)
    BY <2>4, <2>5 DEF HookReject, HookInsert, HookDuplicate, HookNotFound, HookMismatch,
           HookPay, HookAlreadyPaid, HookAbort, Answer
  <2> QED
    BY <2>2, <2>3, <2>5 DEF HookAct, HookStep
<1>5. \A i \in Invoices : invoice'[i].paidBy \in Deliveries \cup {None}
  <2>1. CASE HookPay(h)
    <3>1. PICK d : d = hook[h].delivery
      OBVIOUS
    <3>2. PICK a : a = sent[d].invoice
      OBVIOUS
    <3>3. /\ d \in Deliveries /\ invoice'[a].paidBy = d
          /\ \A i \in Invoices : i # a => invoice'[i] = invoice[i]
      BY <2>1, <3>1, <3>2, HookPayEffects
    <3> QED
      BY <3>3 DEF Typed
  <2> QED
    BY <2>1, HookTables DEF Typed
<1> QED
  BY <1>1, <1>3, <1>4, <1>5 DEF Typed

\* What the reconciliation and the cleanup write is typed.
LEMMA WatchTyped ==
  ASSUME SInv, Typed,
         \/ \E k \in Keys : CleanupKey(k)
         \/ ReconRead
         \/ \E i \in Invoices : ReconSumLines(i)
         \/ \E d \in Deliveries : ProcessorReports(d)
         \/ UNCHANGED vars
  PROVE  Typed'
<1>1. UNCHANGED <<invoice, audit, acked, req, hook>>
  BY DEF CleanupKey, ReconRead, ReconSumLines, ProcessorReports, vars, tables, external
<1>2. idem' \in [Keys -> Request \cup {None}]
  BY DEF CleanupKey, ReconRead, ReconSumLines, ProcessorReports, vars, tables, Typed
<1>3. /\ recon' \in [Invoices -> Nat \cup {None}] \cup {None}
      /\ paged' \subseteq Invoices
  <2>1. CASE ReconRead
    <3>1. \A i \in Invoices : invoice[i].total \in Nat
      BY InvoiceTyped DEF InvoiceRow
    <3> QED
      BY <2>1, <3>1 DEF ReconRead, Typed
  <2>2. ASSUME NEW i \in Invoices, ReconSumLines(i)
        PROVE  /\ recon' \in [Invoices -> Nat \cup {None}] \cup {None}
               /\ paged' \subseteq Invoices
    BY <2>2 DEF ReconSumLines, Typed
  <2>3. CASE UNCHANGED <<recon, paged>>
    BY <2>3 DEF Typed
  <2> QED
    BY <2>1, <2>2, <2>3 DEF CleanupKey, ProcessorReports, vars, watch
<1> QED
  BY <1>1, <1>2, <1>3 DEF Typed

\* Every variable of Settlement stays in its type; the totals are sums over any
\* finite number of lines.
THEOREM TypeCorrect == Spec => []TypeOK
<1>1. Init => Typed
  BY EmptySeq DEF Init, Typed, IdleReq, ReqType, IdleHook, HookType
<1>2. SInv /\ Typed /\ [Next]_vars => Typed'
  BY StaffTyped, HookTyped, WatchTyped DEF Next, StaffStep, HookAct
<1> QED
  BY <1>1, <1>2, InitSInv, NextSInv, TypedIsTypeOK, PTL DEF Spec
-----------------------------------------------------------------------------
(* Settlement implements InvoiceBook                                       *)

PaidWith == [i \in Invoices |->
               IF invoice[i].status = "paid" THEN invoice[i].paidBy ELSE None]

\* The book counts a total as the code does.
LEMMA BookTotal ==
  ASSUME NEW i, NEW a
  PROVE  Book!Total(i, a) = TotalOf(i, a)
<1>1. LinesOf(i) = {l \in Lines : InvoiceOf[l] = i}
  BY DEF LinesOf
<1>2. LineSum(i, a) = SumFunction([l \in {x \in Lines : InvoiceOf[x] = i} |-> a[l]])
  BY <1>1 DEF LineSum
<1>3. ASSUME NEW f PROVE Book!SumFunction(f) = SumFunction(f)
  BY DEF Book!SumFunction, Book!SumFunctionOnSet, Book!FoldFunctionOnSet, Book!MapThenFoldSet,
         SumFunction, SumFunctionOnSet, FoldFunctionOnSet, MapThenFoldSet
<1> QED
  BY <1>2, <1>3 DEF Book!Total, TotalOf, MaxZero

\* The commit of an override is the override of the book.
LEMMA CommitIsOverride ==
  ASSUME SInv, KeyInv, NEW s \in Staff, OverrideCommit(s)
  PROVE  Book!Next
<1>1. PICK r : r = req[s].request
  OBVIOUS
<1>2. /\ r \in Requests /\ InvoiceOf[r.line] = r.invoice
      /\ invoice[r.invoice].status = "issued" /\ req[s].before = line[r.line]
      /\ line' = Overridden(line, r)
      /\ \A i \in Invoices : /\ invoice'[i].status = invoice[i].status
                             /\ invoice'[i].paidBy = invoice[i].paidBy
  BY <1>1, OverrideCommitEffects
<1>3. req[s].total = TotalOf(r.invoice, line')
  BY <1>1, <1>2 DEF SInv, OverrideKnows, OverrideCommit
<1>4. r.invoice \in Invoices
  BY <1>2, RequestFields
<1>5. /\ audit' = Append(audit, [line |-> r.line, before |-> line[r.line],
                                 after |-> r.amount, total |-> Book!Total(r.invoice, line'),
                                 key |-> r.key])
      /\ idem' = [k \in Keys |-> IF k = r.key THEN r ELSE idem[k]]
      /\ sent' = sent
  BY <1>1, <1>2, <1>3, BookTotal DEF OverrideCommit, external
<1>6. PaidWith' = PaidWith /\ PaidWith[r.invoice] = None
  BY <1>2, <1>4 DEF PaidWith
<1>7. \A k \in Keys : k = r.key => idem[k] = None
  BY <1>1 DEF OverrideCommit, KeyInv, KeyUnused
<1>8. line' = [line EXCEPT ![r.line] = r.amount]
  BY <1>2 DEF Overridden
<1>9. Book!Override(r)
  BY <1>2, <1>5, <1>6, <1>7, <1>8 DEF Book!Override, PaidWith
<1> QED
  BY <1>2, <1>9 DEF Book!Next

\* A payment that is accepted is the payment of the book.
LEMMA HookPayIsPay ==
  ASSUME SInv, NEW h \in Hooks, HookPay(h), HookLeaves(h)
  PROVE  Book!Next
<1>1. PICK d : d = hook[h].delivery
  OBVIOUS
<1>2. PICK a : a = sent[d].invoice
  OBVIOUS
<1>3. /\ d \in Deliveries /\ a \in Invoices
      /\ sent[d].amount = invoice[a].total
      /\ invoice[a].status = "issued"
      /\ invoice'[a].status = "paid" /\ invoice'[a].paidBy = d
      /\ \A i \in Invoices : i # a => invoice'[i] = invoice[i]
  BY <1>1, <1>2, HookPayEffects
<1>4. sent[d] \in Report
  BY <1>1, ProcessingAlone DEF HookPay, Processing
<1>5. sent[d] = [invoice |-> a, amount |-> Book!Total(a, line)]
  <2>1. sent[d].amount = Book!Total(a, line)
    BY <1>3, BookTotal DEF SInv, TotalMatchesLines
  <2> QED
    BY <1>2, <1>4, <2>1 DEF Report
<1>6. PaidWith[a] = None /\ PaidWith' = [PaidWith EXCEPT ![a] = d]
  BY <1>3 DEF PaidWith
<1>7. UNCHANGED <<line, audit, idem, sent>>
  BY DEF HookLeaves
<1>8. Book!Pay(a, d)
  BY <1>5, <1>6, <1>7 DEF Book!Pay, PaidWith
<1> QED
  BY <1>3, <1>8 DEF Book!Next

\* Before its commit an override leaves the book as it is.
LEMMA UncommittedOverride ==
  ASSUME SInv, NEW s \in Staff, StaffStep(s), ~ OverrideCommit(s)
  PROVE  UNCHANGED <<line, audit, idem, sent, PaidWith>>
<1>1. UNCHANGED <<line, audit, idem>>
  BY SMTT(30) DEF StaffStep, OverrideStep, OverrideBegin, OverrideNotFound, OverrideLockLine,
         OverrideLockInvoice, OverridePaid, OverrideSum, OverrideInsertKey,
         OverrideKeyTaken, OverrideAbort, tables
<1>2. /\ sent' = sent
      /\ \A i \in Invoices : /\ invoice'[i].status = invoice[i].status
                             /\ invoice'[i].paidBy = invoice[i].paidBy
  BY StaffStepKeeps DEF StaffKeeps, StaffLeaves, external
<1>3. PaidWith' = PaidWith
  BY <1>2 DEF PaidWith
<1> QED
  BY <1>1, <1>2, <1>3

LEMMA NextIsBook ==
  ASSUME SInv, KeyInv, [Next]_vars
  PROVE  [Book!Next]_(Book!book)
<1>1. ASSUME UNCHANGED <<line, audit, idem, sent, PaidWith>>
      PROVE  UNCHANGED Book!book
  BY <1>1 DEF Book!book, PaidWith
<1>2. ASSUME NEW s \in Staff, StaffStep(s)
      PROVE  Book!Next \/ UNCHANGED Book!book
  BY <1>1, <1>2, CommitIsOverride, UncommittedOverride
<1>3. ASSUME NEW h \in Hooks, HookAct(h)
      PROVE  Book!Next \/ UNCHANGED Book!book
  <2>1. HookLeaves(h)
    BY <1>3, HookStepKeeps DEF HookKeeps
  <2>2. CASE HookPay(h)
    BY <2>1, <2>2, HookPayIsPay
  <2>3. CASE ~ HookPay(h)
    <3>1. UNCHANGED <<line, audit, idem, sent, invoice>>
      BY <1>3, <2>1, <2>3, HookTables DEF HookLeaves
    <3> QED
      BY <1>1, <3>1 DEF PaidWith
  <2> QED
    BY <2>2, <2>3
<1>4. ASSUME NEW k \in Keys, CleanupKey(k)
      PROVE  Book!Next
  <2>1. Book!Forget(k)
    BY <1>4 DEF CleanupKey, Book!Forget, external
  <2> QED
    BY <2>1 DEF Book!Next
<1>5. ASSUME NEW d \in Deliveries, ProcessorReports(d)
      PROVE  Book!Next
  <2>1. Book!Report(d)
    BY <1>5 DEF ProcessorReports, Book!Report, tables
  <2> QED
    BY <2>1 DEF Book!Next
<1>6. CASE ReconRead \/ (\E i \in Invoices : ReconSumLines(i)) \/ UNCHANGED vars
  <2>1. UNCHANGED <<line, audit, idem, sent, invoice>>
    BY <1>6 DEF ReconRead, ReconSumLines, vars, tables, external
  <2> QED
    BY <1>1, <2>1 DEF PaidWith
<1> QED
  BY <1>2, <1>3, <1>4, <1>5, <1>6 DEF Next, StaffStep, HookAct

\* Overrides of several statements and repeated payment deliveries, interleaved in
\* any way, are serializable: they behave as the single steps of InvoiceBook.
THEOREM ImplementsBook == Spec => BookSpec
<1>1. Init => Book!Init
  BY DEF Init, Book!Init
<1>2. SInv /\ KeyInv /\ [Next]_vars => [Book!Next]_(Book!book)
  BY NextIsBook
<1> QED
  BY <1>1, <1>2, KeyInvariance, PTL DEF Spec, BookSpec, Book!Spec
-----------------------------------------------------------------------------
(* No deadlock: locks are released with their transaction, and what a      *)
(* waiting transaction waits for is always further on than itself.         *)

\* A worker that is done holds no row.
LEMMA FinishReleases ==
  ASSUME NEW w \in Workers, Finish(w), Shape
  PROVE  \A x \in Rows : rowLock'[x] # w
BY NoneAssumption DEF Finish, Unlocked

LEMMA StaffLocks ==
  ASSUME SInv, LocksHeld, NEW s \in Staff, StaffStep(s), NEW x \in Rows, rowLock'[x] = s
  PROVE  \/ x \in Lines /\ pc'[s] \in {"lockInvoice"} \cup BothLocked
         \/ x \in Invoices /\ pc'[s] \in BothLocked
<1> Shape /\ s \in Workers /\ OverrideKnows(s)
  BY DEF SInv, Workers
<1>1. CASE OverrideLockLine(s)
  <2>1. /\ pc[s] = "lockLine" /\ pc'[s] = "lockInvoice"
        /\ rowLock' = [rowLock EXCEPT ![req[s].request.line] = s]
    BY <1>1 DEF OverrideLockLine, Shape
  <2>2. req[s].request.line \in Lines
    BY <2>1, RequestFields DEF OverrideKnows
  <2>3. rowLock[x] # s
    BY <2>1 DEF LocksHeld, BothLocked
  <2> QED
    BY <2>1, <2>2, <2>3 DEF Shape
<1>2. CASE OverrideLockInvoice(s)
  <2>1. /\ pc[s] = "lockInvoice" /\ pc'[s] = "locked"
        /\ rowLock' = [rowLock EXCEPT ![req[s].request.invoice] = s]
    BY <1>2 DEF OverrideLockInvoice, Shape
  <2>2. req[s].request.invoice \in Invoices
    BY <2>1, RequestFields DEF OverrideKnows
  <2> QED
    BY <2>1, <2>2 DEF Shape, LocksHeld, BothLocked, Rows
<1>3. CASE OverrideSum(s) \/ OverrideInsertKey(s)
  <2>1. rowLock' = rowLock /\ pc[s] \in BothLocked /\ pc'[s] \in BothLocked
    BY <1>3 DEF OverrideSum, OverrideInsertKey, Shape, BothLocked
  <2> QED
    BY <2>1 DEF LocksHeld, Rows
<1>4. CASE OverrideBegin(s)
  <2>1. rowLock' = rowLock /\ pc[s] = "idle"
    BY <1>4 DEF OverrideBegin
  <2> QED
    BY <2>1 DEF LocksHeld, BothLocked
<1>5. CASE Finish(s)
  BY <1>5, FinishReleases
<1> QED
  BY <1>1, <1>2, <1>3, <1>4, <1>5
     DEF StaffStep, OverrideStep, OverrideNotFound, OverridePaid, OverrideKeyTaken,
         OverrideCommit, OverrideAbort

LEMMA HookLocks ==
  ASSUME SInv, LocksHeld, NEW h \in Hooks, HookAct(h), NEW x \in Rows, rowLock'[x] = h
  PROVE  x \in Invoices /\ pc'[h] = "locked"
<1> Shape /\ h \in Workers /\ HookKnows(h)
  BY DEF SInv, Workers
<1>1. CASE HookLock(h)
  <2>1. PICK i : i = sent[hook[h].delivery].invoice
    OBVIOUS
  <2>2. /\ pc[h] = "lock" /\ pc'[h] = "locked" /\ i # None
        /\ rowLock' = [rowLock EXCEPT ![i] = h]
    BY <1>1, <2>1 DEF HookLock, Shape
  <2>3. i \in Invoices
    BY <2>1, <2>2, ProcessingAlone DEF Processing, Report
  <2> QED
    BY <2>2, <2>3 DEF Shape, LocksHeld
<1>2. CASE HookReceive(h) \/ HookInsert(h)
  <2>1. rowLock' = rowLock /\ pc[h] # "locked"
    BY <1>2 DEF HookReceive, HookInsert
  <2> QED
    BY <2>1 DEF LocksHeld
<1>3. CASE Finish(h)
  BY <1>3, FinishReleases
<1> QED
  BY <1>1, <1>2, <1>3
     DEF HookAct, HookStep, HookReject, HookDuplicate, HookNotFound, HookMismatch,
         HookPay, HookAlreadyPaid, HookAbort, Answer

LEMMA NextLocksHeld == SInv /\ LocksHeld /\ [Next]_vars => LocksHeld'
<1> SUFFICES ASSUME SInv, LocksHeld, [Next]_vars PROVE LocksHeld'
  OBVIOUS
<1>1. ASSUME NEW s \in Staff, StaffStep(s)
      PROVE  LocksHeld'
  <2>1. LocksOfOthers(s) /\ \A v \in Workers \ {s} : pc'[v] = pc[v]
    BY <1>1, StaffStepKeeps DEF StaffKeeps, StaffLeaves
  <2>2. \A t \in Staff \ {s}, x \in Rows : rowLock'[x] = t =>
           \/ x \in Lines /\ pc'[t] \in {"lockInvoice"} \cup BothLocked
           \/ x \in Invoices /\ pc'[t] \in BothLocked
    BY <2>1 DEF LocksOfOthers, LocksHeld, Workers
  <2>3. \A h \in Hooks, x \in Rows : rowLock'[x] = h => x \in Invoices /\ pc'[h] = "locked"
    BY <2>1, WorkersAssumption DEF LocksOfOthers, LocksHeld, Workers
  <2> QED
    BY <1>1, <2>2, <2>3, StaffLocks DEF LocksHeld
<1>2. ASSUME NEW h \in Hooks, HookAct(h)
      PROVE  LocksHeld'
  <2>1. LocksOfOthers(h) /\ \A v \in Workers \ {h} : pc'[v] = pc[v]
    BY <1>2, HookStepKeeps DEF HookKeeps, HookLeaves
  <2>2. \A s \in Staff, x \in Rows : rowLock'[x] = s =>
           \/ x \in Lines /\ pc'[s] \in {"lockInvoice"} \cup BothLocked
           \/ x \in Invoices /\ pc'[s] \in BothLocked
    BY <2>1, WorkersAssumption DEF LocksOfOthers, LocksHeld, Workers
  <2>3. \A g \in Hooks \ {h}, x \in Rows : rowLock'[x] = g => x \in Invoices /\ pc'[g] = "locked"
    BY <2>1 DEF LocksOfOthers, LocksHeld, Workers
  <2> QED
    BY <1>2, <2>2, <2>3, HookLocks DEF LocksHeld
<1>3. CASE \/ \E d \in Deliveries : ProcessorReports(d)
           \/ \E k \in Keys : CleanupKey(k)
           \/ ReconRead
           \/ \E i \in Invoices : ReconSumLines(i)
           \/ UNCHANGED vars
  <2>1. rowLock' = rowLock /\ pc' = pc
    BY <1>3 DEF ProcessorReports, CleanupKey, ReconRead, ReconSumLines, vars
  <2> QED
    BY <2>1 DEF LocksHeld
<1> QED
  BY <1>1, <1>2, <1>3 DEF Next, StaffStep, HookAct

\* What a waiting transaction waits for is at a later point than itself.
LEMMA WaitsForLater ==
  ASSUME SInv, LocksHeld, NEW w \in Workers, NEW v \in Workers, Waits(w, v)
  PROVE  \/ pc[w] = "summed" /\ pc[v] = "keyed"
         \/ pc[w] \in {"lockInvoice", "lock"} /\ pc[v] \in {"locked", "summed", "keyed"}
         \/ /\ pc[w] \in {"lockLine", "insert", "reject"}
            /\ pc[v] \in {"lockInvoice", "lock", "locked", "summed", "keyed"}
<1>1. CASE w \in Staff /\ pc[w] \in {"lockLine", "lockInvoice"}
  <2>1. /\ req[w].request.line \in Lines /\ req[w].request.invoice \in Invoices
        /\ req[w].request.line \in Rows /\ req[w].request.invoice \in Rows
    BY <1>1, RequestFields DEF SInv, OverrideKnows
  <2> QED
    BY <1>1, <2>1, RowsAssumption DEF Waits, LocksHeld, BothLocked, Workers
<1>2. CASE w \in Hooks /\ pc[w] = "lock"
  BY <1>2, RowsAssumption, WorkersAssumption DEF Waits, LocksHeld, BothLocked, Workers, Rows
<1>3. CASE ~ (w \in Staff /\ pc[w] \in {"lockLine", "lockInvoice"}) /\ ~ (w \in Hooks /\ pc[w] = "lock")
  BY <1>3 DEF Waits, Processing
<1> QED
  BY <1>1, <1>2, <1>3

LEMMA LaterIsFree == SInv /\ LocksHeld => NoDeadlock
<1> SUFFICES ASSUME SInv, LocksHeld, NEW D \in SUBSET Workers, D # {}
             PROVE  \E w \in D : \A v \in D : ~ Waits(w, v)
  BY DEF NoDeadlock
<1>1. CASE \E w \in D : pc[w] \in {"idle", "locked", "keyed"}
  BY <1>1, WaitsForLater
<1>2. CASE /\ \A w \in D : pc[w] \notin {"locked", "keyed"}
           /\ \E w \in D : pc[w] = "summed"
  BY <1>2, WaitsForLater
<1>3. CASE /\ \A w \in D : pc[w] \notin {"locked", "keyed", "summed"}
           /\ \E w \in D : pc[w] \in {"lockInvoice", "lock"}
  BY <1>3, WaitsForLater
<1>4. CASE \A w \in D : pc[w] \notin {"locked", "keyed", "summed", "lockInvoice", "lock"}
  BY <1>4, WaitsForLater
<1> QED
  BY <1>1, <1>2, <1>3, <1>4

\* However many overrides and deliveries run, they never wait for one another in a
\* circle: PostgreSQL has no deadlock to break.
THEOREM NoCircularWait == Spec => []NoDeadlock
<1>1. Init => LocksHeld
  BY NoneAssumption DEF Init, LocksHeld, Workers
<1> QED
  BY <1>1, InitSInv, NextSInv, NextLocksHeld, LaterIsFree, PTL DEF Spec
=============================================================================
