---------------------------- MODULE MonthlyProofs ----------------------------
(* Theorems about MonthlyRun under InvoicePages for any number of customers, *)
(* jobs and months, and any schedule: type correctness, what exit status 0   *)
(* means, and that paging through the invoice list skips none.               *)
EXTENDS InvoicePages, FiniteSetTheorems, TLAPS

-----------------------------------------------------------------------------
(* Arithmetic                                                              *)

\* Multiplication by a natural number is monotonic.
LEMMA TimesMonotonic ==
  ASSUME NEW a \in Int, NEW b \in Int, NEW s \in Nat, a <= b
  PROVE  a * s <= b * s
<1>1. (b - a) * s >= 0
  OBVIOUS
<1>2. (b - a) * s = b * s - a * s
  OBVIOUS
<1>. QED
  BY <1>1, <1>2

\* Division leaves a remainder smaller than the divisor.
LEMMA Division ==
  ASSUME NEW n \in Nat, NEW s \in Nat \ {0}
  PROVE  /\ n \div s \in Nat
         /\ (n \div s) * s <= n
         /\ n < (n \div s + 1) * s
OBVIOUS

\* What lies on no page up to the n-th lies behind it.
LEMMA BehindPage ==
  ASSUME NEW r \in Nat, NEW n \in Nat, NEW s \in Nat \ {0},
         n * s <= r, r \div s # n
  PROVE  (n + 1) * s <= r
<1>. DEFINE q == r \div s
<1>1. q \in Nat /\ q * s <= r /\ r < (q + 1) * s
  BY Division
<1>2. q >= n
  <2>. SUFFICES ASSUME q + 1 <= n PROVE FALSE
    BY <1>1
  <2>1. (q + 1) * s <= n * s
    BY <1>1, TimesMonotonic
  <2>. QED
    BY <1>1, <2>1
<1>3. n + 1 <= q
  BY <1>1, <1>2
<1>4. (n + 1) * s <= q * s
  BY <1>1, <1>3, TimesMonotonic
<1>. QED
  BY <1>1, <1>4

\* The clock is a natural number.
LEMMA MinuteIsNat ==
  ASSUME TypeOK
  PROVE  /\ minute \in Nat
         /\ FirstMonth * MonthLength <= minute
         /\ minute < (LastMonth + 1) * MonthLength
<1>1. /\ MonthLength \in Nat \ {0}
      /\ FirstMonth \in Nat \ {0} /\ LastMonth \in Nat
  BY ClockAssumption
<1>. DEFINE lo == FirstMonth * MonthLength
            hi == (LastMonth + 1) * MonthLength
<1>2. lo \in Nat /\ hi \in Nat
  BY <1>1
<1>3. minute \in lo .. hi - 1
  BY DEF TypeOK
<1>. HIDE DEF lo, hi
<1>4. minute \in Nat /\ lo <= minute /\ minute < hi
  BY <1>2, <1>3
<1>. QED
  BY <1>4 DEF lo, hi

\* The month before that of the clock is one of the periods.
LEMMA PreviousIsPeriod ==
  ASSUME TypeOK
  PROVE  PreviousMonthPeriod(minute) \in Periods
<1>. DEFINE q == minute \div MonthLength
<1>1. /\ minute \in Nat /\ MonthLength \in Nat \ {0}
      /\ FirstMonth \in Nat \ {0} /\ LastMonth \in Nat
      /\ FirstMonth * MonthLength <= minute /\ minute < (LastMonth + 1) * MonthLength
  BY MinuteIsNat, ClockAssumption
<1>2. q \in Nat /\ q * MonthLength <= minute /\ minute < (q + 1) * MonthLength
  BY <1>1, Division
<1>3. q <= LastMonth
  <2>. SUFFICES ASSUME LastMonth + 1 <= q PROVE FALSE
    BY <1>1, <1>2
  <2>1. (LastMonth + 1) * MonthLength <= q * MonthLength
    BY <1>1, <1>2, TimesMonotonic
  <2>. HIDE DEF q
  <2>2. (LastMonth + 1) * MonthLength \in Int /\ q * MonthLength \in Int
    BY <1>1, <1>2
  <2>. QED
    BY <1>1, <1>2, <2>1, <2>2
<1>4. FirstMonth <= q
  <2>. SUFFICES ASSUME q + 1 <= FirstMonth PROVE FALSE
    BY <1>1, <1>2
  <2>1. (q + 1) * MonthLength <= FirstMonth * MonthLength
    BY <1>1, <1>2, TimesMonotonic
  <2>. HIDE DEF q
  <2>2. (q + 1) * MonthLength \in Int /\ FirstMonth * MonthLength \in Int
    BY <1>1, <1>2
  <2>. QED
    BY <1>1, <1>2, <2>1, <2>2
<1>. HIDE DEF q
<1>5. q - 1 \in 0 .. LastMonth - 1
  BY <1>1, <1>2, <1>3, <1>4
<1>. QED
  BY <1>5 DEF q, PreviousMonthPeriod, MonthOf, Periods

-----------------------------------------------------------------------------
(* The runner, the jobs and the reconciliation                             *)

JobType == [pc : {"idle", "start", "loop", "failed"}, period : Periods,
            asked : SUBSET Customers, todo : SUBSET Customers,
            doing : Customers \cup {None}]

\* Invoices are never taken back.
LEMMA InvoicedForever ==
  ASSUME TypeOK, RunNext \/ \E p \in Periods : Pay(p),
         NEW c \in Customers, NEW p \in Periods
  PROVE  /\ Invoiced(c, p) => Invoiced(c, p)'
         /\ invoice[c][p] # "draft" => invoice'[c][p] # "draft"
         /\ invoice[c][p] # "none" => invoice'[c][p] # "none"
<1>1. CASE invoice' = invoice
  BY <1>1 DEF Invoiced
<1>2. ASSUME NEW j \in Jobs, IssueCommit(j)
      PROVE  /\ Invoiced(c, p) => Invoiced(c, p)'
             /\ invoice[c][p] # "draft" => invoice'[c][p] # "draft"
             /\ invoice[c][p] # "none" => invoice'[c][p] # "none"
  BY <1>2 DEF IssueCommit, Invoiced, TypeOK
<1>3. ASSUME NEW q \in Periods, Pay(q)
      PROVE  /\ Invoiced(c, p) => Invoiced(c, p)'
             /\ invoice[c][p] # "draft" => invoice'[c][p] # "draft"
             /\ invoice[c][p] # "none" => invoice'[c][p] # "none"
  BY <1>3, PageAssumption DEF Pay, Invoiced, TypeOK
<1>. QED
  BY <1>1, <1>2, <1>3
     DEF RunNext, Tick, Poll, RunnerDies, RunnerStarts, Reconcile, JobStep, Begin,
         IssueBegin, Exit, Fail, Manual

\* What a step may do to a job without breaking the invariant.
LEMMA JobsKeep ==
  ASSUME TypeOK, JobInv, RunNext \/ \E p \in Periods : Pay(p),
         \A j \in Jobs : \/ job'[j] = job[j]
                         \/ job'[j].pc \in {"idle", "failed"}
                         \/ job'[j].pc = "start" /\ job'[j].todo = job'[j].asked
                         \/ job'[j].pc = "loop" /\ job'[j].todo = job'[j].asked
                         \/ /\ job[j].pc = "loop" /\ job'[j].pc = "loop"
                            /\ job'[j].period = job[j].period
                            /\ job'[j].asked = job[j].asked
                            /\ \A c \in job[j].todo \ job'[j].todo :
                                  invoice'[c][job[j].period] \in {"issued", "paid"}
  PROVE  JobInv'
<1>1. \A c \in Customers, p \in Periods : invoice'[c][p] # "draft"
  BY InvoicedForever DEF JobInv
<1>2. ASSUME NEW j \in Jobs
      PROVE  /\ job'[j].pc = "start" => job'[j].todo = job'[j].asked
             /\ job'[j].pc = "loop" =>
                   \A c \in job'[j].asked \ job'[j].todo :
                      invoice'[c][job'[j].period] \in {"issued", "paid"}
  <2>1. job[j].period \in Periods /\ job[j].asked \subseteq Customers
    BY DEF TypeOK
  <2>2. \A c \in job[j].asked : Invoiced(c, job[j].period) =>
                invoice'[c][job[j].period] \in {"issued", "paid"}
    BY <2>1, InvoicedForever DEF Invoiced
  <2>3. CASE job'[j] = job[j]
    BY <2>2, <2>3 DEF JobInv, Invoiced
  <2>4. CASE job'[j].pc \in {"idle", "failed"}
    BY <2>4
  <2>5. CASE job'[j].pc \in {"start", "loop"} /\ job'[j].todo = job'[j].asked
    BY <2>5
  <2>6. CASE /\ job[j].pc = "loop" /\ job'[j].pc = "loop"
             /\ job'[j].period = job[j].period /\ job'[j].asked = job[j].asked
             /\ \A c \in job[j].todo \ job'[j].todo :
                   invoice'[c][job[j].period] \in {"issued", "paid"}
    BY <2>2, <2>6 DEF JobInv, Invoiced
  <2>. QED
    BY <2>3, <2>4, <2>5, <2>6
<1>. QED
  BY <1>1, <1>2 DEF JobInv, Invoiced

LEMMA FailuresBelow ==
  ASSUME TypeOK, failures < MaxFailures
  PROVE  failures + 1 \in 0 .. MaxFailures
<1>1. failures \in 0 .. MaxFailures /\ MaxFailures \in Nat
  BY ClockAssumption DEF TypeOK
<1>. QED
  BY <1>1

\* A dispatched job begins with all it was asked for.
LEMMA DispatchSteps ==
  ASSUME TypeOK, NEW j \in Jobs, NEW S \in SUBSET Customers, Dispatch(j, S)
  PROVE  /\ job' \in [Jobs -> JobType]
         /\ \A k \in Jobs : \/ job'[k] = job[k]
                            \/ job'[k].pc = "start" /\ job'[k].todo = job'[k].asked
<1>1. 0 \in Periods
  BY ClockAssumption DEF Periods
<1>2. [IdleJob EXCEPT !.pc = "start", !.asked = S, !.todo = S] \in JobType
  BY <1>1 DEF IdleJob, JobType
<1>. QED
  BY <1>2 DEF Dispatch, TypeOK, JobType, IdleJob

\* The steps of run_invoicing.
LEMMA JobSteps ==
  ASSUME TypeOK, JobInv, NEW j \in Jobs, JobStep(j) \/ Fail(j)
  PROVE  TypeOK' /\ JobInv'
<1>. USE DEF JobType
<1>1. RunNext
  BY DEF RunNext
<1>2. job \in [Jobs -> JobType] /\ job[j] \in JobType
  BY DEF TypeOK
<1>3. CASE Begin(j)
  <2>1. PreviousMonthPeriod(minute) \in Periods
    BY PreviousIsPeriod
  <2>2. TypeOK'
    BY <1>2, <1>3, <2>1 DEF Begin, SetJob, TypeOK, runner, reconciler
  <2>3. JobInv'
    BY <1>1, <1>2, <1>3, JobsKeep DEF Begin, SetJob, JobInv
  <2>. QED
    BY <2>2, <2>3
<1>4. CASE IssueBegin(j)
  <2>0. job' \in [Jobs -> JobType]
    <3>1. PICK c \in job[j].todo : job' = [job EXCEPT ![j] = [job[j] EXCEPT !.doing = c]]
      BY <1>4 DEF IssueBegin, SetJob
    <3>2. [job[j] EXCEPT !.doing = c] \in JobType
      BY <1>2
    <3>. HIDE DEF JobType
    <3>. QED
      BY <1>2, <3>1, <3>2
  <2>1. TypeOK'
    BY <1>4, <2>0 DEF IssueBegin, TypeOK, runner, reconciler
  <2>2. JobInv'
    BY <1>1, <1>2, <1>4, JobsKeep DEF IssueBegin, SetJob
  <2>. QED
    BY <2>1, <2>2
<1>5. CASE IssueCommit(j)
  <2>1. TypeOK'
    BY <1>2, <1>5 DEF IssueCommit, SetJob, TypeOK, runner, reconciler
  <2>2. invoice'[job[j].doing][job[j].period] \in {"issued", "paid"}
    BY <1>2, <1>5 DEF IssueCommit, TypeOK, JobInv
  <2>3. JobInv'
    BY <1>1, <1>2, <1>5, <2>2, JobsKeep DEF IssueCommit, SetJob
  <2>. QED
    BY <2>1, <2>3
<1>6. CASE Exit(j)
  <2>0. IdleJob \in JobType
    BY ClockAssumption DEF IdleJob, Periods
  <2>1. TypeOK'
    BY <1>2, <1>6, <2>0 DEF Exit, SetJob, TypeOK, runner, reconciler
  <2>2. JobInv'
    BY <1>1, <1>2, <1>6, JobsKeep DEF Exit, SetJob, IdleJob
  <2>. QED
    BY <2>1, <2>2
<1>7. CASE Fail(j)
  <2>1. failures' \in 0 .. MaxFailures
    BY <1>7, FailuresBelow DEF Fail
  <2>2. job' \in [Jobs -> JobType]
    BY <1>2, <1>7 DEF Fail, SetJob
  <2>3. TypeOK'
    BY <1>7, <2>1, <2>2 DEF Fail, TypeOK, runner, reconciler
  <2>4. JobInv'
    BY <1>1, <1>2, <1>7, JobsKeep DEF Fail, SetJob
  <2>. QED
    BY <2>3, <2>4
<1>. QED
  BY <1>3, <1>4, <1>5, <1>6, <1>7 DEF JobStep

\* Every step of the runner, the jobs, the reconciliation and the operator.
LEMMA RunSteps ==
  ASSUME TypeOK, JobInv, RunNext
  PROVE  TypeOK' /\ JobInv'
<1>. USE DEF JobType
<1>1. CASE Tick
  <2>1. JobInv'
    BY <1>1, JobsKeep DEF Tick
  <2>2. minute' \in FirstMonth * MonthLength .. (LastMonth + 1) * MonthLength - 1
    <3>. DEFINE lo == FirstMonth * MonthLength
                hi == (LastMonth + 1) * MonthLength
    <3>1. lo \in Int /\ hi \in Int
      BY ClockAssumption
    <3>2. minute \in lo .. hi - 1 /\ minute < hi - 1 /\ minute' = minute + 1
      BY <1>1 DEF Tick, TypeOK
    <3>. HIDE DEF lo, hi
    <3>3. minute' \in lo .. hi - 1
      BY <3>1, <3>2
    <3>. QED
      BY <3>3 DEF lo, hi
  <2>3. TypeOK'
    BY <1>1, <2>2 DEF Tick, TypeOK, runner
  <2>. QED
    BY <2>1, <2>3
<1>2. CASE Poll
  <2>1. minute \in Nat
    BY MinuteIsNat
  <2>2. \/ UNCHANGED job
        \/ \E j \in Jobs : Dispatch(j, Customers)
    BY <1>2 DEF Poll
  <2>3. job' \in [Jobs -> JobType]
    BY <2>2, DispatchSteps DEF TypeOK
  <2>4. TypeOK'
    BY <1>2, <2>1, <2>3 DEF Poll, TypeOK
  <2>5. JobInv'
    BY <2>2, DispatchSteps, JobsKeep
  <2>. QED
    BY <2>4, <2>5
<1>3. CASE RunnerDies
  <2>1. failures' \in 0 .. MaxFailures
    BY <1>3, FailuresBelow DEF RunnerDies
  <2>2. PICK K \in SUBSET {j \in Jobs : ~Free(j)} :
           job' = [j \in Jobs |-> IF j \in K THEN [job[j] EXCEPT !.pc = "failed", !.doing = None]
                                  ELSE job[j]]
    BY <1>3 DEF RunnerDies
  <2>3. job' \in [Jobs -> JobType]
    BY <2>2, ZenonT(40) DEF TypeOK
  <2>4. TypeOK'
    BY <1>3, <2>1, <2>3 DEF RunnerDies, TypeOK
  <2>5. \A j \in Jobs : job'[j] = job[j] \/ job'[j].pc = "failed"
    BY <2>2 DEF TypeOK
  <2>6. JobInv'
    BY <2>5, JobsKeep
  <2>. QED
    BY <2>4, <2>6
<1>4. CASE RunnerStarts
  <2>1. TypeOK'
    BY <1>4 DEF RunnerStarts, TypeOK, reconciler
  <2>2. JobInv'
    BY <1>4, JobsKeep DEF RunnerStarts
  <2>. QED
    BY <2>1, <2>2
<1>5. CASE Reconcile
  <2>1. TypeOK'
    BY <1>5 DEF Reconcile, TypeOK, runner
  <2>2. JobInv'
    BY <1>5, JobsKeep DEF Reconcile
  <2>. QED
    BY <2>1, <2>2
<1>6. ASSUME NEW j \in Jobs, NEW S \in (SUBSET Customers) \ {{}}, Manual(j, S)
      PROVE  TypeOK' /\ JobInv'
  <2>1. Dispatch(j, S) /\ S \in SUBSET Customers
    BY <1>6 DEF Manual
  <2>2. TypeOK'
    BY <1>6, <2>1, DispatchSteps DEF Manual, TypeOK, runner, reconciler
  <2>3. JobInv'
    BY <2>1, DispatchSteps, JobsKeep
  <2>. QED
    BY <2>2, <2>3
<1>. QED
  BY <1>1, <1>2, <1>3, <1>4, <1>5, <1>6, JobSteps DEF RunNext

-----------------------------------------------------------------------------
(* The pages                                                               *)

\* The rank of an invoice is a number below the count of the list.
LEMMA RankBelowCount ==
  ASSUME NEW p \in Listed
  PROVE  /\ Rank(p) \in Nat /\ Cardinality(Listed) \in Nat
         /\ Rank(p) < Cardinality(Listed)
<1>1. IsFiniteSet(Periods)
  BY ClockAssumption, FS_Interval DEF Periods
<1>2. IsFiniteSet(Listed)
  BY <1>1, FS_Subset DEF Listed
<1>. DEFINE above == {q \in Listed : q > p}
<1>3. above \subseteq Listed /\ above # Listed
  BY DEF Listed, Periods
<1>4. /\ IsFiniteSet(above) /\ Cardinality(above) <= Cardinality(Listed)
      /\ Cardinality(above) # Cardinality(Listed)
  BY <1>2, <1>3, FS_Subset
<1>5. Cardinality(above) \in Nat /\ Cardinality(Listed) \in Nat
  BY <1>2, <1>4, FS_CardinalityType
<1>. QED
  BY <1>4, <1>5 DEF Rank

\* New invoices push an invoice back in the list, and never out of it.
LEMMA RankGrows ==
  ASSUME TypeOK, RunNext \/ \E q \in Periods : Pay(q)
  PROVE  /\ Listed \subseteq Listed'
         /\ \A p \in Listed : Rank(p) <= Rank(p)'
<1>1. Listed \subseteq Listed'
  BY PageAssumption, InvoicedForever DEF Listed
<1>2. ASSUME NEW p \in Listed
      PROVE  Rank(p) <= Rank(p)'
  <2>1. IsFiniteSet(Periods)
    BY ClockAssumption, FS_Interval DEF Periods
  <2>2. IsFiniteSet({q \in Listed' : q > p})
    BY <2>1, FS_Subset DEF Listed
  <2>3. {q \in Listed : q > p} \subseteq {q \in Listed' : q > p}
    BY <1>1
  <2>4. Cardinality({q \in Listed : q > p}) <= Cardinality({q \in Listed' : q > p})
    BY <2>2, <2>3, FS_Subset
  <2>. QED
    BY <2>4 DEF Rank
<1>. QED
  BY <1>1, <1>2

\* While rows are inserted and paid, what is owed stays ahead of the reader.
LEMMA RowsKeepPages ==
  ASSUME TypeOK, PageTypeOK, UnseenAhead, RunNext \/ \E q \in Periods : Pay(q),
         UNCHANGED pageVars
  PROVE  PageTypeOK' /\ UnseenAhead'
<1>1. /\ Listed \subseteq Listed'
      /\ \A p \in Listed : Rank(p) <= Rank(p)'
  BY RankGrows
<1>2. PageTypeOK'
  BY <1>1 DEF PageTypeOK, pageVars
<1>3. ASSUME NEW p \in owed \ seen
      PROVE  (page - 1) * PageSize <= Rank(p)'
  <2>1. p \in Listed /\ p \in Listed'
    BY <1>1 DEF PageTypeOK
  <2>2. Rank(p) \in Nat /\ Rank(p) <= Rank(p)' /\ (page - 1) * PageSize <= Rank(p)
    BY <1>1, <2>1, RankBelowCount DEF UnseenAhead
  <2>3. Rank(p)' \in Nat
    <3>1. IsFiniteSet(Periods)
      BY ClockAssumption, FS_Interval DEF Periods
    <3>2. IsFiniteSet({q \in Listed' : q > p})
      BY <3>1, FS_Subset DEF Listed
    <3>. QED
      BY <3>2, FS_CardinalityType DEF Rank
  <2>4. (page - 1) * PageSize \in Int
    BY PageAssumption DEF PageTypeOK
  <2>. QED
    BY <2>2, <2>3, <2>4
<1>4. UnseenAhead'
  BY <1>3 DEF UnseenAhead, pageVars, Rank, Listed
<1>. QED
  BY <1>2, <1>4

\* The reader's own steps.
LEMMA ReaderSteps ==
  ASSUME TypeOK, PageTypeOK, UnseenAhead, Count \/ ReadPage \/ Finish
  PROVE  PageTypeOK' /\ UnseenAhead'
<1>1. /\ invoice' = invoice /\ Listed' = Listed
      /\ \A p : Rank(p)' = Rank(p)
  BY DEF Count, ReadPage, Finish, runVars, Listed, Rank
<1>2. page \in Nat \ {0} /\ PageSize \in Nat \ {0}
  BY PageAssumption DEF PageTypeOK
<1>3. CASE Count
  <2>1. PageTypeOK'
    BY <1>1, <1>3 DEF Count, PageTypeOK
  <2>2. CASE page = 1
    <3>1. owed' = Listed /\ page' = 1 /\ reading' = "page"
      BY <1>3, <2>2 DEF Count
    <3>2. (page' - 1) * PageSize = 0
      BY <1>2, <3>1
    <3>3. \A p \in owed' \ seen' : (page' - 1) * PageSize <= Rank(p)'
      BY <1>1, <3>1, <3>2, RankBelowCount
    <3>. QED
      BY <2>1, <3>1, <3>3 DEF UnseenAhead
  <2>3. CASE page # 1
    <3>1. owed' = owed /\ seen' = seen /\ page' = page
      BY <1>3, <2>3 DEF Count
    <3>. QED
      BY <1>1, <2>1, <2>3, <3>1 DEF UnseenAhead
  <2>. QED
    BY <2>2, <2>3
<1>4. CASE ReadPage
  <2>1. /\ seen' = seen \cup {p \in Listed : Rank(p) \div PageSize = page - 1}
        /\ page' = page + 1 /\ reading' = "count" /\ owed' = owed
    BY <1>4 DEF ReadPage
  <2>2. PageTypeOK'
    BY <1>1, <1>2, <2>1 DEF PageTypeOK, Listed
  <2>3. ASSUME NEW p \in owed' \ seen'
        PROVE  (page' - 1) * PageSize <= Rank(p)'
    <3>1. p \in Listed /\ p \in owed \ seen /\ Rank(p) \div PageSize # page - 1
      BY <2>1 DEF PageTypeOK
    <3>2. Rank(p) \in Nat /\ (page - 1) * PageSize <= Rank(p)
      BY <3>1, RankBelowCount DEF UnseenAhead
    <3>3. (page - 1 + 1) * PageSize <= Rank(p)
      BY <1>2, <3>1, <3>2, BehindPage, SMTT(30)
    <3>4. page' - 1 = page - 1 + 1
      BY <1>2, <2>1
    <3>. QED
      BY <1>1, <3>3, <3>4
  <2>4. page' # 1
    BY <1>2, <2>1
  <2>. QED
    BY <2>2, <2>3, <2>4 DEF UnseenAhead
<1>5. CASE Finish
  BY <1>1, <1>5 DEF Finish, PageTypeOK, UnseenAhead
<1>. QED
  BY <1>3, <1>4, <1>5

\* At the end of the list nothing is owed any more.
LEMMA EndOfList ==
  ASSUME PageTypeOK, UnseenAhead, Finish
  PROVE  owed \subseteq seen
<1>. SUFFICES ASSUME NEW p \in owed, p \notin seen PROVE FALSE
  OBVIOUS
<1>1. page # 1 /\ ~((page - 1) * PageSize < Cardinality(Listed))
  BY DEF Finish, Found
<1>2. p \in Listed /\ (page - 1) * PageSize <= Rank(p)
  BY DEF PageTypeOK, UnseenAhead
<1>3. /\ Rank(p) \in Nat /\ Cardinality(Listed) \in Nat
      /\ Rank(p) < Cardinality(Listed)
  BY <1>2, RankBelowCount
<1>4. (page - 1) * PageSize \in Int
  BY PageAssumption DEF PageTypeOK
<1>. QED
  BY <1>1, <1>2, <1>3, <1>4

-----------------------------------------------------------------------------
(* The theorems                                                            *)

LEMMA InitInv == Init => PagesInv
<1>. SUFFICES ASSUME Init PROVE PagesInv
  OBVIOUS
<1>1. FirstMonth * MonthLength \in FirstMonth * MonthLength .. (LastMonth + 1) * MonthLength - 1
  <2>1. /\ FirstMonth \in Int /\ LastMonth \in Int /\ MonthLength \in Nat \ {0}
        /\ FirstMonth <= LastMonth
    BY ClockAssumption
  <2>2. FirstMonth * MonthLength <= LastMonth * MonthLength
    BY <2>1, TimesMonotonic
  <2>3. (LastMonth + 1) * MonthLength = LastMonth * MonthLength + MonthLength
    BY <2>1
  <2>. DEFINE lo == FirstMonth * MonthLength
              hi == LastMonth * MonthLength
              top == (LastMonth + 1) * MonthLength
  <2>4. lo \in Int /\ hi \in Int /\ top = hi + MonthLength /\ lo <= hi
    BY <2>1, <2>2, <2>3
  <2>. HIDE DEF lo, hi, top
  <2>5. lo \in lo .. top - 1
    BY <2>1, <2>4
  <2>. QED
    BY <2>5 DEF lo, top
<1>2. IdleJob \in JobType
  BY ClockAssumption DEF IdleJob, JobType, Periods
<1>3. TypeOK
  <2>1. failures \in 0 .. MaxFailures
    BY ClockAssumption DEF Init, RunInit
  <2>2. invoice \in [Customers -> [Periods -> {"none", "draft", "issued", "paid"}]]
    BY DEF Init, RunInit
  <2>3. job \in [Jobs -> JobType]
    BY <1>2 DEF Init, RunInit
  <2>. QED
    BY <1>1, <2>1, <2>2, <2>3 DEF Init, RunInit, TypeOK, JobType
<1>4. JobInv
  BY DEF Init, RunInit, JobInv, IdleJob
<1>5. PageTypeOK /\ UnseenAhead
  BY DEF Init, PageTypeOK, UnseenAhead
<1>. QED
  BY <1>3, <1>4, <1>5 DEF PagesInv

\* A payment leaves the runner and the jobs alone.
LEMMA PaySteps ==
  ASSUME TypeOK, JobInv, NEW q \in Periods, Pay(q)
  PROVE  TypeOK' /\ JobInv'
<1>1. TypeOK'
  BY PageAssumption DEF Pay, TypeOK, runner, reconciler
<1>2. JobInv'
  BY JobsKeep DEF Pay
<1>. QED
  BY <1>1, <1>2

LEMMA NextInv == PagesInv /\ [Next]_vars => PagesInv'
<1>. SUFFICES ASSUME PagesInv, [Next]_vars PROVE PagesInv'
  OBVIOUS
<1>. USE DEF PagesInv
<1>1. CASE RunNext /\ UNCHANGED pageVars
  BY <1>1, RunSteps, RowsKeepPages
<1>2. ASSUME NEW q \in Periods, Pay(q) PROVE PagesInv'
  <2>1. UNCHANGED pageVars
    BY <1>2 DEF Pay
  <2>. QED
    BY <1>2, <2>1, PaySteps, RowsKeepPages
<1>3. ASSUME UNCHANGED runVars PROVE TypeOK' /\ JobInv'
  BY <1>3 DEF runVars, TypeOK, JobInv, Invoiced
<1>4. CASE Count \/ ReadPage \/ Finish
  <2>1. UNCHANGED runVars
    BY <1>4 DEF Count, ReadPage, Finish
  <2>. QED
    BY <1>3, <1>4, <2>1, ReaderSteps
<1>5. CASE UNCHANGED vars
  BY <1>3, <1>5
     DEF vars, pageVars, runVars, PageTypeOK, UnseenAhead, Listed, Rank
<1>. QED
  BY <1>1, <1>2, <1>4, <1>5 DEF Next

THEOREM Invariance == Spec => []PagesInv
<1>1. PagesInv /\ [Next]_vars => PagesInv'
  BY NextInv
<1>. QED
  BY InitInv, <1>1, PTL DEF Spec

\* Every reachable state of MonthlyRun is type-correct; in particular every job
\* bills a month that is over, whenever it was dispatched.
THEOREM TypeCorrect == Spec => []TypeOK
<1>1. PagesInv => TypeOK
  BY DEF PagesInv
<1>. QED
  BY <1>1, Invariance, PTL

\* An invoicer run that exits with status 0 has left every customer it was
\* asked for with the invoice of its period, whatever other runs did.
THEOREM ExitMeansInvoiced == Spec => ExitOkMeansInvoiced
<1>1. PagesInv /\ [Next]_vars =>
         [\A j \in Jobs : job[j].pc = "loop" /\ job'[j].pc = "idle" =>
             \A c \in job[j].asked : Invoiced(c, job[j].period)]_runVars
  <2>. SUFFICES ASSUME PagesInv, [Next]_vars, NEW k \in Jobs,
                       job[k].pc = "loop", job'[k].pc = "idle"
                PROVE  \A c \in job[k].asked : Invoiced(c, job[k].period)
    OBVIOUS
  <2>1. job \in [Jobs -> JobType]
    BY DEF PagesInv, TypeOK, JobType
  <2>2. job' # job
    OBVIOUS
  <2>3. RunNext
    BY <2>2 DEF Next, vars, runVars, Pay, Count, ReadPage, Finish
  <2>4. ~RunnerDies
    <3>1. ASSUME NEW K \in SUBSET {j \in Jobs : ~Free(j)},
                 job' = [j \in Jobs |-> IF j \in K
                                        THEN [job[j] EXCEPT !.pc = "failed", !.doing = None]
                                        ELSE job[j]]
          PROVE  FALSE
      BY <2>1, <3>1 DEF JobType
    <3>. QED
      BY <3>1 DEF RunnerDies
  <2>5. ASSUME NEW j \in Jobs, NEW S, Dispatch(j, S) PROVE FALSE
    BY <2>1, <2>5 DEF Dispatch, IdleJob, JobType
  <2>6. ~Poll /\ \A j \in Jobs, S \in (SUBSET Customers) \ {{}} : ~Manual(j, S)
    BY <2>2, <2>5 DEF Poll, Manual
  <2>7. \A j \in Jobs : ~Fail(j)
    BY <2>1 DEF Fail, SetJob, JobType
  <2>8. PICK j \in Jobs : JobStep(j)
    BY <2>2, <2>3, <2>4, <2>6, <2>7 DEF RunNext, Tick, RunnerStarts, Reconcile
  <2>9. ~Begin(j) /\ ~IssueBegin(j) /\ ~IssueCommit(j)
    BY <2>1, ZenonT(40) DEF Begin, IssueBegin, IssueCommit, SetJob, JobType
  <2>10. Exit(j) /\ j = k
    BY <2>1, <2>8, <2>9 DEF JobStep, Exit, SetJob
  <2>11. job[k].todo = {}
    BY <2>10 DEF Exit
  <2>. QED
    BY <2>11 DEF PagesInv, JobInv
<1>. QED
  BY <1>1, Invariance, PTL DEF Spec, ExitOkMeansInvoiced

\* A client that pages through its invoices to the end has seen every one that
\* was there when it began, whatever was issued or paid in between.
THEOREM NoneSkipped == Spec => NoInvoiceSkipped
<1>1. PagesInv /\ [Next]_vars =>
         [reading' = "finished" /\ reading # reading' => owed \subseteq seen]_vars
  <2>. SUFFICES ASSUME PagesInv, [Next]_vars, reading' = "finished", reading # reading'
                PROVE  owed \subseteq seen
    OBVIOUS
  <2>1. Finish
    BY DEF Next, vars, pageVars, Pay, Count, ReadPage
  <2>. QED
    BY <2>1, EndOfList DEF PagesInv
<1>. QED
  BY <1>1, Invariance, PTL DEF Spec, NoInvoiceSkipped
=============================================================================
