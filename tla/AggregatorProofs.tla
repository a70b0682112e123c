--------------------------- MODULE AggregatorProofs ---------------------------
(***************************************************************************)
(* Safety of AggregatorWatermark for any events, windows and aggregators,  *)
(* any delay and overlap, and transactions as long as the two allow.       *)
(***************************************************************************)
EXTENDS AggregatorWatermark, TLAPS

LEMMA InitIInv == Init => IInv
BY TimesAssumption DEF Init, Idle, Time, IInv, TypeOK, InReach, Open, RunCovers,
                       NothingBehindWatermark

\* Time passes only as far as the open transactions allow.
LEMMA TickInv == ASSUME IInv, Tick PROVE IInv'
<1> USE TimesAssumption DEF IInv, Tick, clients, rollup, jobs
<1>1. TypeOK'
  BY DEF TypeOK, Time
<1>2. InReach'
  BY DEF TypeOK, Time, InReach, Open
<1>3. RunCovers' /\ NothingBehindWatermark'
  BY DEF TypeOK, RunCovers, NothingBehindWatermark
<1> QED
  BY <1>1, <1>2, <1>3

LEMMA IngestBeginInv == ASSUME IInv, NEW e \in Events, IngestBegin(e) PROVE IInv'
<1> USE TimesAssumption DEF IInv, IngestBegin, rollup, jobs
<1>1. TypeOK'
  BY DEF TypeOK
<1>2. InReach'
  BY DEF TypeOK, Time, InReach, Open
<1>3. RunCovers' /\ NothingBehindWatermark'
  BY DEF TypeOK, RunCovers, NothingBehindWatermark
<1> QED
  BY <1>1, <1>2, <1>3

\* What commits now is still in reach of every later run.
LEMMA IngestCommitInv == ASSUME IInv, NEW e \in Events, IngestCommit(e) PROVE IInv'
<1> USE TimesAssumption DEF IInv, IngestCommit, rollup, jobs
<1>1. TypeOK'
  BY DEF TypeOK, Open
<1>2. InReach'
  BY DEF TypeOK, Time, InReach, Open
<1>3. RunCovers' /\ NothingBehindWatermark'
  BY DEF TypeOK, Time, InReach, Open, RunCovers, NothingBehindWatermark
<1> QED
  BY <1>1, <1>2, <1>3

LEMMA IngestAbortInv == ASSUME IInv, NEW e \in Events, IngestAbort(e) PROVE IInv'
<1> USE TimesAssumption DEF IInv, IngestAbort, Open, rollup, jobs
<1>1. TypeOK'
  BY DEF TypeOK
<1>2. InReach'
  BY DEF TypeOK, Time, InReach
<1>3. RunCovers' /\ NothingBehindWatermark'
  BY DEF TypeOK, RunCovers, NothingBehindWatermark
<1> QED
  BY <1>1, <1>2, <1>3
-----------------------------------------------------------------------------
LEMMA StartInv == ASSUME IInv, NEW a \in Aggregators, Start(a) PROVE IInv'
<1> USE TimesAssumption DEF IInv, Start, clients, rollup
<1>0. \A m \in Modes : DelayOf(m) \in Nat /\ m \in BOOLEAN
  BY MapsAssumption DEF DelayOf
<1>1. TypeOK'
  BY <1>0 DEF TypeOK, Time
<1>2. InReach'
  BY <1>0, OpenAssumption DEF TypeOK, Time, InReach, Open
<1>3. RunCovers' /\ NothingBehindWatermark'
  BY DEF TypeOK, RunCovers, NothingBehindWatermark
<1> QED
  BY <1>1, <1>2, <1>3

LEMMA TryLockInv == ASSUME IInv, NEW a \in Aggregators, TryLock(a) PROVE IInv'
<1> USE TimesAssumption DEF IInv, TryLock, clients, rollup, Idle
<1>1. TypeOK'
  <2>1. CASE lock = None
    <3>1. run' = run /\ lock' = a /\ pc' = [pc EXCEPT ![a] = "scan"]
      BY <2>1
    <3>2. \A b \in Aggregators : pc'[b] \in {"scan", "upsert"} <=> lock' = b
      BY <2>1, <3>1 DEF TypeOK
    <3> QED
      BY <3>1, <3>2 DEF TypeOK
  <2>2. CASE lock # None
    <3>1. lock' = lock /\ pc' = [pc EXCEPT ![a] = "idle"] /\ run' = [run EXCEPT ![a] = Idle]
      BY <2>2
    <3>2. \A b \in Aggregators : pc'[b] \in {"scan", "upsert"} <=> lock' = b
      BY <2>2, <3>1 DEF TypeOK
    <3> QED
      BY <3>1, <3>2 DEF TypeOK
  <2> QED
    BY <2>1, <2>2
<1>2. InReach'
  BY DEF TypeOK, InReach, Open
<1>3. RunCovers' /\ NothingBehindWatermark'
  BY DEF TypeOK, RunCovers, NothingBehindWatermark
<1> QED
  BY <1>1, <1>2, <1>3

\* A scan finds what the next watermark leaves behind, but for what is counted.
LEMMA ScanInv == ASSUME IInv, NEW a \in Aggregators, Scan(a) PROVE IInv'
<1> USE TimesAssumption DEF IInv, Scan, clients, rollup
<1>1. TypeOK'
  BY MapsAssumption DEF TypeOK, Found
<1>2. InReach'
  BY DEF TypeOK, InReach, Open
<1>3. RunCovers'
  <2> SUFFICES ASSUME NEW b \in Aggregators, pc'[b] = "upsert",
                      NEW e \in committed, at[e] < run'[b].cutoff - Overlap
               PROVE  e \in counted \/ WindowOf[e] \in run'[b].todo
    BY DEF RunCovers
  <2>1. CASE b # a
    BY <2>1 DEF TypeOK, RunCovers
  <2>2. CASE b = a
    <3>1. run'[a].cutoff = run[a].cutoff /\ run'[a].todo = {WindowOf[d] : d \in Found(a)}
      BY DEF TypeOK
    <3>2. at[e] \in Int /\ run[a].cutoff \in Int /\ at[e] < run[a].cutoff
      BY <2>2, <3>1 DEF TypeOK, Time
    <3>3. CASE e \in Found(a)
      BY <2>2, <3>1, <3>3
    <3>4. CASE e \notin Found(a)
      BY <3>2, <3>4 DEF TypeOK, Found, NothingBehindWatermark
    <3> QED
      BY <3>3, <3>4
  <2> QED
    BY <2>1, <2>2
<1>4. NothingBehindWatermark'
  BY DEF NothingBehindWatermark
<1> QED
  BY <1>1, <1>2, <1>3, <1>4

LEMMA UpsertInv == ASSUME IInv, NEW a \in Aggregators, UpsertCustomer(a) PROVE IInv'
<1> USE TimesAssumption DEF IInv, UpsertCustomer, clients
<1> PICK c \in {CustomerOf[w] : w \in run[a].todo} :
        LET chunk == {w \in run[a].todo : CustomerOf[w] = c} IN
        /\ counted' = {e \in counted : WindowOf[e] \notin chunk}
                      \cup {e \in committed : WindowOf[e] \in chunk}
        /\ run' = [run EXCEPT ![a].todo = @ \ chunk]
  OBVIOUS
<1> DEFINE chunk == {w \in run[a].todo : CustomerOf[w] = c}
<1>0. counted \subseteq counted' /\ \A e \in committed : WindowOf[e] \in chunk => e \in counted'
  BY DEF TypeOK
<1>1. TypeOK'
  BY DEF TypeOK
<1>2. InReach'
  BY DEF TypeOK, InReach, Open
<1>3. RunCovers'
  <2> SUFFICES ASSUME NEW b \in Aggregators, pc[b] = "upsert",
                      NEW e \in committed, at[e] < run'[b].cutoff - Overlap
               PROVE  e \in counted' \/ WindowOf[e] \in run'[b].todo
    BY DEF RunCovers
  <2>1. run'[b].cutoff = run[b].cutoff /\ run[b].todo \subseteq run'[b].todo \cup chunk
    BY DEF TypeOK
  <2>2. e \in counted \/ WindowOf[e] \in run[b].todo
    BY <2>1 DEF RunCovers
  <2> QED
    BY <1>0, <2>1, <2>2
<1>4. NothingBehindWatermark'
  BY <1>0 DEF NothingBehindWatermark
<1> QED
  BY <1>1, <1>2, <1>3, <1>4

LEMMA MarkInv == ASSUME IInv, NEW a \in Aggregators, Mark(a) PROVE IInv'
<1> USE TimesAssumption DEF IInv, Mark, clients, Idle
<1>0. watermark' = run[a].cutoff /\ watermark' \in Int
  BY DEF TypeOK
<1>1. TypeOK'
  BY <1>0 DEF TypeOK
<1>2. InReach'
  BY <1>0 DEF TypeOK, InReach, Open
<1>3. RunCovers'
  BY DEF TypeOK, RunCovers
<1>4. NothingBehindWatermark'
  BY <1>0 DEF TypeOK, RunCovers, NothingBehindWatermark
<1> QED
  BY <1>1, <1>2, <1>3, <1>4

LEMMA CrashInv == ASSUME IInv, NEW a \in Aggregators, Crash(a) PROVE IInv'
<1> USE TimesAssumption DEF IInv, Crash, clients, rollup, Idle
<1>1. TypeOK'
  BY DEF TypeOK
<1>2. InReach'
  BY DEF TypeOK, InReach, Open
<1>3. RunCovers' /\ NothingBehindWatermark'
  BY DEF TypeOK, RunCovers, NothingBehindWatermark
<1> QED
  BY <1>1, <1>2, <1>3

LEMMA StutterInv == ASSUME IInv, UNCHANGED vars PROVE IInv'
BY DEF vars, IInv, TypeOK, InReach, Open, RunCovers, NothingBehindWatermark

LEMMA NextInv == ASSUME IInv, [Next]_vars PROVE IInv'
<1>1. ASSUME NEW e \in Events, IngestBegin(e) \/ IngestCommit(e) \/ IngestAbort(e) PROVE IInv'
  BY <1>1, IngestBeginInv, IngestCommitInv, IngestAbortInv
<1>2. ASSUME NEW a \in Aggregators, JobStep(a) \/ Crash(a) PROVE IInv'
  BY <1>2, StartInv, TryLockInv, ScanInv, UpsertInv, MarkInv, CrashInv DEF JobStep
<1> QED
  BY <1>1, <1>2, TickInv, StutterInv DEF Next

LEMMA IInvAlways == Spec => []IInv
<1>1. Init => IInv
  BY InitIInv
<1>2. IInv /\ [Next]_vars => IInv'
  BY NextInv
<1> QED
  BY <1>1, <1>2, PTL DEF Spec

\* Every variable keeps its type, and the advisory lock its holder
\* (run_aggregation).
THEOREM TypeCorrect == Spec => []TypeOK
<1>1. IInv => TypeOK
  BY DEF IInv
<1> QED
  BY <1>1, IInvAlways, PTL

\* No committed event is left behind the watermark uncounted (_aggregate).
THEOREM NothingBehind == Spec => []NothingBehindWatermark
<1>1. IInv => NothingBehindWatermark
  BY DEF IInv
<1> QED
  BY <1>1, IInvAlways, PTL
===============================================================================
