----------------------------- MODULE IngestProofs -----------------------------
(***************************************************************************)
(* Safety of IngestBatch and UsagePages for any ids, batches, workers,     *)
(* buckets and limits: what clients are told about their events, and what  *)
(* the pages of a reader add up to.                                        *)
(***************************************************************************)
EXTENDS UsagePages, FiniteSetTheorems, WellFoundedInduction, TLAPS

\* A nonempty set of integers with a lower bound has a least element.
LEMMA LeastNat == ASSUME NEW S, S \subseteq Nat, S # {} PROVE \E x \in S : \A y \in S : x <= y
<1> DEFINE R == OpToRel(<, Nat)
<1>1. IsWellFoundedOn(R, Nat)
  BY NatLessThanWellFounded
<1> HIDE DEF R
<1>2. PICK x \in S : \A y \in S : ~ (<<y, x>> \in R)
  BY <1>1, WFMin
<1>3. \A y \in S : y < x => <<y, x>> \in R
  BY DEF R, OpToRel
<1>4. \A y \in S : ~(y < x)
  BY <1>2, <1>3, Zenon
<1> HIDE DEF R
<1> QED
  BY <1>4

LEMMA LeastInt ==
    ASSUME NEW S, S # {}, NEW a \in Int, S \subseteq Int, \A x \in S : a <= x
    PROVE  \E x \in S : \A y \in S : x <= y
<1> DEFINE T == {x - a : x \in S}
<1>1. \A x \in S : x - a \in Nat /\ x - a \in T
  OBVIOUS
<1>2. T \subseteq Nat /\ T # {}
  BY <1>1
<1>3. PICK m \in T : \A y \in T : m <= y
  BY <1>2, LeastNat
<1>4. PICK x \in S : m = x - a
  OBVIOUS
<1>5. \A y \in S : x - a <= y - a
  BY <1>1, <1>3, <1>4
<1> QED
  BY <1>4, <1>5

LEMMA GreatestInt ==
    ASSUME NEW S, S # {}, NEW z \in Int, S \subseteq Int, \A x \in S : x <= z
    PROVE  \E x \in S : \A y \in S : y <= x
<1> DEFINE T == {z - x : x \in S}
<1>1. \A x \in S : z - x \in Nat /\ z - x \in T
  OBVIOUS
<1>2. T \subseteq Nat /\ T # {}
  BY <1>1
<1>3. PICK m \in T : \A y \in T : m <= y
  BY <1>2, LeastNat
<1>4. PICK x \in S : m = z - x
  OBVIOUS
<1>5. \A y \in S : z - x <= z - y
  BY <1>1, <1>3, <1>4
<1> QED
  BY <1>4, <1>5
-----------------------------------------------------------------------------
(* Ingest                                                                  *)

\* The positions at which a response accepts an id of the batch: the first one
\* when the statement returned it, and none otherwise.
LEMMA AcceptedPositions ==
    ASSUME NEW w \in Workers, NEW r \in Rids, batch[w] \in Seq(Rids), mine[w] \subseteq Ids(w)
    PROVE  LET K == {k \in AcceptedAt(w) : batch[w][k] = r} IN
           Cardinality(K) = IF r \in mine[w] THEN 1 ELSE 0
<1> DEFINE K == {k \in AcceptedAt(w) : batch[w][k] = r}
<1>0. Len(batch[w]) \in Nat
  OBVIOUS
<1>1. \A j, k \in K : j = k
  <2> SUFFICES ASSUME NEW j \in K, NEW k \in K, j < k PROVE FALSE
    BY <1>0 DEF AcceptedAt
  <2> QED
    BY <1>0 DEF AcceptedAt
<1>2. CASE r \notin mine[w]
  <2>1. K = {}
    BY <1>2 DEF AcceptedAt
  <2> QED
    BY <1>2, <2>1, FS_EmptySet
<1>3. CASE r \in mine[w]
  <2> DEFINE At == {k \in 1 .. Len(batch[w]) : batch[w][k] = r}
  <2>1. At \subseteq Nat /\ At # {}
    BY <1>0, <1>3 DEF Ids
  <2>2. PICK k \in At : \A j \in At : k <= j
    BY <2>1, LeastNat
  <2>3. k \in K
    BY <1>0, <1>3, <2>2 DEF AcceptedAt
  <2>4. K = {k}
    BY <1>1, <2>3
  <2> QED
    BY <1>3, <2>4, FS_Singleton
<1> QED
  BY <1>2, <1>3

LEMMA InitIngest == IngestInit => IngestInv
BY DEF IngestInit, IngestInv, TypeOK, RowsApart, AcceptedLast, DealtWith, OwnRows, Ids,
       AcceptedOnce, AnsweredIsStored

LEMMA ReceiveInv == ASSUME IngestInv, NEW w \in Workers, Receive(w) PROVE IngestInv'
<1> USE DEF IngestInv, Receive, told
<1>0. batch' \in [Workers -> Seq(Rids)]
  BY BatchesAssumption DEF TypeOK
<1>1. TypeOK'
  BY <1>0 DEF TypeOK
<1>2. RowsApart' /\ AcceptedLast' /\ AcceptedOnce' /\ AnsweredIsStored'
  BY DEF TypeOK, RowsApart, AcceptedLast, AcceptedOnce, AnsweredIsStored
<1>3. DealtWith'
  <2> SUFFICES ASSUME NEW v \in Workers
               PROVE  /\ pc'[v] = "idle" => done[v] = 0
                      /\ pc'[v] = "insert" =>
                            /\ done[v] <= Len(batch'[v])
                            /\ \A k \in 1 .. done[v] : batch'[v][k] \in mine[v] \cup event
                      /\ pc'[v] = "respond" =>
                            \A k \in 1 .. Len(batch'[v]) : batch'[v][k] \in event
    BY <1>0 DEF DealtWith
  <2>1. CASE v = w
    <3>1. done[w] = 0 /\ Len(batch'[w]) \in Nat
      BY <1>0 DEF DealtWith
    <3> QED
      BY <2>1, <3>1 DEF TypeOK
  <2>2. CASE v # w
    BY <2>2 DEF TypeOK, DealtWith
  <2> QED
    BY <2>1, <2>2
<1>4. OwnRows'
  BY <1>0 DEF TypeOK, RowsApart, OwnRows, Ids
<1> QED
  BY <1>1, <1>2, <1>3, <1>4

\* Forgetting a request keeps what the tables and the answers are related to.
LEMMA FinishKeeps ==
    ASSUME TypeOK, RowsApart, DealtWith, OwnRows, NEW w \in Workers, Finish(w), UNCHANGED event
    PROVE  /\ pc' \in [Workers -> {"idle", "insert", "respond"}]
           /\ batch' \in [Workers -> Seq(Rids)]
           /\ mine' \in [Workers -> SUBSET Rids]
           /\ done' \in [Workers -> Nat]
           /\ \A v \in Workers : mine'[v] = IF v = w THEN {} ELSE mine[v]
           /\ RowsApart' /\ DealtWith' /\ OwnRows'
<1>1. <<>> \in Seq(Rids)
  OBVIOUS
<1>2. /\ pc' \in [Workers -> {"idle", "insert", "respond"}]
      /\ batch' \in [Workers -> Seq(Rids)]
      /\ mine' \in [Workers -> SUBSET Rids]
      /\ done' \in [Workers -> Nat]
  BY <1>1 DEF TypeOK, Finish
<1>3. \A v \in Workers : mine'[v] = IF v = w THEN {} ELSE mine[v]
  BY DEF TypeOK, Finish
<1>4. RowsApart'
  BY <1>3 DEF TypeOK, Finish, RowsApart
<1>5. DealtWith'
  BY DEF TypeOK, Finish, DealtWith
<1>6. OwnRows'
  BY <1>3 DEF TypeOK, Finish, OwnRows, Ids
<1> QED
  BY <1>2, <1>3, <1>4, <1>5, <1>6

\* The row inserted was nobody's: not committed, and not in an open transaction.
LEMMA InsertRowInv == ASSUME IngestInv, NEW w \in Workers, InsertRow(w) PROVE IngestInv'
<1> USE DEF IngestInv, InsertRow, told
<1> DEFINE r == NextRid(w)
<1>0. /\ pc[w] = "insert" /\ batch[w] \in Seq(Rids) /\ done[w] \in Nat
      /\ Len(batch[w]) \in Nat /\ done[w] < Len(batch[w]) /\ r = batch[w][done[w] + 1]
  BY DEF TypeOK, Inserting, NextRid
<1>1. r \in Rids
  BY <1>0
<1>2. \A v \in Workers \ {w} : r \notin event => r \notin mine[v]
  BY DEF Holders, TypeOK, RowsApart
<1>3. mine' = [mine EXCEPT ![w] = @ \cup ({r} \ event)] /\ done' = [done EXCEPT ![w] = @ + 1]
  OBVIOUS
<1> HIDE DEF r
<1>4. TypeOK'
  BY <1>0, <1>1, <1>3 DEF TypeOK
<1>5. RowsApart'
  BY <1>0, <1>1, <1>2, <1>3 DEF TypeOK, RowsApart
<1>6. AcceptedLast' /\ AcceptedOnce' /\ AnsweredIsStored'
  BY <1>1, <1>3 DEF TypeOK, AcceptedLast, AcceptedOnce, AnsweredIsStored
<1>7. DealtWith'
  <2>1. mine'[w] = mine[w] \cup ({r} \ event) /\ done'[w] = done[w] + 1
    BY <1>3 DEF TypeOK
  <2>2. ASSUME NEW k \in 1 .. done[w] + 1 PROVE batch[w][k] \in mine'[w] \cup event
    <3>1. CASE k = done[w] + 1
      BY <1>0, <2>1, <3>1
    <3>2. CASE k # done[w] + 1
      <4>1. k \in 1 .. done[w]
        BY <1>0, <3>2
      <4>2. batch[w][k] \in mine[w] \cup event
        BY <1>0, <4>1 DEF DealtWith
      <4> QED
        BY <2>1, <4>2
    <3> QED
      BY <3>1, <3>2
  <2>3. \A v \in Workers \ {w} : mine'[v] = mine[v] /\ done'[v] = done[v]
    BY <1>3 DEF TypeOK
  <2> QED
    BY <1>0, <2>1, <2>2, <2>3 DEF DealtWith
<1>8. OwnRows'
  <2>1. r \in Ids(w)
    BY <1>0 DEF Ids
  <2>2. batch' = batch
    OBVIOUS
  <2> QED
    BY <1>3, <2>1, <2>2 DEF TypeOK, OwnRows, Ids
<1> QED
  BY <1>4, <1>5, <1>6, <1>7, <1>8

LEMMA CommitInv == ASSUME IngestInv, NEW w \in Workers, Commit(w) PROVE IngestInv'
<1> USE DEF IngestInv, Commit, told
<1>1. TypeOK'
  BY DEF TypeOK
<1>2. RowsApart'
  BY DEF TypeOK, RowsApart
<1>3. AcceptedLast' /\ AcceptedOnce' /\ AnsweredIsStored'
  BY DEF TypeOK, AcceptedLast, AcceptedOnce, AnsweredIsStored
<1>4. DealtWith'
  BY DEF TypeOK, DealtWith
<1>5. OwnRows'
  BY DEF OwnRows, Ids
<1> QED
  BY <1>1, <1>2, <1>3, <1>4, <1>5

LEMMA RespondInv == ASSUME IngestInv, NEW w \in Workers, Respond(w) PROVE IngestInv'
<1> USE DEF IngestInv
<1> DEFINE n(r) == Cardinality({k \in AcceptedAt(w) : batch[w][k] = r})
<1>0. /\ batch[w] \in Seq(Rids) /\ mine[w] \subseteq event /\ mine[w] \subseteq Rids
      /\ mine[w] \subseteq Ids(w) /\ Ids(w) \subseteq event
  BY DEF TypeOK, RowsApart, DealtWith, OwnRows, Ids, Respond
<1>1. \A r \in Rids : n(r) = IF r \in mine[w] THEN 1 ELSE 0
  BY <1>0, AcceptedPositions
<1>2. /\ accepted' = [r \in Rids |-> accepted[r] + n(r)]
      /\ answered' = answered \cup Ids(w)
      /\ Finish(w) /\ event' = event
  BY DEF Respond
<1> HIDE DEF n
<1>3. /\ pc' \in [Workers -> {"idle", "insert", "respond"}]
      /\ batch' \in [Workers -> Seq(Rids)]
      /\ mine' \in [Workers -> SUBSET Rids]
      /\ done' \in [Workers -> Nat]
      /\ \A v \in Workers : mine'[v] = IF v = w THEN {} ELSE mine[v]
      /\ RowsApart' /\ DealtWith' /\ OwnRows'
  BY <1>2, FinishKeeps
<1>4. \A r \in Rids : /\ accepted'[r] = accepted[r] + n(r) /\ accepted[r] \in Nat
                      /\ r \in mine[w] => accepted[r] = 0 /\ r \in event
  BY <1>0, <1>2 DEF TypeOK, AcceptedLast
<1>5. TypeOK'
  <2>0. \A r \in Rids : accepted[r] + n(r) \in Nat
    BY <1>1, <1>4
  <2>1. accepted' \in [Rids -> Nat]
    BY <1>2, <2>0
  <2>2. answered' \subseteq Rids
    BY <1>0, <1>2 DEF TypeOK
  <2> QED
    BY <1>2, <1>3, <2>1, <2>2 DEF TypeOK
<1>6. AcceptedOnce'
  BY <1>1, <1>4 DEF AcceptedOnce
<1>7. AcceptedLast'
  <2>1. \A r \in Rids : accepted'[r] # 0 => r \in event'
    BY <1>1, <1>2, <1>4 DEF AcceptedLast
  <2>2. \A v \in Workers : \A r \in mine'[v] : accepted'[r] = 0
    <3> SUFFICES ASSUME NEW v \in Workers, NEW r \in mine'[v] PROVE accepted'[r] = 0
      OBVIOUS
    <3>1. v # w /\ r \in mine[v] /\ r \in Rids
      BY <1>3
    <3>2. r \notin mine[w]
      BY <3>1 DEF RowsApart
    <3>3. accepted[r] = 0
      BY <3>1 DEF AcceptedLast
    <3> QED
      BY <1>1, <1>4, <3>1, <3>2, <3>3
  <2> QED
    BY <2>1, <2>2 DEF AcceptedLast
<1>8. AnsweredIsStored'
  BY <1>0, <1>2 DEF AnsweredIsStored
<1> QED
  BY <1>3, <1>5, <1>6, <1>7, <1>8

\* An aborted transaction, or the loss of an answer.
LEMMA DropInv ==
    ASSUME IngestInv, NEW w \in Workers, Finish(w), UNCHANGED <<event, told>>
    PROVE  IngestInv'
<1> USE DEF IngestInv, told
<1>1. /\ pc' \in [Workers -> {"idle", "insert", "respond"}]
      /\ batch' \in [Workers -> Seq(Rids)]
      /\ mine' \in [Workers -> SUBSET Rids]
      /\ done' \in [Workers -> Nat]
      /\ \A v \in Workers : mine'[v] = IF v = w THEN {} ELSE mine[v]
      /\ RowsApart' /\ DealtWith' /\ OwnRows'
  BY FinishKeeps
<1>2. TypeOK'
  BY <1>1 DEF TypeOK
<1>3. AcceptedLast'
  BY <1>1 DEF AcceptedLast
<1>4. AcceptedOnce' /\ AnsweredIsStored'
  BY DEF AcceptedOnce, AnsweredIsStored
<1> QED
  BY <1>1, <1>2, <1>3, <1>4

LEMMA IngestNextInv == ASSUME IngestInv, IngestNext PROVE IngestInv'
BY ReceiveInv, InsertRowInv, CommitInv, RespondInv, DropInv
   DEF IngestNext, WorkerStep, DeadlockVictim, Crash

\* Rows are only ever added.
LEMMA EventsStay == ASSUME IngestInv, IngestNext PROVE event \subseteq event'
BY DEF IngestNext, WorkerStep, Receive, InsertRow, Commit, Respond, DeadlockVictim, Crash
-----------------------------------------------------------------------------
(* The table.  The statements of a transaction are stuttering steps, its      *)
(* commit stores the batch.                                                   *)

\* What the table sees of a worker's step that only it makes.
LEMMA TableForgets ==
    ASSUME IngestInv, NEW w \in Workers, pc[w] = "respond", Finish(w), UNCHANGED event
    PROVE  Table!Forget(w)
BY DEF IngestInv, TypeOK, Finish, Table!Forget, Ids

LEMMA TableKept ==
    ASSUME IngestInv, NEW w \in Workers, pc[w] # "respond", pc'[w] # "respond",
           \A v \in Workers \ {w} : pc'[v] = pc[v] /\ batch'[v] = batch[v] /\ mine'[v] = mine[v],
           UNCHANGED <<event, told>>
    PROVE  UNCHANGED Table!table
BY DEF Table!table, Ids, told

LEMMA CommitRecords ==
    ASSUME IngestInv, NEW w \in Workers, Commit(w)
    PROVE  Ids(w) \in SUBSET Rids /\ Table!Record(w, Ids(w))
<1> USE DEF IngestInv, Commit, told
<1>1. /\ batch[w] \in Seq(Rids) /\ mine[w] \subseteq Ids(w) /\ mine[w] \cap event = {}
      /\ Ids(w) \subseteq mine[w] \cup event
  BY DEF TypeOK, RowsApart, DealtWith, OwnRows, Ids
<1>2. mine[w] = Ids(w) \ event /\ event' = event \cup Ids(w)
  BY <1>1
<1>3. Ids(w) \subseteq Rids
  BY <1>1 DEF Ids
<1>4. pc' = [pc EXCEPT ![w] = "respond"] /\ batch' = batch /\ mine' = mine
  OBVIOUS
<1>5. [v \in Workers |-> IF pc[v] = "respond" THEN Ids(v) ELSE {}]' =
      [[v \in Workers |-> IF pc[v] = "respond" THEN Ids(v) ELSE {}] EXCEPT ![w] = Ids(w)]
  <2>1. \A v \in Workers : pc'[v] = IF v = w THEN "respond" ELSE pc[v]
    BY <1>4 DEF TypeOK
  <2>2. \A v \in Workers : Ids(v)' = Ids(v)
    BY <1>4 DEF Ids
  <2> QED
    BY <2>1, <2>2
<1>6. [v \in Workers |-> IF pc[v] = "respond" THEN mine[v] ELSE {}]' =
      [[v \in Workers |-> IF pc[v] = "respond" THEN mine[v] ELSE {}] EXCEPT ![w] = Ids(w) \ event]
  BY <1>2, <1>4 DEF TypeOK
<1> QED
  BY <1>2, <1>3, <1>5, <1>6 DEF Table!Record

LEMMA RespondAnswers ==
    ASSUME IngestInv, NEW w \in Workers, Respond(w)
    PROVE  Table!Answer(w)
<1> USE DEF IngestInv
<1> DEFINE n(r) == Cardinality({k \in AcceptedAt(w) : batch[w][k] = r})
<1>1. pc[w] = "respond" /\ batch[w] \in Seq(Rids) /\ mine[w] \subseteq Ids(w)
  BY DEF Respond, TypeOK, OwnRows
<1>2. \A r \in Rids : n(r) = IF r \in mine[w] THEN 1 ELSE 0
  BY <1>1, AcceptedPositions
<1>3. accepted' = [r \in Rids |-> accepted[r] + n(r)] /\ answered' = answered \cup Ids(w)
  BY DEF Respond
<1> HIDE DEF n
<1>4. accepted' = [r \in Rids |-> IF r \in mine[w] THEN accepted[r] + 1 ELSE accepted[r]]
  <2>1. \A r \in Rids : accepted[r] + n(r) = IF r \in mine[w] THEN accepted[r] + 1 ELSE accepted[r]
    BY <1>2 DEF TypeOK
  <2> QED
    BY <1>3, <2>1
<1>5. Table!Forget(w)
  BY <1>1, TableForgets DEF Respond
<1> QED
  BY <1>1, <1>3, <1>4, <1>5 DEF Table!Answer

LEMMA TableNext == ASSUME IngestInv, IngestNext PROVE [Table!Next]_Table!table
<1> USE DEF IngestInv
<1>1. PICK w \in Workers : Receive(w) \/ WorkerStep(w) \/ Crash(w)
  BY DEF IngestNext
<1>2. CASE Receive(w)
  <2>1. pc[w] = "idle" /\ pc'[w] = "insert" /\ UNCHANGED <<event, told>>
    BY <1>2 DEF Receive, TypeOK
  <2>2. \A v \in Workers \ {w} : pc'[v] = pc[v] /\ batch'[v] = batch[v] /\ mine'[v] = mine[v]
    BY <1>2 DEF Receive, TypeOK
  <2> QED
    BY <2>1, <2>2, TableKept
<1>3. CASE InsertRow(w)
  BY <1>3, TableKept DEF InsertRow, Inserting, TypeOK
<1>4. CASE Commit(w)
  <2>1. Ids(w) \in SUBSET Rids /\ Table!Record(w, Ids(w))
    BY <1>4, CommitRecords
  <2> QED
    BY <2>1 DEF Table!Next, Table!Record
<1>5. CASE Respond(w)
  BY <1>5, RespondAnswers DEF Table!Next
<1>6. ASSUME Finish(w), UNCHANGED <<event, told>> PROVE [Table!Next]_Table!table
  <2>1. CASE pc[w] = "respond"
    <3>1. Table!Forget(w)
      BY <1>6, <2>1, TableForgets
    <3> QED
      BY <1>6, <3>1 DEF Table!Lose, Table!Next, told
  <2>2. CASE pc[w] # "respond"
    BY <1>6, <2>2, TableKept DEF Finish, TypeOK
  <2> QED
    BY <2>1, <2>2
<1>7. CASE DeadlockVictim(w) \/ Crash(w)
  BY <1>6, <1>7 DEF DeadlockVictim, Crash
<1> QED
  BY <1>1, <1>2, <1>3, <1>4, <1>5, <1>7 DEF WorkerStep

LEMMA TableInit == IngestInit => Table!Init
BY DEF IngestInit, Table!Init
-----------------------------------------------------------------------------
(* Pages                                                                   *)

LEMMA BucketsFinite ==
    ASSUME IngestInv
    PROVE  /\ Buckets \subseteq First .. Last - 1
           /\ IsFiniteSet(Buckets)
           /\ Cardinality(Buckets) \in Nat
           /\ \A b \in Buckets : b < cursor
<1>1. Buckets \subseteq First .. Last - 1 /\ \A b \in Buckets : b < cursor
  BY DEF Buckets, InRange
<1>2. IsFiniteSet(First .. Last - 1)
  BY BucketsAssumption, FS_Interval
<1>3. IsFiniteSet(Buckets)
  BY <1>1, <1>2, FS_Subset
<1> QED
  BY <1>1, <1>3, FS_CardinalityType

\* Buckets newer than one of a page are on the page.
LEMMA NewerOnPage ==
    ASSUME IngestInv, NEW limit \in Limits, NEW b \in OnPage(limit), NEW c \in Buckets, c >= b
    PROVE  c \in OnPage(limit)
<1> DEFINE Above(x) == {d \in Buckets : d > x}
<1>1. b \in Int /\ c \in Int /\ limit \in Nat /\ Buckets \subseteq Int
  BY BucketsFinite, BucketsAssumption DEF OnPage
<1>2. Above(c) \subseteq Above(b) /\ Above(b) \subseteq Buckets
  <2>1. \A d \in Buckets : d > c => d > b
    BY <1>1
  <2> QED
    BY <2>1
<1>3. IsFiniteSet(Above(b))
  BY <1>2, BucketsFinite, FS_Subset
<1>4. IsFiniteSet(Above(c)) /\ Cardinality(Above(c)) <= Cardinality(Above(b))
  BY <1>2, <1>3, FS_Subset
<1>5. Cardinality(Above(b)) \in Nat /\ Cardinality(Above(c)) \in Nat
  BY <1>3, <1>4, FS_CardinalityType
<1>6. Cardinality(Above(b)) < limit
  BY DEF OnPage
<1>7. Cardinality(Above(c)) < limit
  BY <1>1, <1>4, <1>5, <1>6
<1> QED
  BY <1>7 DEF OnPage

\* Without a next page, the page holds every bucket that is left.
LEMMA LastPage ==
    ASSUME IngestInv, NEW limit \in Limits, ~HasMore(limit)
    PROVE  OnPage(limit) = Buckets
<1> SUFFICES ASSUME NEW b \in Buckets PROVE b \in OnPage(limit)
  BY DEF OnPage
<1> DEFINE A == {d \in Buckets : d > b}
<1>0. limit \in Nat /\ b \in Int
  BY BucketsFinite, BucketsAssumption
<1>1. A \subseteq Buckets \ {b}
  BY <1>0
<1>2. IsFiniteSet(Buckets \ {b}) /\ Cardinality(Buckets \ {b}) = Cardinality(Buckets) - 1
  BY BucketsFinite, FS_RemoveElement
<1>3. IsFiniteSet(A) /\ Cardinality(A) <= Cardinality(Buckets) - 1
  BY <1>1, <1>2, FS_Subset
<1>4. Cardinality(A) < limit
  BY <1>0, <1>3, BucketsFinite, FS_CardinalityType DEF HasMore
<1> QED
  BY <1>4 DEF OnPage

\* With a next page, the cursor is the least bucket of the page, which holds
\* every bucket from there up to the cursor before.
LEMMA NextPage ==
    ASSUME IngestInv, NEW limit \in Limits, HasMore(limit)
    PROVE  /\ LastRow(limit) \in OnPage(limit)
           /\ \A b \in OnPage(limit) : LastRow(limit) <= b
           /\ \A b \in Buckets : b >= LastRow(limit) => b \in OnPage(limit)
<1>0. /\ limit \in Nat \ {0} /\ First \in Int /\ Last \in Int /\ Buckets \subseteq Int
      /\ \A b \in Buckets : First <= b /\ b <= Last
  BY BucketsFinite, BucketsAssumption
<1>1. Buckets # {}
  BY <1>0, FS_EmptySet, BucketsFinite DEF HasMore
<1>2. PICK g \in Buckets : \A b \in Buckets : b <= g
  BY <1>0, <1>1, GreatestInt
<1>3. {b \in Buckets : b > g} = {}
  <2>1. \A b \in Buckets : ~(b > g)
    BY <1>0, <1>2
  <2> QED
    BY <2>1
<1>4. Cardinality({b \in Buckets : b > g}) = 0
  BY <1>3, FS_EmptySet
<1>5. g \in OnPage(limit)
  BY <1>0, <1>2, <1>4 DEF OnPage
<1>6. OnPage(limit) \subseteq Buckets
  BY DEF OnPage
<1>7. \E b \in OnPage(limit) : \A c \in OnPage(limit) : b <= c
  BY <1>0, <1>5, <1>6, LeastInt
<1>8. LastRow(limit) \in OnPage(limit) /\ \A b \in OnPage(limit) : LastRow(limit) <= b
  BY <1>7 DEF LastRow
<1> QED
  BY <1>8, NewerOnPage

LEMMA ReadPageInv ==
    ASSUME PagesInv, NEW limit \in Limits, ReadPage(limit)
    PROVE  PagesInv'
<1> USE DEF PagesInv
<1> DEFINE P == OnPage(limit)
<1>1. /\ P \subseteq Buckets /\ Buckets \subseteq First .. Last - 1
      /\ \A b \in Buckets : b < cursor
      /\ First \in Int /\ Last \in Int /\ cursor \in Int
  BY BucketsFinite, BucketsAssumption DEF OnPage, PagesTypeOK
<1>2. /\ owed' = IF reader = "idle" THEN InRange ELSE owed
      /\ sum' = sum \cup {r \in event : BucketOf[r] \in P}
      /\ DOMAIN shown = First .. Last - 1 /\ DOMAIN shown' = First .. Last - 1
      /\ \A b \in First .. Last - 1 : /\ shown[b] \in Nat
                                     /\ shown'[b] = shown[b] + IF b \in P THEN 1 ELSE 0
      /\ event' = event /\ InRange' = InRange /\ reader # "finished"
  BY DEF ReadPage, PagesTypeOK, ingestVars, InRange
<1>3. /\ HasMore(limit) => reader' = "reading" /\ cursor' = LastRow(limit)
      /\ ~HasMore(limit) => reader' = "finished" /\ cursor' = cursor
  BY DEF ReadPage
<1>4. owed' \subseteq InRange /\ InRange \subseteq event
  BY <1>2 DEF PagesTypeOK, InRange
<1>5. \A r \in owed' : BucketOf[r] \in First .. Last - 1
  BY <1>4 DEF InRange
<1>6. \A r \in owed' : BucketOf[r] >= cursor => r \in sum
  BY <1>1, <1>2, <1>5 DEF UpToCursor
<1>7. \A r \in owed' : BucketOf[r] < cursor => BucketOf[r] \in Buckets /\ r \in event
  BY <1>4 DEF Buckets
<1>8. \A b \in First .. Last - 1 : b < cursor => shown[b] = 0
  BY <1>2 DEF UpToCursor
<1> HIDE DEF P
<1>9. IngestInv'
  BY DEF ReadPage, ingestVars, IngestInv, TypeOK, RowsApart, AcceptedLast, DealtWith,
         OwnRows, Ids, AcceptedOnce, AnsweredIsStored
<1>10. \A b \in First .. Last - 1 : shown'[b] <= 1
  BY <1>1, <1>2, <1>8 DEF PagesAddUp
<1>11. shown' \in [First .. Last - 1 -> Nat]
  BY <1>1 DEF ReadPage, PagesTypeOK
<1>12. CASE HasMore(limit)
  <2>1. /\ cursor' \in P /\ \A b \in P : cursor' <= b
        /\ \A b \in Buckets : b >= cursor' => b \in P
    BY <1>3, <1>12, NextPage DEF P
  <2>2. cursor' \in Int /\ cursor' < cursor /\ cursor' <= Last
    BY <1>1, <2>1
  <2>3. PagesTypeOK'
    BY <1>2, <1>3, <1>4, <1>11, <1>12, <2>2 DEF PagesTypeOK
  <2>4. \A b \in First .. Last - 1 : b < cursor' => shown'[b] = 0
    BY <1>1, <1>2, <1>8, <2>1, <2>2
  <2>5. ASSUME NEW r \in owed', BucketOf[r] >= cursor' PROVE r \in sum'
    <3>1. CASE BucketOf[r] >= cursor
      BY <1>2, <1>6, <3>1
    <3>2. CASE BucketOf[r] < cursor
      BY <1>2, <1>7, <2>1, <2>5, <3>2
    <3> QED
      BY <1>1, <1>5, <3>1, <3>2
  <2> QED
    BY <1>2, <1>3, <1>9, <1>10, <1>12, <2>3, <2>4, <2>5 DEF UpToCursor, PagesAddUp
<1>13. CASE ~HasMore(limit)
  <2>1. P = Buckets
    BY <1>13, LastPage DEF P
  <2>2. PagesTypeOK'
    BY <1>2, <1>3, <1>4, <1>11, <1>13 DEF PagesTypeOK
  <2>3. ASSUME NEW r \in owed' PROVE r \in sum'
    <3>1. CASE BucketOf[r] >= cursor
      BY <1>2, <1>6, <3>1
    <3>2. CASE BucketOf[r] < cursor
      BY <1>2, <1>7, <2>1, <3>2
    <3> QED
      BY <1>1, <1>5, <3>1, <3>2
  <2> QED
    BY <1>2, <1>3, <1>9, <1>10, <1>13, <2>2, <2>3 DEF UpToCursor, PagesAddUp
<1> QED
  BY <1>12, <1>13

LEMMA NextInv == ASSUME PagesInv, [Next]_vars PROVE PagesInv'
<1> USE DEF PagesInv
<1>1. ASSUME IngestNext, UNCHANGED readerVars PROVE PagesInv'
  <2>1. IngestInv' /\ event \subseteq event'
    BY <1>1, IngestNextInv, EventsStay
  <2>2. PagesTypeOK' /\ UpToCursor' /\ PagesAddUp'
    BY <1>1, <2>1 DEF readerVars, PagesTypeOK, InRange, UpToCursor, PagesAddUp
  <2> QED
    BY <2>1, <2>2
<1>2. ASSUME NEW limit \in Limits, ReadPage(limit) PROVE PagesInv'
  BY <1>2, ReadPageInv
<1>3. CASE UNCHANGED vars
  BY <1>3 DEF vars, ingestVars, readerVars, IngestInv, TypeOK, RowsApart, AcceptedLast, DealtWith,
              OwnRows, Ids, AcceptedOnce, AnsweredIsStored, PagesTypeOK, InRange, UpToCursor, PagesAddUp
<1> QED
  BY <1>1, <1>2, <1>3 DEF Next

LEMMA PagesInvAlways == Spec => []PagesInv
<1>1. Init => PagesInv
  BY InitIngest, BucketsAssumption
     DEF Init, PagesInv, PagesTypeOK, UpToCursor, PagesAddUp
<1>2. PagesInv /\ [Next]_vars => PagesInv'
  BY NextInv
<1> QED
  BY <1>1, <1>2, PTL DEF Spec

\* Every variable of the ingest endpoint keeps its type.
THEOREM TypeCorrect == Spec => []TypeOK
<1>1. PagesInv => TypeOK
  BY DEF PagesInv, IngestInv
<1> QED
  BY <1>1, PagesInvAlways, PTL

\* No id is answered "accepted" twice (EventIngestView.post).
THEOREM OneAcceptance == Spec => []AcceptedOnce
<1>1. PagesInv => AcceptedOnce
  BY DEF PagesInv, IngestInv
<1> QED
  BY <1>1, PagesInvAlways, PTL

\* An id is answered only when its event is stored (EventIngestView.post).
THEOREM AnswersHold == Spec => []AnsweredIsStored
<1>1. PagesInv => AnsweredIsStored
  BY DEF PagesInv, IngestInv
<1> QED
  BY <1>1, PagesInvAlways, PTL

\* Concurrent batches behave as if each were stored in one step, and each answer
\* accepts exactly the events that its batch stored (EventIngestView.post).
THEOREM ImplementsTable == Spec => TableSpec
<1>1. Init => Table!Init
  BY TableInit DEF Init
<1>2. PagesInv /\ [Next]_vars => [Table!Next]_Table!table
  <2> SUFFICES ASSUME PagesInv, [Next]_vars PROVE [Table!Next]_Table!table
    OBVIOUS
  <2>1. CASE IngestNext
    BY <2>1, TableNext DEF PagesInv
  <2>2. CASE UNCHANGED ingestVars
    BY <2>2 DEF Table!table, ingestVars, Ids
  <2> QED
    BY <2>1, <2>2 DEF Next, ReadPage, vars
<1> QED
  BY <1>1, <1>2, PagesInvAlways, PTL DEF Spec, TableSpec, Table!Spec

\* The pages of the usage endpoint neither skip nor repeat (UsageView.get).
THEOREM PagesComplete == Spec => []PagesAddUp
<1>1. PagesInv => PagesAddUp
  BY DEF PagesInv
<1> QED
  BY <1>1, PagesInvAlways, PTL
===============================================================================
