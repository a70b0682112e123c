----------------------------- MODULE IngestBatch -----------------------------
(***************************************************************************)
(* POST /v1/events row by row: concurrent batches of one customer that     *)
(* share request ids, inserted ON CONFLICT DO NOTHING, and what the client *)
(* is told about each event.  Lateness and the seal lock are in            *)
(* Billing.tla; the lock is shared by all ingesters and orders nothing     *)
(* here.                                                                   *)
(*                                                                         *)
(* The statement inserts the rows of its batch in their order.  A row that *)
(* another open transaction has inserted makes it wait for the end of that *)
(* transaction; PostgreSQL ends a cycle of waits by aborting one of them.  *)
(***************************************************************************)
EXTENDS Integers, Sequences, FiniteSets

CONSTANTS
    Rids,     \* request ids of the customer's events
    Batches,  \* the batches clients send: sequences of request ids
    Workers   \* web workers

ASSUME BatchesAssumption == Batches \subseteq Seq(Rids) \ {<<>>}

VARIABLES
    event,     \* committed rows of event
    pc,        \* where each worker is
    batch,     \* per worker: the batch it serves
    mine,      \* per worker: the rows it has inserted (RETURNING request_id)
    done,      \* per worker: how many rows of its batch it has dealt with
    accepted,  \* history: how often an id was answered "accepted"
    answered   \* history: the ids clients have an answer about

ingestVars == <<event, pc, batch, mine, done, accepted, answered>>
told == <<accepted, answered>>

IngestInit ==
    /\ event = {}
    /\ pc = [w \in Workers |-> "idle"]
    /\ batch = [w \in Workers |-> <<>>]
    /\ mine = [w \in Workers |-> {}]
    /\ done = [w \in Workers |-> 0]
    /\ accepted = [r \in Rids |-> 0]
    /\ answered = {}

\* The worker forgets the request.
Finish(w) ==
    /\ pc' = [pc EXCEPT ![w] = "idle"]
    /\ batch' = [batch EXCEPT ![w] = <<>>]
    /\ mine' = [mine EXCEPT ![w] = {}]
    /\ done' = [done EXCEPT ![w] = 0]

\* The row to insert next, and the other open transactions that hold it.
NextRid(w) == batch[w][done[w] + 1]
Inserting(w) == pc[w] = "insert" /\ done[w] < Len(batch[w])
Holders(w) ==
    {v \in Workers \ {w} : Inserting(w) /\ NextRid(w) \in mine[v] \ event}

\* A set of transactions that each wait for one of the set and are waited for.
WaitCycle(S) ==
    /\ \A v \in S : Holders(v) \cap S # {}
    /\ \A v \in S : \E u \in S : v \in Holders(u)

-----------------------------------------------------------------------------
Receive(w) ==
    /\ pc[w] = "idle"
    /\ \E b \in Batches : batch' = [batch EXCEPT ![w] = b]
    /\ pc' = [pc EXCEPT ![w] = "insert"]
    /\ UNCHANGED <<event, mine, done, told>>

\* ON CONFLICT (customer_id, request_id) DO NOTHING.
InsertRowSkipping(w) ==                           \* mutant: an uncommitted row conflicts
    /\ Inserting(w)
    /\ mine' = [mine EXCEPT ![w] = @ \cup {r \in {NextRid(w)} \ event : Holders(w) = {}}]
    /\ done' = [done EXCEPT ![w] = @ + 1]
    /\ UNCHANGED <<event, pc, batch, told>>
InsertRowReturningIndex(w) ==                     \* mutant: RETURNING another column
    /\ Inserting(w)
    /\ Holders(w) = {}
    /\ mine' = [mine EXCEPT ![w] = @ \cup {done[w]}]
    /\ done' = [done EXCEPT ![w] = @ + 1]
    /\ UNCHANGED <<event, pc, batch, told>>
InsertRow(w) ==
    /\ Inserting(w)
    /\ Holders(w) = {}
    /\ mine' = [mine EXCEPT ![w] = @ \cup ({NextRid(w)} \ event)]
    /\ done' = [done EXCEPT ![w] = @ + 1]
    /\ UNCHANGED <<event, pc, batch, told>>

Commit(w) ==
    /\ pc[w] = "insert"
    /\ done[w] = Len(batch[w])
    /\ event' = event \cup mine[w]
    /\ pc' = [pc EXCEPT ![w] = "respond"]
    /\ UNCHANGED <<batch, mine, done, told>>

\* The deadlock detector aborts a transaction of a cycle: the client gets an
\* error and may send the batch again.
DeadlockVictim(w) ==
    /\ \E S \in SUBSET Workers : w \in S /\ WaitCycle(S)
    /\ Finish(w)
    /\ UNCHANGED <<event, told>>

\* The ids of the batch.
Ids(w) == {batch[w][k] : k \in 1 .. Len(batch[w])}

\* The loop over request_ids: an id is accepted at its first position when the
\* statement returned it, and a duplicate everywhere else.
AcceptedEverywhere(w) ==                          \* mutant: no seen_in_batch
    {k \in 1 .. Len(batch[w]) : batch[w][k] \in mine[w]}
AcceptedAfterSeen(w) ==                           \* mutant: marked as seen before the test
    {k \in 1 .. Len(batch[w]) : /\ batch[w][k] \in mine[w]
                                /\ \A j \in 1 .. k : batch[w][j] # batch[w][k]}
AcceptedAt(w) ==
    {k \in 1 .. Len(batch[w]) : /\ batch[w][k] \in mine[w]
                                /\ \A j \in 1 .. k - 1 : batch[w][j] # batch[w][k]}

Respond(w) ==
    /\ pc[w] = "respond"
    /\ accepted' = [r \in Rids |->
                       accepted[r] + Cardinality({k \in AcceptedAt(w) : batch[w][k] = r})]
    /\ answered' = answered \cup Ids(w)
    /\ Finish(w)
    /\ UNCHANGED event

\* The request fails with an error, or with its worker: atomic() rolls an open
\* transaction back, the answer of a committed one is lost.
CrashLeavingOpen(w) ==                            \* mutant: no atomic(), no rollback
    /\ pc[w] # "idle"
    /\ pc' = [pc EXCEPT ![w] = "idle"]
    /\ batch' = [batch EXCEPT ![w] = <<>>]
    /\ done' = [done EXCEPT ![w] = 0]
    /\ UNCHANGED <<event, mine, told>>
Crash(w) ==
    /\ pc[w] # "idle"
    /\ Finish(w)
    /\ UNCHANGED <<event, told>>

WorkerStep(w) == InsertRow(w) \/ Commit(w) \/ Respond(w) \/ DeadlockVictim(w)

IngestNext == \E w \in Workers : Receive(w) \/ WorkerStep(w) \/ Crash(w)

-----------------------------------------------------------------------------
(* Properties                                                              *)

\* Every variable holds a value of its kind.
TypeOK ==
    /\ event \subseteq Rids
    /\ pc \in [Workers -> {"idle", "insert", "respond"}]
    /\ batch \in [Workers -> Seq(Rids)]
    /\ mine \in [Workers -> SUBSET Rids]
    /\ done \in [Workers -> Nat]
    /\ accepted \in [Rids -> Nat]
    /\ answered \subseteq Rids

\* However batches overlap, repeat an id or are sent again after an error or
\* a lost answer, an id is answered "accepted" at most once.
AcceptedOnce == \A r \in Rids : accepted[r] <= 1

\* An id a client has an answer about is in the table: it never stops
\* retrying an event because another transaction, since rolled back, had it.
AnsweredIsStored == answered \subseteq event

\* Every request ends, in whatever way others fail: none leaves a transaction open
\* whose rows a later batch would wait for, and cycles of waits are resolved.
BatchesEnd == \A w \in Workers : pc[w] # "idle" ~> pc[w] = "idle"

\* Seen from the commits, the endpoint is a table that stores batches one at a
\* time: what several open transactions do to each other's rows does not show, and
\* every answer accepts the events its batch was the first to store, all of them
\* and no others, however much was committed since.
Table == INSTANCE EventTable
           WITH stored <- event,
                asked <- [w \in Workers |-> IF pc[w] = "respond" THEN Ids(w) ELSE {}],
                fresh <- [w \in Workers |-> IF pc[w] = "respond" THEN mine[w] ELSE {}]
TableSpec == Table!Spec

-----------------------------------------------------------------------------
(* The inductive invariant of the proofs.                                  *)

\* A row has one inserter; until that commits nobody else has it, and until
\* that answers nobody was told that it is accepted.
RowsApart ==
    /\ \A v, w \in Workers : v # w => mine[v] \cap mine[w] = {}
    /\ \A w \in Workers : /\ pc[w] = "idle" => mine[w] = {}
                          /\ pc[w] = "insert" => mine[w] \cap event = {}
                          /\ pc[w] = "respond" => mine[w] \subseteq event
AcceptedLast ==
    /\ \A r \in Rids : accepted[r] # 0 => r \in event
    /\ \A w \in Workers : \A r \in mine[w] : accepted[r] = 0

\* The rows of a batch that were dealt with are in the table or on their way.
DealtWith ==
    \A w \in Workers :
        /\ pc[w] = "idle" => done[w] = 0
        /\ pc[w] = "insert" =>
              /\ done[w] <= Len(batch[w])
              /\ \A k \in 1 .. done[w] : batch[w][k] \in mine[w] \cup event
        /\ pc[w] = "respond" => \A k \in 1 .. Len(batch[w]) : batch[w][k] \in event

\* A worker inserts rows of its batch only.
OwnRows == \A w \in Workers : mine[w] \subseteq Ids(w)

IngestInv ==
    /\ TypeOK /\ RowsApart /\ AcceptedLast /\ DealtWith /\ OwnRows
    /\ AcceptedOnce /\ AnsweredIsStored
==============================================================================
