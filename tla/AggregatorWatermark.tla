------------------------- MODULE AggregatorWatermark -------------------------
(***************************************************************************)
(* Which events a run of the aggregator looks at.  A run scans a range of  *)
(* ingested_at between the watermark in cron_state, less an overlap, and a *)
(* cutoff; it recomputes the hour windows of the events it finds, customer *)
(* by customer, and moves the watermark at its end.  ingested_at is the    *)
(* start of the ingest transaction, so an event can become visible with an *)
(* ingested_at that lies behind a scan that has been made.                 *)
(*                                                                         *)
(* Windows are never sealed here: Billing.tla has the sealing, the locks   *)
(* of a customer and the invoicer.                                         *)
(***************************************************************************)
EXTENDS Integers

CONSTANTS
    Events,       \* usage events
    Windows,      \* hour windows, each of one customer
    Customers,
    WindowOf,     \* the window an event falls in
    CustomerOf,   \* the customer of a window
    Aggregators,  \* processes running aggregate_events
    Modes,        \* values of --catch-up in use
    EdgeDelay,    \* EDGE_DELAY
    Overlap,      \* WATERMARK_OVERLAP
    MaxOpen,      \* bound: how long an ingest transaction stays open
    MaxTime,      \* bound: when the clock stops
    MaxCrashes,   \* bound: how often a run dies
    None          \* SQL NULL, or not ingested

Time == 0 .. MaxTime
DelayOf(catchUp) == IF catchUp THEN 0 ELSE EdgeDelay

ASSUME MapsAssumption == /\ WindowOf \in [Events -> Windows]
                         /\ CustomerOf \in [Windows -> Customers]
                         /\ Modes \subseteq BOOLEAN
ASSUME TimesAssumption == /\ EdgeDelay \in Nat /\ Overlap \in Nat /\ MaxOpen \in Nat
                          /\ MaxTime \in Nat /\ MaxCrashes \in Nat
                          /\ None \notin Int /\ None \notin Aggregators
\* What the delay and the overlap are for: an ingest transaction ends before
\* its ingested_at is out of reach of the next run.
ASSUME OpenAssumption == \A m \in Modes : MaxOpen <= DelayOf(m) + Overlap

VARIABLES
    now,        \* the clock of the database
    at,         \* per event: ingested_at, or None when it is not in a transaction
    committed,  \* the events whose transaction has committed
    counted,    \* the events in the sums stored in usage_window
    watermark,  \* cron_state.last_run_at of the aggregator
    pc,         \* where each aggregator is
    run,        \* per aggregator: its cutoff, --catch-up, and the windows to do
    lock,       \* who holds the advisory lock verita:aggregator
    crashes     \* how many runs have died

vars == <<now, at, committed, counted, watermark, pc, run, lock, crashes>>
clients == <<at, committed>>
rollup == <<counted, watermark>>
jobs == <<pc, run, lock, crashes>>

Idle == [cutoff |-> 0, catchUp |-> FALSE, todo |-> {}]

Init ==
    /\ now = 0
    /\ at = [e \in Events |-> None]
    /\ committed = {}
    /\ counted = {}
    /\ watermark = None
    /\ pc = [a \in Aggregators |-> "idle"]
    /\ run = [a \in Aggregators |-> Idle]
    /\ lock = None
    /\ crashes = 0

-----------------------------------------------------------------------------
(* Time and POST /v1/events                                                *)

Open == {e \in Events : at[e] # None /\ e \notin committed}

Tick ==
    /\ now < MaxTime
    /\ \A e \in Open : now - at[e] < MaxOpen
    /\ now' = now + 1
    /\ UNCHANGED <<clients, rollup, jobs>>

\* The transaction starts: NOW() is this instant until it ends.
IngestBegin(e) ==
    /\ at[e] = None
    /\ at' = [at EXCEPT ![e] = now]
    /\ UNCHANGED <<now, committed, rollup, jobs>>

IngestCommit(e) ==
    /\ e \in Open
    /\ committed' = committed \cup {e}
    /\ UNCHANGED <<now, at, rollup, jobs>>

\* Rolled back: the client may send the event again.
IngestAbort(e) ==
    /\ e \in Open
    /\ at' = [at EXCEPT ![e] = None]
    /\ UNCHANGED <<now, committed, rollup, jobs>>

-----------------------------------------------------------------------------
(* run_aggregation                                                         *)

\* The cutoff is computed before the lock is tried, by the clock of the process;
\* ingested_at is the database's NOW().  Both are now: skew counts as delay.
Start(a) ==
    /\ pc[a] = "idle"
    /\ \E m \in Modes :
          run' = [run EXCEPT ![a] = [cutoff |-> now - DelayOf(m), catchUp |-> m, todo |-> {}]]
    /\ pc' = [pc EXCEPT ![a] = "lock"]
    /\ UNCHANGED <<now, clients, rollup, lock, crashes>>

\* pg_try_advisory_lock: skip the run when another process holds it.
TryLockRegardless(a) ==                           \* mutant: the lock is not asked for
    /\ pc[a] = "lock"
    /\ pc' = [pc EXCEPT ![a] = "scan"]
    /\ UNCHANGED <<now, clients, rollup, run, lock, crashes>>
TryLock(a) ==
    /\ pc[a] = "lock"
    /\ IF lock = None
       THEN /\ lock' = a
            /\ pc' = [pc EXCEPT ![a] = "scan"]
            /\ UNCHANGED run
       ELSE /\ pc' = [pc EXCEPT ![a] = "idle"]
            /\ run' = [run EXCEPT ![a] = Idle]
            /\ UNCHANGED lock
    /\ UNCHANGED <<now, clients, rollup, crashes>>

\* WHERE ingested_at >= scan_from AND ingested_at < cutoff.
FoundFromWatermark(a) ==                          \* mutant: no overlap
    {e \in committed : /\ at[e] < run[a].cutoff
                       /\ watermark # None /\ ~run[a].catchUp => at[e] >= watermark}
Found(a) ==
    {e \in committed : /\ at[e] < run[a].cutoff
                       /\ watermark # None /\ ~run[a].catchUp =>
                             at[e] >= watermark - Overlap}

Scan(a) ==
    /\ pc[a] = "scan"
    /\ run' = [run EXCEPT ![a].todo = {WindowOf[e] : e \in Found(a)}]
    /\ pc' = [pc EXCEPT ![a] = "upsert"]
    /\ UNCHANGED <<now, clients, rollup, lock, crashes>>

\* One transaction per customer: the full sums of its candidate windows.
UpsertCustomer(a) ==
    /\ pc[a] = "upsert"
    /\ \E c \in {CustomerOf[w] : w \in run[a].todo} :
          LET chunk == {w \in run[a].todo : CustomerOf[w] = c} IN
          /\ counted' = {e \in counted : WindowOf[e] \notin chunk}
                        \cup {e \in committed : WindowOf[e] \in chunk}
          /\ run' = [run EXCEPT ![a].todo = @ \ chunk]
    /\ UNCHANGED <<now, clients, watermark, pc, lock, crashes>>

\* _set_watermark and the unlock in the finally clause.
MarkAndKeepLock(a) ==                             \* mutant: no unlock
    /\ pc[a] = "upsert"
    /\ run[a].todo = {}
    /\ watermark' = run[a].cutoff
    /\ pc' = [pc EXCEPT ![a] = "idle"]
    /\ run' = [run EXCEPT ![a] = Idle]
    /\ UNCHANGED <<now, clients, counted, lock, crashes>>
Mark(a) ==
    /\ pc[a] = "upsert"
    /\ run[a].todo = {}
    /\ watermark' = run[a].cutoff
    /\ pc' = [pc EXCEPT ![a] = "idle"]
    /\ run' = [run EXCEPT ![a] = Idle]
    /\ lock' = None
    /\ UNCHANGED <<now, clients, counted, crashes>>

\* The run fails or dies between two statements: the lock goes with the
\* finally clause or with the connection, the watermark stays.
Crash(a) ==
    /\ pc[a] # "idle"
    /\ crashes < MaxCrashes
    /\ crashes' = crashes + 1
    /\ pc' = [pc EXCEPT ![a] = "idle"]
    /\ run' = [run EXCEPT ![a] = Idle]
    /\ lock' = IF lock = a THEN None ELSE lock
    /\ UNCHANGED <<now, clients, rollup>>

JobStep(a) == Start(a) \/ TryLock(a) \/ Scan(a) \/ UpsertCustomer(a) \/ Mark(a)

Next ==
    \/ Tick
    \/ \E e \in Events : IngestBegin(e) \/ IngestCommit(e) \/ IngestAbort(e)
    \/ \E a \in Aggregators : JobStep(a) \/ Crash(a)

\* The clock runs, transactions end, and cron starts the next run.
Fairness ==
    /\ WF_vars(Tick)
    /\ \A e \in Events : WF_vars(IngestCommit(e) \/ IngestAbort(e))
    /\ \A a \in Aggregators : WF_vars(JobStep(a))

Spec == Init /\ [][Next]_vars /\ Fairness

-----------------------------------------------------------------------------
(* Properties                                                              *)

\* Every variable holds a value of its kind; the holder of the lock is at work.
TypeOK ==
    /\ now \in Time
    /\ at \in [Events -> Time \cup {None}]
    /\ committed \subseteq {e \in Events : at[e] # None}
    /\ counted \subseteq committed
    /\ watermark \in Int \cup {None}
    /\ pc \in [Aggregators -> {"idle", "lock", "scan", "upsert"}]
    /\ run \in [Aggregators -> [cutoff : Int, catchUp : BOOLEAN, todo : SUBSET Windows]]
    /\ lock \in Aggregators \cup {None}
    /\ \A a \in Aggregators : pc[a] \in {"scan", "upsert"} <=> lock = a
    /\ crashes \in 0 .. MaxCrashes

\* Nothing is left behind: an event that no later run will look for again is
\* in the sum of its window, whatever runs died between two customers, were
\* skipped or started with an old cutoff, and however late it committed.
NothingBehindWatermark ==
    watermark # None =>
        \A e \in committed : at[e] < watermark - Overlap => e \in counted

\* A run that dies is made up for: an event ingested before the edge delay
\* gets into the sum of its window.
EventuallyCounted ==
    \A e \in Events :
        e \in committed /\ at[e] < MaxTime - EdgeDelay ~> e \in counted

-----------------------------------------------------------------------------
(* The inductive invariant of the proofs.                                  *)

\* What can still commit is in reach of the runs to come: those that start
\* from the watermark, and those that start from the cutoff of a run at work.
InReach ==
    /\ \A e \in Open : at[e] <= now /\ now - MaxOpen <= at[e]
    /\ watermark # None => watermark - Overlap <= now - MaxOpen
    /\ \A a \in Aggregators : pc[a] # "idle" => run[a].cutoff - Overlap <= now - MaxOpen

\* A run at work has counted, or has still to do, all that it will leave behind.
RunCovers ==
    \A a \in Aggregators : pc[a] = "upsert" =>
        \A e \in committed : at[e] < run[a].cutoff - Overlap =>
            e \in counted \/ WindowOf[e] \in run[a].todo

IInv == TypeOK /\ InReach /\ RunCovers /\ NothingBehindWatermark
==============================================================================
