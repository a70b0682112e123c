------------------------------ MODULE UsagePages ------------------------------
(***************************************************************************)
(* GET /v1/usage read page by page while POST /v1/events keeps inserting:  *)
(* a page is one query over the committed events, grouped into time        *)
(* buckets, newest first, and the cursor is the last bucket of the page.   *)
(* The client asks for a fixed range with a limit of at least 1; it may    *)
(* change the limit from page to page.                                     *)
(***************************************************************************)
EXTENDS IngestBatch

CONSTANTS
    BucketOf,     \* the time bucket of an event's timestamp
    First, Last,  \* the range asked for: buckets First .. Last - 1
    Limits        \* limits the client uses

ASSUME BucketsAssumption == /\ BucketOf \in [Rids -> Int]
                            /\ First \in Int /\ Last \in Int
                            /\ Limits \subseteq Nat \ {0}

VARIABLES
    reader,  \* "idle", "reading" or "finished"
    cursor,  \* the bucket the cursor names; Last when there is none yet
    shown,   \* how often each bucket has been returned
    sum,     \* the events in the sums returned
    owed     \* history: the events in range when the first page was read

readerVars == <<reader, cursor, shown, sum, owed>>
vars == <<ingestVars, readerVars>>

Init ==
    /\ IngestInit
    /\ reader = "idle"
    /\ cursor = Last
    /\ shown = [b \in First .. Last - 1 |-> 0]
    /\ sum = {}
    /\ owed = {}

InRange == {r \in event : BucketOf[r] \in First .. Last - 1}

\* The query: the buckets below the cursor, and those on the page, the newest ones.
Buckets == {BucketOf[r] : r \in {e \in InRange : BucketOf[e] < cursor}}
OnPage(limit) == {b \in Buckets : Cardinality({c \in Buckets : c > b}) < limit}
HasMore(limit) == Cardinality(Buckets) > limit

\* next_cursor is taken from the last row of the page.
LastRowExtra(limit) ==                            \* mutant: from the row looked ahead
    CHOOSE b \in OnPage(limit + 1) : \A c \in OnPage(limit + 1) : b <= c
LastRow(limit) == CHOOSE b \in OnPage(limit) : \A c \in OnPage(limit) : b <= c

ReadPage(limit) ==
    /\ reader # "finished"
    /\ owed' = IF reader = "idle" THEN InRange ELSE owed
    /\ shown' = [b \in DOMAIN shown |-> shown[b] + IF b \in OnPage(limit) THEN 1 ELSE 0]
    /\ sum' = sum \cup {r \in event : BucketOf[r] \in OnPage(limit)}
    /\ IF HasMore(limit)
       THEN reader' = "reading" /\ cursor' = LastRow(limit)
       ELSE reader' = "finished" /\ UNCHANGED cursor
    /\ UNCHANGED ingestVars

Next ==
    \/ IngestNext /\ UNCHANGED readerVars
    \/ \E limit \in Limits : ReadPage(limit)

\* Statements return, the deadlock detector runs, and a transaction that waits
\* for a row is woken whenever its holder ends.  A client need not read on.
Fairness ==
    \A w \in Workers : /\ WF_vars(WorkerStep(w) /\ UNCHANGED readerVars)
                       /\ SF_vars(InsertRow(w) /\ UNCHANGED readerVars)

Spec == Init /\ [][Next]_vars /\ Fairness

-----------------------------------------------------------------------------
(* Properties                                                              *)

\* The pages add up: no bucket is returned twice, whatever is inserted between
\* two pages, and when there is no next page every event that was there at the
\* first one is in a sum.
PagesAddUp ==
    /\ \A b \in DOMAIN shown : shown[b] <= 1
    /\ reader = "finished" => owed \subseteq sum

-----------------------------------------------------------------------------
(* The inductive invariant of the proofs.                                  *)

PagesTypeOK ==
    /\ reader \in {"idle", "reading", "finished"}
    /\ cursor \in Int
    /\ cursor <= Last
    /\ shown \in [First .. Last - 1 -> Nat]
    /\ owed \subseteq InRange

\* Before the first page the cursor is above the range; then everything owed
\* from the cursor up is in a sum, and nothing below it has been returned.
UpToCursor ==
    /\ reader = "idle" => owed = {} /\ cursor = Last
    /\ reader # "finished" =>
          /\ \A b \in DOMAIN shown : b < cursor => shown[b] = 0
          /\ \A r \in owed : BucketOf[r] >= cursor => r \in sum

PagesInv == IngestInv /\ PagesTypeOK /\ UpToCursor /\ PagesAddUp
===============================================================================
