----------------------------- MODULE MCUsagePages -----------------------------
(* An instance of UsagePages and IngestBatch for TLC. *)
EXTENDS UsagePages, TLC

CONSTANTS r1, r2, r3

\* Two batches with the same events in opposite orders, one that repeats an
\* event, and one whose event lies between the others in time.
Overlapping == {<<r1, r2>>, <<r2, r1>>, <<r2, r2, r3>>}
Hour == r1 :> 3 @@ r2 :> 1 @@ r3 :> 2
===============================================================================
