------------------------------ MODULE EventTable ------------------------------
(***************************************************************************)
(* What POST /v1/events promises: a batch is stored as a whole, in one     *)
(* step, the events it was the first to bring are its own, and its answer, *)
(* if one arrives, accepts exactly those.                                  *)
(***************************************************************************)
EXTENDS Integers

CONSTANTS Rids, Workers

VARIABLES
    stored,    \* the events of the customer
    asked,     \* per worker: the ids of the batch it has stored and not answered
    fresh,     \* per worker: those of them that were new
    accepted,  \* how often an id was answered "accepted"
    answered   \* the ids clients have an answer about

table == <<stored, asked, fresh, accepted, answered>>

Init ==
    /\ stored = {}
    /\ asked = [w \in Workers |-> {}]
    /\ fresh = [w \in Workers |-> {}]
    /\ accepted = [r \in Rids |-> 0]
    /\ answered = {}

Record(w, ids) ==
    /\ asked[w] = {}
    /\ asked' = [asked EXCEPT ![w] = ids]
    /\ fresh' = [fresh EXCEPT ![w] = ids \ stored]
    /\ stored' = stored \cup ids
    /\ UNCHANGED <<accepted, answered>>

Forget(w) ==
    /\ asked' = [asked EXCEPT ![w] = {}]
    /\ fresh' = [fresh EXCEPT ![w] = {}]
    /\ UNCHANGED stored

Answer(w) ==
    /\ accepted' = [r \in Rids |-> IF r \in fresh[w] THEN accepted[r] + 1 ELSE accepted[r]]
    /\ answered' = answered \cup asked[w]
    /\ Forget(w)

\* The answer is lost; the batch stays stored.
Lose(w) == Forget(w) /\ UNCHANGED <<accepted, answered>>

Next ==
    \/ \E w \in Workers, ids \in SUBSET Rids : Record(w, ids)
    \/ \E w \in Workers : Answer(w) \/ Lose(w)

Spec == Init /\ [][Next]_table
===============================================================================
