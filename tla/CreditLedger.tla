----------------------------- MODULE CreditLedger -----------------------------
(* What POST /ops/customers/{id}/credits promises for one Idempotency-Key: a *)
(* customer gets at most one credit under it, with one audit row, and that   *)
(* credit is what every successful answer names, however often the request   *)
(* is repeated.  A refusal needs something else recorded under the same key. *)
CONSTANTS Workers, Staff, Customers, Bodies, None

VARIABLES
    issued,  \* per customer: the body of the credit under the key, or None
    logged,  \* per customer: how many audit rows of such credits there are
    taken,   \* per staff member: the requests recorded under the key so far
    told     \* per worker: the answer given last

Init ==
    /\ issued = [c \in Customers |-> None]
    /\ logged = [c \in Customers |-> 0]
    /\ taken = [s \in Staff |-> {}]
    /\ told = [w \in Workers |-> None]

Issue(s, c, b) ==
    /\ issued[c] = None
    /\ issued' = [issued EXCEPT ![c] = b]
    /\ logged' = [logged EXCEPT ![c] = 1]
    /\ taken' = [taken EXCEPT ![s] = @ \cup {[customer |-> c, body |-> b]}]
    /\ UNCHANGED told

\* Another operation of the console takes the key.
Take(s, b) ==
    /\ taken' = [taken EXCEPT ![s] = @ \cup {[customer |-> None, body |-> b]}]
    /\ UNCHANGED <<issued, logged, told>>

Confirm(w, c) ==
    /\ issued[c] # None
    /\ told' = [told EXCEPT ![w] = [customer |-> c, credit |-> issued[c]]]
    /\ UNCHANGED <<issued, logged, taken>>

Refuse(w, s, c, b) ==
    /\ \E h \in taken[s] : h # [customer |-> c, body |-> b]
    /\ told' = [told EXCEPT ![w] = [customer |-> c, credit |-> None]]
    /\ UNCHANGED <<issued, logged, taken>>

Forget(w) ==
    /\ told' = [told EXCEPT ![w] = None]
    /\ UNCHANGED <<issued, logged, taken>>

Next ==
    \/ \E s \in Staff, c \in Customers, b \in Bodies : Issue(s, c, b)
    \/ \E s \in Staff, b \in Bodies : Take(s, b)
    \/ \E w \in Workers, c \in Customers : Confirm(w, c)
    \/ \E w \in Workers, s \in Staff, c \in Customers, b \in Bodies : Refuse(w, s, c, b)
    \/ \E w \in Workers : Forget(w)

ledgerVars == <<issued, logged, taken, told>>
Spec == Init /\ [][Next]_ledgerVars
===============================================================================
