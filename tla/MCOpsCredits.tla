----------------------------- MODULE MCOpsCredits -----------------------------
(* An instance of OpsCredits for TLC. *)
EXTENDS OpsCredits

CONSTANTS alice, bob, acme, globex, small, large

\* One member of staff credits a customer twice with different amounts, tries
\* the key on another customer and on a line item; a colleague repeats one of
\* the requests under the same key.
DoubleClicks ==
    {[staff |-> alice, customer |-> acme, body |-> small],
     [staff |-> alice, customer |-> acme, body |-> large],
     [staff |-> alice, customer |-> globex, body |-> small],
     [staff |-> alice, customer |-> None, body |-> small],
     [staff |-> bob, customer |-> acme, body |-> small]}
===============================================================================
