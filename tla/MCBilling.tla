------------------------------ MODULE MCBilling ------------------------------
(* Small instances of Billing for TLC.                                      *)
EXTENDS BillingInv, TLC

CONSTANTS h1, h2, h3

\* Two hours in the first month and one in the second: h2 can stay empty until
\* after the first month is invoiced.
TwoMonths == h1 :> 1 @@ h2 :> 1 @@ h3 :> 2
\* One hour in each of two months.
TwoHours == h1 :> 1 @@ h2 :> 2
\* One month of one hour.
OneHour == h1 :> 1

Symmetric == Permutations(Rids) \cup Permutations(Ingesters)
             \cup Permutations(Invoicers)
=============================================================================
