----------------------------- MODULE UsageLedger -----------------------------
(***************************************************************************)
(* What the billing pipeline promises about usage events: a ledger with no *)
(* windows, locks or transactions.  Events are recorded once; issuing the  *)
(* invoice of a month charges, in one step, every recorded event of that   *)
(* month and every event that was recorded too late for the invoice of its *)
(* own, earlier month.                                                     *)
(***************************************************************************)
EXTENDS Integers

CONSTANTS Rids, NumPeriods

VARIABLES
    month,    \* per event: its month, 0 while it is not recorded
    charged,  \* per event: the invoices that charge it
    issued    \* the months that have been invoiced

ledger == <<month, charged, issued>>
Months == 1 .. NumPeriods

Init ==
    /\ month = [r \in Rids |-> 0]
    /\ charged = [r \in Rids |-> {}]
    /\ issued = {}

\* A batch: every event in it that is not yet recorded gets its month.
Record ==
    /\ month' \in [Rids -> 0 .. NumPeriods]
    /\ \A r \in Rids : month[r] # 0 => month'[r] = month[r]
    /\ UNCHANGED <<charged, issued>>

\* What the invoice of month p charges.
Due(p) == {r \in Rids : /\ month[r] # 0
                        /\ charged[r] = {}
                        /\ \/ month[r] = p
                           \/ month[r] < p /\ month[r] \in issued}

Issue(p) ==
    /\ p \notin issued
    /\ issued' = issued \cup {p}
    /\ charged' = [r \in Rids |-> IF r \in Due(p) THEN {p} ELSE charged[r]]
    /\ UNCHANGED month

Next == Record \/ \E p \in Months : Issue(p)

Spec == Init /\ [][Next]_ledger
=============================================================================
