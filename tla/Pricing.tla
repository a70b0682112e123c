------------------------------- MODULE Pricing -------------------------------
(***************************************************************************)
(* From a month's units to the total of its invoice: the loop of           *)
(* compute_tiered_line_items over the tiers of a price plan, the           *)
(* adjustment for late units, and the roll-up in issue_monthly_invoice.    *)
(* A plan is any collection of tiers the database constraints admit.       *)
(***************************************************************************)
EXTENDS Integers, Sequences, FiniteSetsExt, Functions

CONSTANTS
    Plans,      \* price plans: sequences of tiers in order of ordinality
    MaxUnits,   \* bound: units used in a month
    MaxLate,    \* bound: late units from earlier months
    MaxCredit,  \* bound: sum of the pending credits
    Null        \* end_unit of a tier without upper end

\* A row of price_tier; the CHECK constraints hold of it.
Tier == {t \in [start : Nat, end : Nat \cup {Null}, price : Nat] :
            t.end = Null \/ t.end > t.start}

ASSUME NullAssumption == Null \notin Nat
ASSUME BoundsAssumption == MaxUnits \in Nat /\ MaxLate \in Nat /\ MaxCredit \in Nat
ASSUME PlansAssumption ==
    \A p \in Plans : /\ p \in Seq(Tier)
                     /\ \A j, k \in DOMAIN p : p[j].start = p[k].start => j = k

VARIABLES
    tiers,    \* the plan's tiers, sorted
    units,    \* total_units of the month
    late,     \* units of late events of earlier months
    credit,   \* sum of the pending credits
    i,        \* the tier the loop is at
    charges,  \* one charge per tier reached: [tier, units, amount]
    total     \* total_micro_cents, Null while the invoice is a draft

vars == <<tiers, units, late, credit, i, charges, total>>

\* sorted(tiers, key=start_unit); start_unit is unique, so there is one result.
SortedByOrdinality(p) == {p}                     \* mutant: sort dropped
SortedByStart(p) ==
    {s \in [DOMAIN p -> Range(p)] :
        \A j, k \in DOMAIN p : j < k => s[j].start < s[k].start}

Init ==
    /\ \E p \in Plans : tiers \in SortedByStart(p)
    /\ units \in 0 .. MaxUnits
    /\ late \in 0 .. MaxLate
    /\ credit \in 0 .. MaxCredit
    /\ i = 1
    /\ charges = << >>
    /\ total = Null

MinOf(a, b) == IF a <= b THEN a ELSE b
UpperEnd(t, n) == IF t.end = Null THEN n ELSE t.end

\* Units of a month of n that fall in [start, end) of tier t.
UnitsInclusive(t, n) ==                          \* mutant: end_unit taken inclusive
    MinOf(n, UpperEnd(t, n) + 1) - t.start
UnitsInTier(t, n) == MinOf(n, UpperEnd(t, n)) - t.start

\* compute_tiered_charge: the sum over the tiers that n reaches.
TieredCharge(n) ==
    LET amount == [j \in DOMAIN tiers |-> UnitsInTier(tiers[j], n) * tiers[j].price]
    IN SumFunctionOnSet(amount, {j \in DOMAIN tiers : n > tiers[j].start})

\* late_event_adjustment: the marginal cost of the late units.
AdjustmentFromZero == TieredCharge(late)         \* mutant: late units priced alone
Adjustment == TieredCharge(units + late) - TieredCharge(units)

-----------------------------------------------------------------------------
\* One turn of the loop over the tiers.
ChargeTier ==
    LET t == tiers[i]
        n == UnitsInTier(t, units) IN
    /\ i <= Len(tiers)
    /\ units > t.start
    /\ charges' = IF n > 0
                  THEN Append(charges, [tier |-> i, units |-> n, amount |-> n * t.price])
                  ELSE charges
    /\ i' = i + 1
    /\ UNCHANGED <<tiers, units, late, credit, total>>

\* Usage does not reach this tier, nor the ones after it: break.
StopAtTier ==
    /\ i <= Len(tiers)
    /\ units <= tiers[i].start
    /\ i' = Len(tiers) + 1
    /\ UNCHANGED <<tiers, units, late, credit, charges, total>>

AmountCharged == SumFunctionOnSet([k \in DOMAIN charges |-> charges[k].amount],
                                  DOMAIN charges)
MaxZeroDropped(n) == n                           \* mutant: no floor
MaxZero(n) == IF n < 0 THEN 0 ELSE n

\* The sum of the line items, floored at zero, becomes the total.
RollUp ==
    /\ i = Len(tiers) + 1
    /\ total = Null
    /\ total' = MaxZero(AmountCharged + Adjustment - credit)
    /\ UNCHANGED <<tiers, units, late, credit, i, charges>>

Next == ChargeTier \/ StopAtTier \/ RollUp
Spec == Init /\ [][Next]_vars

-----------------------------------------------------------------------------
(* Properties                                                              *)

Charge == [tier : Nat \ {0}, units : Nat \ {0}, amount : Nat]

\* Every variable stays in its type; a charge is for at least one unit.
TypeOK ==
    /\ tiers \in Seq(Tier)
    /\ units \in 0 .. MaxUnits /\ late \in 0 .. MaxLate /\ credit \in 0 .. MaxCredit
    /\ i \in 1 .. Len(tiers) + 1
    /\ charges \in Seq(Charge)
    /\ total \in Nat \cup {Null}

\* "Tiers in a plan must cover [0, infinity) without gaps", and none overlap:
\* in whatever order, the first unit is in a tier, each tier that ends is followed
\* by one, and ends before the next one starts.
Covers(p) ==
    /\ \E j \in DOMAIN p : p[j].start = 0
    /\ \A j \in DOMAIN p : p[j].end # Null => \E k \in DOMAIN p : p[k].start = p[j].end
    /\ \A j, k \in DOMAIN p :
          p[j].start < p[k].start => p[j].end # Null /\ p[j].end <= p[k].start

\* Reference: the price of the k-th unit of a month is that of its tier.  Where a
\* plan has a gap it is nothing, where tiers overlap it is the sum of their prices.
PriceOfUnit(k) ==
    LET holding == {j \in DOMAIN tiers : /\ tiers[j].start < k
                                         /\ tiers[j].end = Null \/ k <= tiers[j].end}
    IN SumFunctionOnSet([j \in DOMAIN tiers |-> tiers[j].price], holding)
CostOfFirst(n) == SumFunctionOnSet([k \in 1 .. n |-> PriceOfUnit(k)], 1 .. n)

\* The invoice charges every unit of the month at the price of its tier and the
\* late units as the ones that follow them, less the credits, never below zero,
\* for whatever tiers a plan has.
BillIsExact ==
    total # Null => total = MaxZero(CostOfFirst(units + late) - credit)

Done == i = Len(tiers) + 1

\* If the plan covers, the charges tile the month: they are for its first tiers,
\* each begins where the one before it ends, the last one ends with the usage.
ChargesTile ==
    Done /\ Covers(tiers) =>
        /\ units > 0 => Len(charges) > 0
        /\ \A k \in DOMAIN charges :
              /\ charges[k].tier = k
              /\ tiers[k].start + charges[k].units =
                    IF k < Len(charges) THEN tiers[k + 1].start ELSE units
=============================================================================
