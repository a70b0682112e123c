------------------------------ MODULE MCPricing ------------------------------
(* Small instances of Pricing for TLC.                                      *)
EXTENDS Pricing, TLC

T(s, e, p) == [start |-> s, end |-> e, price |-> p]

\* The shape of the brief's plan (free, full price, discount) with its tiers
\* numbered in and out of order, a single tier, a tier of one unit; and plans that
\* nothing rejects, with a gap, without a first tier or a last, and with overlaps.
AnyPlans == {
    <<T(0, 2, 0), T(2, 5, 3), T(5, Null, 1)>>,
    <<T(5, Null, 1), T(0, 2, 0), T(2, 5, 3)>>,
    <<T(0, Null, 2)>>,
    <<T(0, 1, 1), T(1, 2, 3), T(2, Null, 2)>>,
    <<T(0, 2, 1), T(4, Null, 2)>>,
    <<T(6, Null, 5), T(1, 4, 1)>>,
    <<T(0, 5, 1), T(2, Null, 3), T(3, 6, 2)>>,
    << >> }
=============================================================================
