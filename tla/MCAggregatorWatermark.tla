------------------------ MODULE MCAggregatorWatermark ------------------------
(* An instance of AggregatorWatermark for TLC. *)
EXTENDS AggregatorWatermark, TLC

CONSTANTS e1, e2, a1, b1

\* Two events of different customers.
Falls == e1 :> a1 @@ e2 :> b1
Owns == a1 :> "a" @@ b1 :> "b"
==============================================================================
