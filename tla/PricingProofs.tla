---------------------------- MODULE PricingProofs ----------------------------
(* Proofs about the charging loop of Pricing and the roll-up, for plans     *)
(* with any number of tiers, any usage, late units and credits; a plan may  *)
(* have gaps and overlaps, which the constraints of price_tier do not rule  *)
(* out.                                                                     *)
EXTENDS Pricing, SumLemmas, SequenceTheorems, TLAPS

-----------------------------------------------------------------------------
(* Type correctness, for every plan the constraints of price_tier admit    *)

LEMMA UnitsInTierType ==
    ASSUME NEW t \in Tier, NEW n \in Nat
    PROVE  UnitsInTier(t, n) \in Int /\ UnitsInTier(t, n) * t.price \in Int
<1>1. UnitsInTier(t, n) \in Int /\ t.price \in Int
  BY NullAssumption DEF Tier, UnitsInTier, MinOf, UpperEnd
<1> QED
  BY <1>1

\* What the tiers that n units reach contribute, and the sum of it.
Reached(n) == {j \in DOMAIN tiers : n > tiers[j].start}
AmountIn(n) == [j \in DOMAIN tiers |-> UnitsInTier(tiers[j], n) * tiers[j].price]

LEMMA TieredChargeType ==
    ASSUME tiers \in Seq(Tier), NEW n \in Nat
    PROVE  /\ TieredCharge(n) = SumFunctionOnSet(AmountIn(n), Reached(n))
           /\ IsFiniteSet(Reached(n))
           /\ \A j \in DOMAIN tiers : AmountIn(n)[j] \in Int
           /\ TieredCharge(n) \in Int
<1>1. TieredCharge(n) = SumFunctionOnSet(AmountIn(n), Reached(n))
  BY DEF TieredCharge, AmountIn, Reached
<1>2. IsFiniteSet(DOMAIN tiers) /\ Reached(n) \subseteq DOMAIN tiers
  <2>1. DOMAIN tiers = 1 .. Len(tiers) /\ Len(tiers) \in Nat
    OBVIOUS
  <2> QED
    BY <2>1, FS_Interval DEF Reached
<1>3. IsFiniteSet(Reached(n))
  BY <1>2, FS_Subset
<1>4. ASSUME NEW j \in DOMAIN tiers
      PROVE  AmountIn(n)[j] \in Int
  <2>1. tiers[j] \in Tier
    OBVIOUS
  <2> QED
    BY <2>1, UnitsInTierType DEF AmountIn
<1>5. SumFunctionOnSet(AmountIn(n), Reached(n)) \in Int
  BY <1>2, <1>3, <1>4, SumType
<1> QED
  BY <1>1, <1>3, <1>4, <1>5

LEMMA AmountChargedType ==
    ASSUME charges \in Seq(Charge)
    PROVE  AmountCharged \in Int
<1> DEFINE a == [k \in DOMAIN charges |-> charges[k].amount]
<1>1. IsFiniteSet(DOMAIN charges)
  <2>1. DOMAIN charges = 1 .. Len(charges) /\ Len(charges) \in Nat
    OBVIOUS
  <2> QED
    BY <2>1, FS_Interval
<1>2. \A k \in DOMAIN charges : a[k] \in Int
  <2>1. \A k \in DOMAIN charges : charges[k] \in Charge
    OBVIOUS
  <2> QED
    BY <2>1 DEF Charge
<1> HIDE DEF a
<1>3. SumFunctionOnSet(a, DOMAIN charges) \in Int
  BY <1>1, <1>2, SumType
<1> QED
  BY <1>3 DEF AmountCharged, a

\* The sorted tiers are a sequence of tiers, each starting above the one before.
Ascending == \A j, k \in DOMAIN tiers : j < k => tiers[j].start < tiers[k].start

LEMMA SortedTiers ==
    ASSUME Init
    PROVE  tiers \in Seq(Tier) /\ Ascending
<1>1. PICK p \in Plans : tiers \in SortedByStart(p)
  BY DEF Init
<1>2. p \in Seq(Tier)
  BY PlansAssumption
<1>3. tiers \in [DOMAIN p -> Range(p)] /\ Ascending
  BY <1>1 DEF SortedByStart, Ascending
<1>4. Range(p) \subseteq Tier
  BY <1>2 DEF Range
<1> QED
  BY <1>2, <1>3, <1>4

LEMMA InitTypeOK == Init => TypeOK
  BY SortedTiers, NullAssumption, BoundsAssumption DEF Init, TypeOK

LEMMA ChargeTierType ==
    ASSUME TypeOK, ChargeTier
    PROVE  TypeOK'
<1> DEFINE t == tiers[i]
           n == UnitsInTier(t, units)
<1>1. /\ t \in Tier /\ units \in Nat /\ i \in 1 .. Len(tiers) /\ i' = i + 1
      /\ UNCHANGED <<tiers, units, late, credit, total>>
  BY DEF TypeOK, ChargeTier
<1>2. charges' \in Seq(Charge)
  <2>1. CASE n > 0
    <3>1. n \in Nat \ {0} /\ t.price \in Nat
      <4>1. n \in Int
        BY <1>1, UnitsInTierType
      <4>2. t.price \in Nat
        BY <1>1 DEF Tier
      <4> QED
        BY <2>1, <4>1, <4>2
    <3> HIDE DEF n
    <3>2. n * t.price \in Nat
      BY <3>1
    <3>3. [tier |-> i, units |-> n, amount |-> n * t.price] \in Charge
      BY <1>1, <3>1, <3>2 DEF Charge
    <3> QED
      BY <2>1, <3>3 DEF TypeOK, ChargeTier, n
  <2>2. CASE ~ (n > 0)
    BY <2>2 DEF TypeOK, ChargeTier
  <2> QED
    BY <2>1, <2>2
<1> QED
  BY <1>1, <1>2 DEF TypeOK

LEMMA NextTypeOK == TypeOK /\ [Next]_vars => TypeOK'
<1> SUFFICES ASSUME TypeOK, [Next]_vars
             PROVE  TypeOK'
  OBVIOUS
<1>1. CASE ChargeTier
  BY <1>1, ChargeTierType
<1>2. CASE StopAtTier
  BY <1>2 DEF StopAtTier, TypeOK
<1>3. CASE RollUp
  <2>1. /\ AmountCharged \in Int /\ TieredCharge(units + late) \in Int
        /\ TieredCharge(units) \in Int
    <3>1. /\ tiers \in Seq(Tier) /\ charges \in Seq(Charge)
          /\ units \in Nat /\ units + late \in Nat
      BY DEF TypeOK
    <3> QED
      BY <3>1, AmountChargedType, TieredChargeType
  <2>2. AmountCharged + Adjustment - credit \in Int
    BY <2>1 DEF Adjustment, TypeOK
  <2>3. total' \in Nat
    BY <1>3, <2>2 DEF RollUp, MaxZero
  <2> QED
    BY <1>3, <2>3 DEF RollUp, TypeOK
<1>4. CASE UNCHANGED vars
  BY <1>4 DEF vars, TypeOK
<1> QED
  BY <1>1, <1>2, <1>3, <1>4 DEF Next

\* For every plan, gaps and overlaps included, the loop and the roll-up stay in
\* their types: a charge is for at least one unit and the total is not negative.
THEOREM TypeCorrect == Spec => []TypeOK
<1> QED
  BY InitTypeOK, NextTypeOK, PTL DEF Spec

-----------------------------------------------------------------------------
(* The charges tile the month                                              *)

\* What the charge of tier k is once the loop has passed it.
ChargeOf(k) ==
    /\ charges[k].tier = k
    /\ charges[k].units = UnitsInTier(tiers[k], units)
    /\ units > tiers[k].start

\* The inductive invariant: at tier i the loop has charged the i - 1 tiers before
\* it; where it has stopped, the next tier starts at the usage or above it.
LoopInv ==
    /\ tiers \in Seq(Tier) /\ Ascending
    /\ units \in Nat
    /\ i \in 1 .. Len(tiers) + 1
    /\ charges \in Seq([tier : Nat, units : Int, amount : Int])
    /\ Len(charges) <= Len(tiers)
    /\ i <= Len(tiers) => Len(charges) = i - 1
    /\ i = Len(tiers) + 1 /\ Len(charges) < Len(tiers)
          => units <= tiers[Len(charges) + 1].start
    /\ \A k \in DOMAIN charges : ChargeOf(k)

\* The number of units charged in a tier that the usage reaches is positive.
LEMMA UnitsPositive ==
    ASSUME NEW t \in Tier, NEW n \in Nat, n > t.start
    PROVE  /\ UnitsInTier(t, n) \in Int /\ UnitsInTier(t, n) > 0
           /\ t.start \in Nat
           /\ t.end # Null /\ n > t.end => t.start + UnitsInTier(t, n) = t.end
           /\ t.end = Null \/ n <= t.end => t.start + UnitsInTier(t, n) = n
  BY NullAssumption DEF Tier, UnitsInTier, MinOf, UpperEnd

\* Sorted, a covering plan starts at 0, every tier but the last ends where the next
\* one starts, and the last has no end.
LEMMA CoverChains ==
    ASSUME tiers \in Seq(Tier), Ascending, Covers(tiers)
    PROVE  /\ Len(tiers) > 0 /\ tiers[1].start = 0
           /\ \A k \in 1 .. Len(tiers) - 1 : tiers[k].end = tiers[k + 1].start
           /\ tiers[Len(tiers)].end = Null
<1>1. /\ DOMAIN tiers = 1 .. Len(tiers) /\ Len(tiers) \in Nat
      /\ \A k \in DOMAIN tiers : tiers[k] \in Tier
  OBVIOUS
<1>2. \A k \in DOMAIN tiers : /\ tiers[k].start \in Nat
                              /\ tiers[k].end # Null => /\ tiers[k].end \in Nat
                                                        /\ tiers[k].end > tiers[k].start
  BY <1>1, NullAssumption DEF Tier
<1>3. PICK j \in DOMAIN tiers : tiers[j].start = 0
  BY DEF Covers
<1>4. j = 1 /\ Len(tiers) > 0
  <2>1. 1 \in DOMAIN tiers /\ Len(tiers) > 0
    BY <1>1, <1>3
  <2>2. ~ (1 < j)
    BY <2>1, <1>2, <1>3 DEF Ascending
  <2> QED
    BY <2>1, <2>2, <1>1
<1>5. ASSUME NEW k \in 1 .. Len(tiers) - 1
      PROVE  tiers[k].end = tiers[k + 1].start
  <2>1. k \in DOMAIN tiers /\ k + 1 \in DOMAIN tiers /\ k < k + 1
    BY <1>1
  <2>2. tiers[k].start < tiers[k + 1].start
    BY <2>1 DEF Ascending
  <2>3. tiers[k].end # Null /\ tiers[k].end <= tiers[k + 1].start
    BY <2>1, <2>2 DEF Covers
  <2>4. PICK m \in DOMAIN tiers : tiers[m].start = tiers[k].end
    BY <2>1, <2>3 DEF Covers
  <2>5. ~ (m < k) /\ m # k
    <3>1. tiers[k].start < tiers[m].start
      BY <2>1, <2>3, <2>4, <1>2
    <3>2. ~ (tiers[m].start < tiers[k].start)
      BY <2>1, <2>4, <3>1, <1>2
    <3> QED
      BY <2>1, <3>1, <3>2, <1>2 DEF Ascending
  <2>6. ~ (k + 1 < m)
    BY <2>1, <2>3, <2>4, <1>2 DEF Ascending
  <2> QED
    BY <2>1, <2>4, <2>5, <2>6, <1>1
<1>6. tiers[Len(tiers)].end = Null
  <2> SUFFICES ASSUME tiers[Len(tiers)].end # Null
               PROVE  FALSE
    OBVIOUS
  <2>1. Len(tiers) \in DOMAIN tiers
    BY <1>1, <1>4
  <2>2. PICK m \in DOMAIN tiers : tiers[m].start = tiers[Len(tiers)].end
    BY <2>1 DEF Covers
  <2>3. m = Len(tiers) \/ tiers[m].start < tiers[Len(tiers)].start
    BY <2>1, <1>1 DEF Ascending
  <2> QED
    BY <2>1, <2>2, <2>3, <1>2
<1> QED
  BY <1>3, <1>4, <1>5, <1>6

LEMMA InitLoopInv == Init => LoopInv
<1> SUFFICES ASSUME Init
             PROVE  LoopInv
  OBVIOUS
<1>1. tiers \in Seq(Tier) /\ Ascending
  BY SortedTiers
<1> QED
  BY <1>1, BoundsAssumption DEF Init, LoopInv

LEMMA ChargeTierKeeps ==
    ASSUME LoopInv, ChargeTier
    PROVE  LoopInv'
<1> DEFINE t == tiers[i]
           n == UnitsInTier(t, units)
           c == [tier |-> i, units |-> n, amount |-> n * t.price]
<1>1. /\ i \in 1 .. Len(tiers) /\ units > t.start
      /\ i' = i + 1 /\ tiers' = tiers /\ units' = units
      /\ Len(charges) = i - 1
  BY DEF LoopInv, ChargeTier
<1>2. /\ tiers \in Seq(Tier) /\ t \in Tier /\ units \in Nat
      /\ charges \in Seq([tier : Nat, units : Int, amount : Int])
  BY <1>1 DEF LoopInv
<1>3. n \in Int /\ n > 0 /\ t.price \in Int
  BY <1>1, <1>2, UnitsPositive DEF Tier
<1>4. charges' = Append(charges, c)
  BY <1>3 DEF ChargeTier
<1>5. n * t.price \in Int
  BY <1>3
<1>6. c \in [tier : Nat, units : Int, amount : Int]
  BY <1>1, <1>3, <1>5
<1>7. /\ charges' \in Seq([tier : Nat, units : Int, amount : Int])
      /\ Len(charges') = i
      /\ DOMAIN charges' = 1 .. i
      /\ \A k \in 1 .. i - 1 : charges'[k] = charges[k]
      /\ charges'[i] = c
  BY <1>1, <1>2, <1>4, <1>6
<1>8. ASSUME NEW k \in DOMAIN charges'
      PROVE  ChargeOf(k)'
  <2>1. CASE k = i
    BY <2>1, <1>1, <1>7 DEF ChargeOf, UnitsInTier, MinOf, UpperEnd
  <2>2. CASE k # i
    <3>1. k \in DOMAIN charges
      BY <2>2, <1>1, <1>2, <1>7
    <3>2. ChargeOf(k)
      BY <3>1 DEF LoopInv
    <3> QED
      BY <2>2, <3>2, <1>1, <1>7 DEF ChargeOf, UnitsInTier, MinOf, UpperEnd
  <2> QED
    BY <2>1, <2>2
<1>9. Ascending'
  BY <1>1 DEF LoopInv, Ascending
<1> QED
  BY <1>1, <1>2, <1>7, <1>8, <1>9 DEF LoopInv

LEMMA StopAtTierKeeps ==
    ASSUME LoopInv, StopAtTier
    PROVE  LoopInv'
<1>1. /\ i \in 1 .. Len(tiers) /\ units <= tiers[i].start
      /\ i' = Len(tiers) + 1 /\ tiers' = tiers /\ units' = units /\ charges' = charges
      /\ Len(charges) = i - 1
  BY DEF LoopInv, StopAtTier
<1>2. \A k \in DOMAIN charges : ChargeOf(k)'
  BY <1>1 DEF LoopInv, ChargeOf, UnitsInTier, MinOf, UpperEnd
<1>3. Ascending'
  BY <1>1 DEF LoopInv, Ascending
<1> QED
  BY <1>1, <1>2, <1>3 DEF LoopInv

LEMMA LoopInvFrame ==
    ASSUME LoopInv, UNCHANGED <<tiers, units, i, charges>>
    PROVE  LoopInv'
  BY DEF LoopInv, Ascending, ChargeOf, UnitsInTier, MinOf, UpperEnd

LEMMA NextLoopInv == LoopInv /\ [Next]_vars => LoopInv'
<1> SUFFICES ASSUME LoopInv, [Next]_vars
             PROVE  LoopInv'
  OBVIOUS
<1>1. CASE ChargeTier
  BY <1>1, ChargeTierKeeps
<1>2. CASE StopAtTier
  BY <1>2, StopAtTierKeeps
<1>3. CASE RollUp
  BY <1>3, LoopInvFrame DEF RollUp
<1>4. CASE UNCHANGED vars
  BY <1>4, LoopInvFrame DEF vars
<1> QED
  BY <1>1, <1>2, <1>3, <1>4 DEF Next

LEMMA LoopInvTiles == LoopInv => ChargesTile
<1> SUFFICES ASSUME LoopInv, Done, Covers(tiers)
             PROVE  /\ units > 0 => Len(charges) > 0
                    /\ \A k \in DOMAIN charges :
                          /\ charges[k].tier = k
                          /\ tiers[k].start + charges[k].units =
                                IF k < Len(charges) THEN tiers[k + 1].start ELSE units
  BY DEF ChargesTile
<1>1. /\ tiers \in Seq(Tier) /\ Ascending /\ units \in Nat
      /\ charges \in Seq([tier : Nat, units : Int, amount : Int])
      /\ Len(charges) <= Len(tiers)
      /\ \A k \in DOMAIN charges : ChargeOf(k)
      /\ Len(charges) < Len(tiers) => units <= tiers[Len(charges) + 1].start
  BY DEF LoopInv, Done
<1>2. /\ Len(tiers) > 0 /\ tiers[1].start = 0
      /\ \A k \in 1 .. Len(tiers) - 1 : tiers[k].end = tiers[k + 1].start
      /\ tiers[Len(tiers)].end = Null
  BY <1>1, CoverChains
<1>3. units > 0 => Len(charges) > 0
  BY <1>1, <1>2
<1>4. ASSUME NEW k \in DOMAIN charges
      PROVE  /\ charges[k].tier = k
             /\ tiers[k].start + charges[k].units =
                   IF k < Len(charges) THEN tiers[k + 1].start ELSE units
  <2>1. k \in 1 .. Len(charges) /\ k \in DOMAIN tiers /\ tiers[k] \in Tier
    BY <1>1
  <2>2. /\ charges[k].tier = k
        /\ charges[k].units = UnitsInTier(tiers[k], units)
        /\ units > tiers[k].start
    BY <1>1 DEF ChargeOf
  <2>3. CASE k < Len(charges)
    <3>1. k \in 1 .. Len(tiers) - 1 /\ k + 1 \in DOMAIN charges /\ tiers[k + 1] \in Tier
      <4>1. /\ Len(tiers) \in Nat /\ DOMAIN tiers = 1 .. Len(tiers)
            /\ Len(charges) \in Nat /\ DOMAIN charges = 1 .. Len(charges)
        BY <1>1, LenProperties
      <4>2. k \in 1 .. Len(charges) /\ Len(charges) <= Len(tiers)
        BY <2>1, <1>1
      <4>3. k \in 1 .. Len(tiers) - 1 /\ k + 1 \in DOMAIN charges /\ k + 1 \in DOMAIN tiers
        BY <4>1, <4>2, <2>3
      <4>4. tiers[k + 1] \in Tier
        BY <4>3, <1>1, ElementOfSeq
      <4> QED
        BY <4>3, <4>4
    <3>2. units > tiers[k + 1].start /\ tiers[k].end = tiers[k + 1].start
      BY <3>1, <1>1, <1>2 DEF ChargeOf
    <3>3. tiers[k].end # Null
      BY <3>1, <3>2, NullAssumption DEF Tier
    <3>4. tiers[k].start + UnitsInTier(tiers[k], units) = tiers[k].end
      BY <2>1, <2>2, <3>2, <3>3, <1>1, UnitsPositive
    <3> QED
      BY <2>2, <2>3, <3>2, <3>4
  <2>4. CASE k = Len(charges)
    <3>1. tiers[k].end = Null \/ units <= tiers[k].end
      <4>1. Len(tiers) \in Nat /\ Len(charges) \in Nat
        BY <1>1
      <4>2. CASE k = Len(tiers)
        BY <4>2, <1>2
      <4>3. CASE k < Len(tiers)
        <5>1. k \in 1 .. Len(tiers) - 1
          BY <4>1, <4>3, <2>1
        <5> QED
          BY <5>1, <4>3, <2>4, <1>1, <1>2
      <4> QED
        BY <4>1, <4>2, <4>3, <2>4, <1>1
    <3> QED
      BY <2>1, <2>2, <2>4, <3>1, <1>1, UnitsPositive
  <2> QED
    BY <2>1, <2>2, <2>3, <2>4, <1>1
<1> QED
  BY <1>3, <1>4

\* For every covering plan and every usage, the loop of compute_tiered_line_items
\* charges each unit of the month in exactly one tier.
THEOREM TilesEveryPlan == Spec => []ChargesTile
<1> QED
  BY InitLoopInv, NextLoopInv, LoopInvTiles, PTL DEF Spec

-----------------------------------------------------------------------------
(* The bill is exact                                                       *)

\* The two sums over all tiers: what the tiers charge for n units, and what those
\* that hold the n-th unit charge for it.
AmountOrNone(n) == [j \in DOMAIN tiers |-> IF n > tiers[j].start THEN AmountIn(n)[j] ELSE 0]
Holding(n) == {j \in DOMAIN tiers : /\ tiers[j].start < n
                                    /\ tiers[j].end = Null \/ n <= tiers[j].end}
PriceOrNone(n) == [j \in DOMAIN tiers |-> IF j \in Holding(n) THEN tiers[j].price ELSE 0]

LEMMA WholeSums ==
    ASSUME tiers \in Seq(Tier), NEW n \in Nat
    PROVE  /\ IsFiniteSet(DOMAIN tiers)
           /\ \A j \in DOMAIN tiers : AmountOrNone(n)[j] \in Int
           /\ \A j \in DOMAIN tiers : PriceOrNone(n)[j] \in Int
           /\ TieredCharge(n) = SumFunctionOnSet(AmountOrNone(n), DOMAIN tiers)
           /\ PriceOfUnit(n) = SumFunctionOnSet(PriceOrNone(n), DOMAIN tiers)
<1>1. IsFiniteSet(DOMAIN tiers)
  <2>1. DOMAIN tiers = 1 .. Len(tiers) /\ Len(tiers) \in Nat
    OBVIOUS
  <2> QED
    BY <2>1, FS_Interval
<1>2. \A j \in DOMAIN tiers : AmountIn(n)[j] \in Int /\ tiers[j].price \in Int
  <2>1. \A j \in DOMAIN tiers : tiers[j].price \in Int
    BY DEF Tier
  <2>2. \A j \in DOMAIN tiers : AmountIn(n)[j] \in Int
    BY TieredChargeType
  <2> QED
    BY <2>1, <2>2
<1>3. \A j \in DOMAIN tiers : AmountOrNone(n)[j] \in Int
  BY <1>2 DEF AmountOrNone
<1>4. \A j \in DOMAIN tiers : PriceOrNone(n)[j] \in Int
  BY <1>2 DEF PriceOrNone
<1>5. TieredCharge(n) = SumFunctionOnSet(AmountOrNone(n), DOMAIN tiers)
  <2>1. Reached(n) \subseteq DOMAIN tiers
    BY DEF Reached
  <2>2. \A j \in Reached(n) : AmountOrNone(n)[j] \in Int /\ AmountOrNone(n)[j] = AmountIn(n)[j]
    BY <1>2 DEF Reached, AmountOrNone
  <2>3. \A j \in DOMAIN tiers \ Reached(n) : AmountOrNone(n)[j] = 0
    BY DEF Reached, AmountOrNone
  <2>4. SumFunctionOnSet(AmountOrNone(n), DOMAIN tiers) =
           SumFunctionOnSet(AmountIn(n), Reached(n))
    BY <2>1, <2>2, <2>3, <1>1, SumMask
  <2> QED
    BY <2>4, TieredChargeType
<1>6. PriceOfUnit(n) = SumFunctionOnSet(PriceOrNone(n), DOMAIN tiers)
  <2> DEFINE price == [j \in DOMAIN tiers |-> tiers[j].price]
  <2>1. Holding(n) \subseteq DOMAIN tiers
    BY DEF Holding
  <2>2. \A j \in Holding(n) : PriceOrNone(n)[j] \in Int /\ PriceOrNone(n)[j] = price[j]
    BY <2>1, <1>2 DEF PriceOrNone
  <2>3. \A j \in DOMAIN tiers \ Holding(n) : PriceOrNone(n)[j] = 0
    BY DEF PriceOrNone
  <2> HIDE DEF price
  <2>4. SumFunctionOnSet(PriceOrNone(n), DOMAIN tiers) = SumFunctionOnSet(price, Holding(n))
    BY <2>1, <2>2, <2>3, <1>1, SumMask
  <2> QED
    BY <2>4 DEF PriceOfUnit, Holding, price
<1> QED
  BY <1>1, <1>3, <1>4, <1>5, <1>6

\* A tier charges for one more unit exactly when the unit falls in it.
LEMMA OneMoreInTier ==
    ASSUME tiers \in Seq(Tier), NEW n \in Nat, NEW j \in DOMAIN tiers
    PROVE  AmountOrNone(n + 1)[j] = AmountOrNone(n)[j] + PriceOrNone(n + 1)[j]
<1> DEFINE t == tiers[j]
<1>1. /\ t.start \in Nat /\ t.price \in Nat
      /\ t.end # Null => t.end \in Nat /\ t.end > t.start
  <2>1. t \in Tier
    OBVIOUS
  <2> QED
    BY <2>1, NullAssumption DEF Tier
<1>2. /\ AmountOrNone(n)[j] = IF n > t.start THEN UnitsInTier(t, n) * t.price ELSE 0
      /\ AmountOrNone(n + 1)[j] = IF n + 1 > t.start
                                  THEN UnitsInTier(t, n + 1) * t.price ELSE 0
      /\ PriceOrNone(n + 1)[j] = IF t.start < n + 1 /\ (t.end = Null \/ n + 1 <= t.end)
                                 THEN t.price ELSE 0
  BY DEF AmountOrNone, AmountIn, PriceOrNone, Holding
<1> HIDE DEF t
<1>3. CASE t.start > n
  <2>1. ~ (n > t.start) /\ ~ (n + 1 > t.start) /\ ~ (t.start < n + 1)
    BY <1>1, <1>3
  <2>2. AmountOrNone(n)[j] = 0 /\ AmountOrNone(n + 1)[j] = 0 /\ PriceOrNone(n + 1)[j] = 0
    BY <1>2, <2>1
  <2> QED
    BY <2>2
<1>4. CASE t.start <= n /\ (t.end = Null \/ n + 1 <= t.end)
  <2> DEFINE d == n - t.start
  <2>1. /\ UnitsInTier(t, n + 1) = d + 1 /\ UnitsInTier(t, n) = d /\ d \in Nat
        /\ ~ (n > t.start) => d = 0
    BY <1>1, <1>4 DEF UnitsInTier, MinOf, UpperEnd
  <2>2. AmountOrNone(n + 1)[j] = (d + 1) * t.price /\ AmountOrNone(n)[j] = d * t.price
    <3>1. 0 * t.price = 0
      BY <1>1
    <3> HIDE DEF d
    <3> QED
      BY <2>1, <3>1, <1>1, <1>2, <1>4
  <2>3. \A x, y \in Nat : (x + 1) * y = x * y + y
    OBVIOUS
  <2>4. PriceOrNone(n + 1)[j] = t.price
    BY <1>1, <1>2, <1>4
  <2> HIDE DEF d
  <2>5. (d + 1) * t.price = d * t.price + t.price
    BY <2>1, <2>3, <1>1
  <2> QED
    BY <2>2, <2>4, <2>5
<1>5. CASE t.start <= n /\ t.end # Null /\ n >= t.end
  <2>1. UnitsInTier(t, n + 1) = UnitsInTier(t, n) /\ UnitsInTier(t, n) \in Int
    BY <1>1, <1>5 DEF UnitsInTier, MinOf, UpperEnd
  <2>2. UnitsInTier(t, n) * t.price \in Int
    BY <2>1, <1>1
  <2> QED
    BY <2>1, <2>2, <1>1, <1>2, <1>5
<1> QED
  BY <1>1, <1>3, <1>4, <1>5

\* One more unit costs the same in the reference and in the tiered charge.
LEMMA NextUnit ==
    ASSUME tiers \in Seq(Tier), NEW n \in Nat
    PROVE  /\ PriceOfUnit(n + 1) \in Int
           /\ TieredCharge(n + 1) = TieredCharge(n) + PriceOfUnit(n + 1)
<1>1. n + 1 \in Nat
  OBVIOUS
<1>2. /\ IsFiniteSet(DOMAIN tiers)
      /\ \A j \in DOMAIN tiers : AmountOrNone(n)[j] \in Int
      /\ \A j \in DOMAIN tiers : PriceOrNone(n + 1)[j] \in Int
      /\ \A j \in DOMAIN tiers :
            AmountOrNone(n + 1)[j] = AmountOrNone(n)[j] + PriceOrNone(n + 1)[j]
  BY <1>1, WholeSums, OneMoreInTier
<1>3. SumFunctionOnSet(AmountOrNone(n + 1), DOMAIN tiers) =
         SumFunctionOnSet(AmountOrNone(n), DOMAIN tiers)
         + SumFunctionOnSet(PriceOrNone(n + 1), DOMAIN tiers)
  BY <1>2, SumPlus
<1>4. SumFunctionOnSet(PriceOrNone(n + 1), DOMAIN tiers) \in Int
  BY <1>2, SumType
<1> QED
  BY <1>1, <1>3, <1>4, WholeSums

\* The tiered charge prices every unit like the reference: by induction over the
\* number of units.
LEMMA TieredIsExact ==
    ASSUME tiers \in Seq(Tier)
    PROVE  \A n \in Nat : CostOfFirst(n) = TieredCharge(n) /\ TieredCharge(n) \in Int
<1> DEFINE price(n) == [k \in 1 .. n |-> PriceOfUnit(k)]
           S == {n \in Nat : CostOfFirst(n) = TieredCharge(n)}
<1>1. \A n \in Nat : TieredCharge(n) \in Int
  BY TieredChargeType
<1>2. \A n \in Nat \ {0} : PriceOfUnit(n) \in Int
  <2> SUFFICES ASSUME NEW n \in Nat \ {0}
               PROVE  PriceOfUnit(n) \in Int
    OBVIOUS
  <2> DEFINE k == n - 1
  <2>1. k \in Nat /\ k + 1 = n
    OBVIOUS
  <2> HIDE DEF k
  <2>2. PriceOfUnit(k + 1) \in Int
    BY <2>1, NextUnit
  <2> QED
    BY <2>1, <2>2
<1>3. 0 \in S
  <2>1. 1 .. 0 = {} /\ CostOfFirst(0) = 0
    <3>1. 1 .. 0 = {}
      OBVIOUS
    <3> QED
      BY <3>1, SumEmpty DEF CostOfFirst
  <2>2. Reached(0) = {}
    <3>1. \A j \in DOMAIN tiers : tiers[j].start \in Nat
      <4>1. \A j \in DOMAIN tiers : tiers[j] \in Tier
        OBVIOUS
      <4> QED
        BY <4>1 DEF Tier
    <3> QED
      BY <3>1 DEF Reached
  <2>3. TieredCharge(0) = 0
    BY <2>2, TieredChargeType, SumEmpty
  <2> QED
    BY <2>1, <2>3
<1>4. ASSUME NEW n \in Nat, n \in S
      PROVE  n + 1 \in S
  <2>1. \A k \in 1 .. n + 1 : price(n + 1)[k] \in Int /\ price(n + 1)[k] = PriceOfUnit(k)
    BY <1>2
  <2>2. \A k \in 1 .. n : price(n + 1)[k] = price(n)[k]
    OBVIOUS
  <2>3. IsFiniteSet(1 .. n) /\ n + 1 \in 1 .. n + 1
    BY FS_Interval
  <2> HIDE DEF price
  <2>4. SumFunctionOnSet(price(n + 1), 1 .. n + 1) =
           SumFunctionOnSet(price(n + 1), 1 .. n) + PriceOfUnit(n + 1)
    BY <2>1, <2>3, SumUpto
  <2>5. SumFunctionOnSet(price(n + 1), 1 .. n) = SumFunctionOnSet(price(n), 1 .. n)
    BY <2>2, <2>3, SumAgrees
  <2>6. CostOfFirst(n + 1) = CostOfFirst(n) + PriceOfUnit(n + 1)
    BY <2>4, <2>5 DEF CostOfFirst, price
  <2>7. TieredCharge(n + 1) = TieredCharge(n) + PriceOfUnit(n + 1)
    BY NextUnit
  <2> QED
    BY <2>6, <2>7, <1>4
<1>5. Nat \subseteq S
  <2> HIDE DEF S
  <2> QED
    BY <1>3, <1>4, NatSetInduction
<1> QED
  BY <1>1, <1>5

\* The inductive invariant: the charges made carry the amounts of their tiers,
\* and the total, once there is one, is the tiered charge of all units.
BillInv ==
    /\ LoopInv
    /\ late \in Nat /\ credit \in Nat
    /\ \A k \in DOMAIN charges : charges[k].amount = AmountIn(units)[k]
    /\ total # Null => total = MaxZero(TieredCharge(units + late) - credit)

\* When the loop has ended its charges add up to the tiered charge of the month.
LEMMA ChargesAddUp ==
    ASSUME BillInv, i = Len(tiers) + 1
    PROVE  AmountCharged = TieredCharge(units)
<1> DEFINE a == [k \in DOMAIN charges |-> charges[k].amount]
           m == Len(charges)
<1>1. /\ tiers \in Seq(Tier) /\ Ascending /\ units \in Nat
      /\ DOMAIN charges = 1 .. m /\ m \in Nat /\ m <= Len(tiers)
      /\ \A k \in 1 .. m : units > tiers[k].start
      /\ m < Len(tiers) => units <= tiers[m + 1].start
      /\ \A k \in 1 .. m : charges[k].amount = AmountIn(units)[k]
  BY DEF BillInv, LoopInv, ChargeOf
<1>2. Len(tiers) \in Nat /\ \A k \in DOMAIN tiers : tiers[k].start \in Nat /\ k \in 1 .. Len(tiers)
  <2>1. \A k \in DOMAIN tiers : tiers[k] \in Tier /\ k \in 1 .. Len(tiers)
    BY <1>1
  <2> QED
    BY <2>1, <1>1 DEF Tier
<1>3. Reached(units) = 1 .. m
  <2>1. ASSUME NEW k \in DOMAIN tiers, k > m
        PROVE  units <= tiers[k].start
    <3>1. m < Len(tiers) /\ m + 1 \in DOMAIN tiers /\ (k = m + 1 \/ m + 1 < k)
      BY <2>1, <1>1, <1>2
    <3>2. k = m + 1 \/ tiers[m + 1].start < tiers[k].start
      BY <3>1, <1>1 DEF Ascending
    <3> QED
      BY <3>1, <3>2, <1>1, <1>2
  <2>2. ASSUME NEW k \in DOMAIN tiers
        PROVE  units > tiers[k].start <=> k \in 1 .. m
    BY <2>1, <1>1, <1>2
  <2>3. 1 .. m \subseteq DOMAIN tiers
    BY <1>1, <1>2
  <2> QED
    BY <2>2, <2>3 DEF Reached
<1>4. \A k \in 1 .. m : a[k] = AmountIn(units)[k]
  BY <1>1
<1>5. IsFiniteSet(1 .. m)
  BY <1>1, FS_Interval
<1> HIDE DEF a, m
<1>6. SumFunctionOnSet(a, 1 .. m) = SumFunctionOnSet(AmountIn(units), 1 .. m)
  BY <1>4, <1>5, SumAgrees
<1>7. TieredCharge(units) = SumFunctionOnSet(AmountIn(units), Reached(units))
  BY <1>1, TieredChargeType
<1>8. AmountCharged = SumFunctionOnSet(a, 1 .. m)
  BY <1>1 DEF AmountCharged, a
<1> QED
  BY <1>3, <1>6, <1>7, <1>8

LEMMA InitBillInv == Init => BillInv
  BY InitLoopInv, BoundsAssumption DEF Init, BillInv

LEMMA ChargeTierBills ==
    ASSUME BillInv, ChargeTier
    PROVE  BillInv'
<1> DEFINE n == UnitsInTier(tiers[i], units)
           c == [tier |-> i, units |-> n, amount |-> n * tiers[i].price]
<1>1. LoopInv'
  BY ChargeTierKeeps DEF BillInv
<1>2. /\ i \in 1 .. Len(tiers) /\ units > tiers[i].start
      /\ UNCHANGED <<tiers, units, late, credit, total>>
      /\ charges \in Seq([tier : Nat, units : Int, amount : Int]) /\ Len(charges) = i - 1
  BY DEF BillInv, LoopInv, ChargeTier
<1>3. n > 0
  <2>1. tiers[i] \in Tier /\ units \in Nat
    BY <1>2 DEF BillInv, LoopInv
  <2> QED
    BY <2>1, <1>2, UnitsPositive
<1>4. charges' = Append(charges, c)
  BY <1>3 DEF ChargeTier
<1>5. /\ DOMAIN charges' = 1 .. i /\ charges'[i] = c
      /\ \A k \in 1 .. i - 1 : charges'[k] = charges[k] /\ k \in DOMAIN charges
  BY <1>2, <1>4
<1>6. AmountIn(units)' = AmountIn(units) /\ TieredCharge(units + late)' = TieredCharge(units + late)
  BY <1>2 DEF AmountIn, TieredCharge, UnitsInTier, MinOf, UpperEnd
<1>7. AmountIn(units)[i] = n * tiers[i].price
  BY <1>2 DEF AmountIn
<1>8. ASSUME NEW k \in DOMAIN charges'
      PROVE  charges'[k].amount = AmountIn(units)[k]
  <2>1. CASE k = i
    BY <2>1, <1>5, <1>7
  <2>2. CASE k # i
    <3>1. k \in 1 .. i - 1
      BY <2>2, <1>2, <1>5
    <3> QED
      BY <3>1, <1>5 DEF BillInv
  <2> QED
    BY <2>1, <2>2
<1> QED
  BY <1>1, <1>2, <1>6, <1>8 DEF BillInv, MaxZero

LEMMA StopAtTierBills ==
    ASSUME BillInv, StopAtTier
    PROVE  BillInv'
<1>1. LoopInv'
  BY StopAtTierKeeps DEF BillInv
<1>2. UNCHANGED <<tiers, units, late, credit, charges, total>>
  BY DEF StopAtTier
<1> QED
  BY <1>1, <1>2 DEF BillInv, AmountIn, TieredCharge, UnitsInTier, MinOf,
                    UpperEnd, MaxZero

LEMMA RollUpBills ==
    ASSUME BillInv, RollUp
    PROVE  BillInv'
<1>1. UNCHANGED <<tiers, units, late, credit, i, charges>>
  BY DEF RollUp
<1>2. LoopInv'
  BY <1>1, LoopInvFrame DEF BillInv
<1>3. AmountCharged = TieredCharge(units)
  BY ChargesAddUp DEF RollUp
<1>4. TieredCharge(units) \in Int /\ TieredCharge(units + late) \in Int
  BY TieredChargeType DEF BillInv, LoopInv
<1>5. AmountCharged + Adjustment - credit = TieredCharge(units + late) - credit
  BY <1>3, <1>4 DEF Adjustment, BillInv
<1>6. total' = MaxZero(TieredCharge(units + late) - credit)
  BY <1>5 DEF RollUp
<1> QED
  BY <1>1, <1>2, <1>6 DEF BillInv, AmountIn, TieredCharge, UnitsInTier, MinOf,
                          UpperEnd, MaxZero

LEMMA NextBillInv == BillInv /\ [Next]_vars => BillInv'
<1> SUFFICES ASSUME BillInv, [Next]_vars
             PROVE  BillInv'
  OBVIOUS
<1>1. CASE UNCHANGED vars
  <2>1. LoopInv'
    BY <1>1, LoopInvFrame DEF vars, BillInv
  <2> QED
    BY <1>1, <2>1 DEF vars, BillInv, AmountIn, TieredCharge, UnitsInTier, MinOf,
                      UpperEnd, MaxZero
<1> QED
  BY <1>1, ChargeTierBills, StopAtTierBills, RollUpBills DEF Next

LEMMA BillInvExact == BillInv => BillIsExact
<1> SUFFICES ASSUME BillInv, total # Null
             PROVE  total = MaxZero(CostOfFirst(units + late) - credit)
  BY DEF BillIsExact
<1>1. tiers \in Seq(Tier) /\ units + late \in Nat
  BY DEF BillInv, LoopInv
<1>2. CostOfFirst(units + late) = TieredCharge(units + late)
  BY <1>1, TieredIsExact
<1> QED
  BY <1>2 DEF BillInv

\* For every plan, whatever the usage, the late units and the credits: the invoice
\* charges each unit of the month at the price of its tier and the late units as
\* the ones that follow, less the credits, and never below zero.
THEOREM BillsAreExact == Spec => []BillIsExact
<1> QED
  BY InitBillInv, NextBillInv, BillInvExact, PTL DEF Spec
=============================================================================
