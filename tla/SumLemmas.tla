------------------------------ MODULE SumLemmas ------------------------------
(* Sums over finite sets, SumFunctionOnSet of the community modules: its    *)
(* type, that a term can be taken out, and that it depends on the terms     *)
(* only.  Induction is by minimal counterexample in a set, which is first   *)
(* order: the well-founded sets of the library need no operator parameter.  *)
EXTENDS Integers, FiniteSets, Functions, Folds, FiniteSetTheorems,
        WellFoundedInduction, TLAPS

-----------------------------------------------------------------------------
(* Induction                                                               *)

\* A nonempty set of naturals has a least element.
LEMMA NatMin ==
    ASSUME NEW T, T \subseteq Nat, T # {}
    PROVE  \E x \in T : \A y \in T : x <= y
<1> DEFINE R == OpToRel(<, Nat)
<1>1. IsWellFoundedOn(R, Nat)
  BY NatLessThanWellFounded
<1>2. \A a, b \in Nat : a < b => <<a, b>> \in R
  BY DEF OpToRel
<1> HIDE DEF R
<1>3. PICK x \in T : \A y \in T : ~ (<<y, x>> \in R)
  BY <1>1, WFMin
<1>4. ASSUME NEW y \in T
      PROVE  x <= y
  <2>1. x \in Nat /\ y \in Nat /\ ~ (y < x)
    BY <1>2, <1>3
  <2> QED
    BY <2>1
<1> QED
  BY <1>4

\* Induction over the naturals, about the set of the numbers with a property.
LEMMA NatSetInduction ==
    ASSUME NEW S, 0 \in S, \A n \in Nat : n \in S => n + 1 \in S
    PROVE  Nat \subseteq S
<1> DEFINE T == Nat \ S
<1> SUFFICES ASSUME T # {}
             PROVE  FALSE
  OBVIOUS
<1>1. T \subseteq Nat
  OBVIOUS
<1> HIDE DEF T
<1>2. PICK x \in T : \A y \in T : x <= y
  BY <1>1, NatMin
<1>3. x \in Nat /\ x # 0 /\ x - 1 \in Nat
  BY <1>1, <1>2 DEF T
<1>4. x - 1 \notin T
  BY <1>2, <1>3
<1> QED
  BY <1>2, <1>3, <1>4 DEF T

\* Induction over the subsets of a finite set: a set of sets that has each set
\* whose every one-smaller subset it has, has all of them.
LEMMA SubsetInduction ==
    ASSUME NEW S, IsFiniteSet(S), NEW P,
           \A s \in SUBSET S : (\A x \in s : s \ {x} \in P) => s \in P
    PROVE  SUBSET S \subseteq P
<1> DEFINE Q == {n \in Nat : \A s \in SUBSET S : Cardinality(s) <= n => s \in P}
<1>1. \A s \in SUBSET S : /\ IsFiniteSet(s) /\ Cardinality(s) \in Nat
                          /\ Cardinality(s) = 0 <=> s = {}
  BY FS_Subset, FS_CardinalityType, FS_EmptySet
<1>2. 0 \in Q
  BY <1>1
<1>3. ASSUME NEW n \in Nat, n \in Q
      PROVE  n + 1 \in Q
  <2> SUFFICES ASSUME NEW s \in SUBSET S, Cardinality(s) <= n + 1
               PROVE  s \in P
    OBVIOUS
  <2>1. ASSUME NEW x \in s
        PROVE  s \ {x} \in P
    <3>1. s \ {x} \in SUBSET S /\ Cardinality(s \ {x}) = Cardinality(s) - 1
      BY <1>1, FS_RemoveElement
    <3>2. Cardinality(s \ {x}) <= n
      BY <3>1, <1>1
    <3> QED
      BY <3>1, <3>2, <1>3
  <2> QED
    BY <2>1
<1>4. Nat \subseteq Q
  <2> HIDE DEF Q
  <2> QED
    BY <1>2, <1>3, NatSetInduction
<1> QED
  BY <1>1, <1>4

-----------------------------------------------------------------------------
(* The recursion behind SumFunctionOnSet                                   *)

Chosen(s) == CHOOSE x \in s : TRUE
SumStep(f, T, g) ==
    [s \in SUBSET T |-> IF s = {} THEN 0 ELSE f[Chosen(s)] + g[s \ {Chosen(s)}]]
SumBy(f, T) == CHOOSE g : g = SumStep(f, T, g)

LEMMA ChosenIn ==
    ASSUME NEW s, s # {}
    PROVE  Chosen(s) \in s
  BY DEF Chosen

\* SumFunctionOnSet is the function so defined, at its whole argument.
LEMMA SumUnfold ==
    ASSUME NEW f, NEW T
    PROVE  SumFunctionOnSet(f, T) = SumBy(f, T)[T]
  BY DEF SumFunctionOnSet, FoldFunctionOnSet, MapThenFoldSet, SumBy, SumStep, Chosen

\* On a finite set the recursion has a solution: by induction on the size of the
\* subsets for which there is one.
LEMMA SumSolution ==
    ASSUME NEW f, NEW T, IsFiniteSet(T)
    PROVE  \E g : g = SumStep(f, T, g)
<1> DEFINE Upto(n) == {s \in SUBSET T : Cardinality(s) <= n}
           Solves(g, n) == \A s \in Upto(n) :
                              g[s] = IF s = {} THEN 0 ELSE f[Chosen(s)] + g[s \ {Chosen(s)}]
           P == {n \in Nat : \E g : Solves(g, n)}
<1>1. 0 \in P
  <2>1. \A s \in Upto(0) : s = {}
    BY FS_Subset, FS_EmptySet, FS_CardinalityType
  <2>2. Solves([s \in SUBSET T |-> 0], 0)
    BY <2>1
  <2> QED
    BY <2>2
<1>2. ASSUME NEW n \in Nat, n \in P
      PROVE  n + 1 \in P
  <2>1. PICK g : Solves(g, n)
    BY <1>2
  <2> DEFINE h == [s \in SUBSET T |-> IF s = {} THEN 0
                                      ELSE IF Cardinality(s) <= n THEN g[s]
                                      ELSE f[Chosen(s)] + g[s \ {Chosen(s)}]]
  <2>2. ASSUME NEW s \in Upto(n + 1)
        PROVE  h[s] = IF s = {} THEN 0 ELSE f[Chosen(s)] + h[s \ {Chosen(s)}]
    <3>1. CASE s = {}
      BY <3>1
    <3>2. CASE s # {}
      <4> DEFINE t == s \ {Chosen(s)}
      <4>1. Chosen(s) \in s /\ IsFiniteSet(s) /\ s \in SUBSET T /\ t \in SUBSET T /\ t # s
        BY <3>2, ChosenIn, FS_Subset
      <4>2. /\ Cardinality(t) = Cardinality(s) - 1
            /\ Cardinality(t) \in Nat /\ Cardinality(s) \in Nat
        BY <4>1, FS_RemoveElement, FS_CardinalityType
      <4>3. t \in Upto(n)
        BY <4>1, <4>2
      <4> HIDE DEF t
      <4>4. h[t] = g[t]
        <5>1. t = {} => g[t] = 0
          BY <2>1, <4>3
        <5>2. h[t] = IF t = {} THEN 0 ELSE IF Cardinality(t) <= n THEN g[t]
                     ELSE f[Chosen(t)] + g[t \ {Chosen(t)}]
          BY <4>1
        <5> QED
          BY <5>1, <5>2, <4>3
      <4>5. h[s] = IF Cardinality(s) <= n THEN g[s] ELSE f[Chosen(s)] + g[t]
        BY <3>2 DEF t
      <4>6. Cardinality(s) <= n => g[s] = f[Chosen(s)] + g[t]
        BY <2>1, <3>2 DEF t
      <4> QED
        BY <3>2, <4>4, <4>5, <4>6 DEF t
    <3> QED
      BY <3>1, <3>2
  <2>3. Solves(h, n + 1)
    BY <2>2
  <2> HIDE DEF h
  <2>4. \E k : Solves(k, n + 1)
    BY <2>3
  <2> HIDE DEF Solves
  <2> QED
    BY <2>4
<1>3. Nat \subseteq P
  <2> HIDE DEF P
  <2> QED
    BY <1>1, <1>2, NatSetInduction
<1>4. PICK g : Solves(g, Cardinality(T))
  BY <1>3, FS_CardinalityType
<1>5. Upto(Cardinality(T)) = SUBSET T
  BY FS_Subset, FS_CardinalityType
<1> DEFINE h == [s \in SUBSET T |-> g[s]]
<1>6. h = SumStep(f, T, h)
  <2>1. \A s \in SUBSET T : h[s] = SumStep(f, T, h)[s]
    BY <1>4, <1>5 DEF SumStep
  <2> QED
    BY <2>1 DEF SumStep
<1> QED
  BY <1>6

LEMMA SumByStep ==
    ASSUME NEW f, NEW T, IsFiniteSet(T), NEW s, s \subseteq T
    PROVE  /\ s = {} => SumBy(f, T)[s] = 0
           /\ s # {} => SumBy(f, T)[s] = f[Chosen(s)] + SumBy(f, T)[s \ {Chosen(s)}]
<1>1. SumBy(f, T) = SumStep(f, T, SumBy(f, T))
  BY SumSolution DEF SumBy
<1> QED
  BY <1>1 DEF SumStep

\* Two solutions agree where both are defined.
LEMMA SumByAgrees ==
    ASSUME NEW f, NEW T, IsFiniteSet(T), NEW g, NEW U, IsFiniteSet(U), U \subseteq T,
           \A x \in U : f[x] = g[x]
    PROVE  SumBy(f, T)[U] = SumBy(g, U)[U]
<1> DEFINE P == {s \in SUBSET U : SumBy(f, T)[s] = SumBy(g, U)[s]}
<1>1. ASSUME NEW s \in SUBSET U, \A x \in s : s \ {x} \in P
      PROVE  s \in P
  <2>1. s \subseteq T /\ s \subseteq U
    OBVIOUS
  <2>2. /\ s = {} => SumBy(f, T)[s] = 0
        /\ s # {} => SumBy(f, T)[s] = f[Chosen(s)] + SumBy(f, T)[s \ {Chosen(s)}]
        /\ s = {} => SumBy(g, U)[s] = 0
        /\ s # {} => SumBy(g, U)[s] = g[Chosen(s)] + SumBy(g, U)[s \ {Chosen(s)}]
    BY <2>1, SumByStep
  <2>3. CASE s = {}
    BY <2>2, <2>3
  <2>4. CASE s # {}
    <3>1. Chosen(s) \in s
      BY <2>4, ChosenIn
    <3> QED
      BY <2>2, <2>4, <3>1, <1>1
  <2> QED
    BY <2>3, <2>4
<1>2. SUBSET U \subseteq P
  <2> HIDE DEF P
  <2> QED
    BY <1>1, SubsetInduction
<1> QED
  BY <1>2

-----------------------------------------------------------------------------
(* What the other modules use                                              *)

\* A sum depends on its terms only.
LEMMA SumAgrees ==
    ASSUME NEW f, NEW g, NEW S, IsFiniteSet(S), \A x \in S : f[x] = g[x]
    PROVE  SumFunctionOnSet(f, S) = SumFunctionOnSet(g, S)
  BY SumUnfold, SumByAgrees

\* A sum is its first term and the sum of the others.
LEMMA SumFirst ==
    ASSUME NEW f, NEW S, IsFiniteSet(S)
    PROVE  SumFunctionOnSet(f, S) =
              IF S = {} THEN 0
              ELSE f[Chosen(S)] + SumFunctionOnSet(f, S \ {Chosen(S)})
<1> DEFINE R == S \ {Chosen(S)}
<1>1. IsFiniteSet(R) /\ R \subseteq S
  BY FS_Subset
<1>2. /\ S = {} => SumBy(f, S)[S] = 0
      /\ S # {} => SumBy(f, S)[S] = f[Chosen(S)] + SumBy(f, S)[R]
  BY SumByStep
<1> HIDE DEF R
<1>3. SumBy(f, S)[R] = SumBy(f, R)[R]
  BY <1>1, SumByAgrees
<1>4. SumFunctionOnSet(f, S) = SumBy(f, S)[S] /\ SumFunctionOnSet(f, R) = SumBy(f, R)[R]
  BY SumUnfold
<1> QED
  BY <1>2, <1>3, <1>4 DEF R

\* A sum of integers is an integer.
LEMMA SumType ==
    ASSUME NEW f, NEW S, IsFiniteSet(S), \A x \in S : f[x] \in Int
    PROVE  SumFunctionOnSet(f, S) \in Int
<1> DEFINE P == {s \in SUBSET S : SumFunctionOnSet(f, s) \in Int}
<1>1. ASSUME NEW s \in SUBSET S, \A x \in s : s \ {x} \in P
      PROVE  s \in P
  <2>1. SumFunctionOnSet(f, s) = IF s = {} THEN 0
                                 ELSE f[Chosen(s)] + SumFunctionOnSet(f, s \ {Chosen(s)})
    BY FS_Subset, SumFirst
  <2>2. CASE s = {}
    BY <2>1, <2>2
  <2>3. CASE s # {}
    <3>1. Chosen(s) \in s
      BY <2>3, ChosenIn
    <3>2. SumFunctionOnSet(f, s \ {Chosen(s)}) \in Int
      BY <3>1, <1>1
    <3> QED
      BY <2>1, <2>3, <3>1, <3>2
  <2> QED
    BY <2>2, <2>3
<1>2. SUBSET S \subseteq P
  <2> HIDE DEF P
  <2> QED
    BY <1>1, SubsetInduction
<1> QED
  BY <1>2

\* Any term can be taken out of a sum: the order of the fold does not matter.
LEMMA SumRemove ==
    ASSUME NEW f, NEW S, IsFiniteSet(S), \A x \in S : f[x] \in Int, NEW z \in S
    PROVE  SumFunctionOnSet(f, S) = f[z] + SumFunctionOnSet(f, S \ {z})
<1> DEFINE P == {s \in SUBSET S : \A y \in s :
                    SumFunctionOnSet(f, s) = f[y] + SumFunctionOnSet(f, s \ {y})}
<1>1. ASSUME NEW s \in SUBSET S, \A y \in s : s \ {y} \in P, NEW y \in s
      PROVE  SumFunctionOnSet(f, s) = f[y] + SumFunctionOnSet(f, s \ {y})
  <2> DEFINE c == Chosen(s)
  <2>1. c \in s
    BY ChosenIn
  <2>2. IsFiniteSet(s)
    BY FS_Subset
  <2>3. SumFunctionOnSet(f, s) = f[c] + SumFunctionOnSet(f, s \ {c})
    BY <2>2, SumFirst
  <2> HIDE DEF c
  <2>4. CASE y = c
    BY <2>3, <2>4
  <2>5. CASE y # c
    <3> DEFINE r == s \ {c, y}
    <3>1. (s \ {c}) \ {y} = r /\ (s \ {y}) \ {c} = r
      OBVIOUS
    <3> HIDE DEF r
    <3>2. SumFunctionOnSet(f, s \ {c}) = f[y] + SumFunctionOnSet(f, r)
      BY <1>1, <2>1, <2>5, <3>1
    <3>3. SumFunctionOnSet(f, s \ {y}) = f[c] + SumFunctionOnSet(f, r)
      BY <1>1, <2>1, <2>5, <3>1
    <3>4. SumFunctionOnSet(f, r) \in Int
      <4>1. r \subseteq s /\ IsFiniteSet(r)
        BY <2>2, FS_Subset DEF r
      <4> QED
        BY <4>1, SumType
    <3>5. f[y] \in Int /\ f[c] \in Int
      BY <2>1
    <3> QED
      BY <2>3, <3>2, <3>3, <3>4, <3>5
  <2> QED
    BY <2>4, <2>5
<1>2. \A s \in SUBSET S : (\A y \in s : s \ {y} \in P) => s \in P
  BY <1>1
<1>3. SUBSET S \subseteq P
  <2> HIDE DEF P
  <2> QED
    BY <1>2, SubsetInduction
<1> QED
  BY <1>3

LEMMA SumEmpty ==
    ASSUME NEW f
    PROVE  SumFunctionOnSet(f, {}) = 0
  BY FS_EmptySet, SumFirst

\* Terms that are zero may be left out.
LEMMA SumMask ==
    ASSUME NEW f, NEW g, NEW S, IsFiniteSet(S), NEW U, U \subseteq S,
           \A x \in U : g[x] \in Int /\ g[x] = f[x],
           \A x \in S \ U : g[x] = 0
    PROVE  SumFunctionOnSet(g, S) = SumFunctionOnSet(f, U)
<1> DEFINE P == {s \in SUBSET S :
                    SumFunctionOnSet(g, s) = SumFunctionOnSet(f, s \cap U)}
<1>1. ASSUME NEW s \in SUBSET S, \A y \in s : s \ {y} \in P
      PROVE  s \in P
  <2>1. CASE s = {}
    <3>1. s \cap U = {}
      BY <2>1
    <3> QED
      BY <2>1, <3>1, SumEmpty
  <2>2. CASE s # {}
    <3>1. PICK y \in s : TRUE
      BY <2>2
    <3>2. IsFiniteSet(s) /\ IsFiniteSet(s \cap U) /\ \A x \in s : g[x] \in Int
      BY FS_Subset
    <3>3. SumFunctionOnSet(g, s) = g[y] + SumFunctionOnSet(g, s \ {y})
      BY <3>2, SumRemove
    <3>4. SumFunctionOnSet(g, s \ {y}) = SumFunctionOnSet(f, (s \ {y}) \cap U)
      BY <1>1, <3>1
    <3>5. CASE y \in U
      <4>1. (s \cap U) \ {y} = (s \ {y}) \cap U /\ y \in s \cap U
        BY <3>1, <3>5
      <4>2. \A x \in s \cap U : f[x] \in Int
        OBVIOUS
      <4>3. SumFunctionOnSet(f, s \cap U) = f[y] + SumFunctionOnSet(f, (s \cap U) \ {y})
        BY <3>2, <4>1, <4>2, SumRemove
      <4> QED
        BY <3>3, <3>4, <3>5, <4>1, <4>3
    <3>6. CASE y \notin U
      <4>1. (s \ {y}) \cap U = s \cap U /\ g[y] = 0
        BY <3>1, <3>6
      <4>2. SumFunctionOnSet(f, s \cap U) \in Int
        <5>1. \A x \in s \cap U : f[x] \in Int
          OBVIOUS
        <5> QED
          BY <3>2, <5>1, SumType
      <4> QED
        BY <3>3, <3>4, <4>1, <4>2
    <3> QED
      BY <3>5, <3>6
  <2> QED
    BY <2>1, <2>2
<1>2. SUBSET S \subseteq P
  <2> HIDE DEF P
  <2> QED
    BY <1>1, SubsetInduction
<1>3. SumFunctionOnSet(g, S) = SumFunctionOnSet(f, S \cap U) /\ S \cap U = U
  BY <1>2
<1> QED
  BY <1>3

\* The sum of two functions, term by term.
LEMMA SumPlus ==
    ASSUME NEW f, NEW g, NEW h, NEW S, IsFiniteSet(S),
           \A x \in S : f[x] \in Int /\ g[x] \in Int /\ h[x] = f[x] + g[x]
    PROVE  SumFunctionOnSet(h, S) = SumFunctionOnSet(f, S) + SumFunctionOnSet(g, S)
<1> DEFINE P == {s \in SUBSET S : SumFunctionOnSet(h, s) =
                    SumFunctionOnSet(f, s) + SumFunctionOnSet(g, s)}
<1>1. ASSUME NEW s \in SUBSET S, \A y \in s : s \ {y} \in P
      PROVE  s \in P
  <2>1. CASE s = {}
    BY <2>1, SumEmpty
  <2>2. CASE s # {}
    <3>1. PICK y \in s : TRUE
      BY <2>2
    <3> DEFINE r == s \ {y}
    <3>2. /\ IsFiniteSet(s) /\ IsFiniteSet(r)
          /\ \A x \in s : f[x] \in Int
          /\ \A x \in s : g[x] \in Int
          /\ \A x \in s : h[x] \in Int
          /\ h[y] = f[y] + g[y]
      BY <3>1, FS_Subset
    <3>3. /\ SumFunctionOnSet(f, s) = f[y] + SumFunctionOnSet(f, r)
          /\ SumFunctionOnSet(g, s) = g[y] + SumFunctionOnSet(g, r)
          /\ SumFunctionOnSet(h, s) = h[y] + SumFunctionOnSet(h, r)
      BY <3>1, <3>2, SumRemove
    <3>4. SumFunctionOnSet(f, r) \in Int /\ SumFunctionOnSet(g, r) \in Int
      BY <3>2, SumType
    <3>5. SumFunctionOnSet(h, r) = SumFunctionOnSet(f, r) + SumFunctionOnSet(g, r)
      BY <1>1, <3>1
    <3> QED
      BY <3>2, <3>3, <3>4, <3>5
  <2> QED
    BY <2>1, <2>2
<1>2. SUBSET S \subseteq P
  <2> HIDE DEF P
  <2> QED
    BY <1>1, SubsetInduction
<1> QED
  BY <1>2

\* A sum over 1 .. n + 1 ends with its last term.
LEMMA SumUpto ==
    ASSUME NEW f, NEW n \in Nat, \A k \in 1 .. n + 1 : f[k] \in Int
    PROVE  SumFunctionOnSet(f, 1 .. n + 1) = SumFunctionOnSet(f, 1 .. n) + f[n + 1]
<1>1. IsFiniteSet(1 .. n + 1) /\ IsFiniteSet(1 .. n)
  BY FS_Interval
<1>2. (1 .. n + 1) \ {n + 1} = 1 .. n /\ n + 1 \in 1 .. n + 1
  OBVIOUS
<1>3. SumFunctionOnSet(f, 1 .. n + 1) = f[n + 1] + SumFunctionOnSet(f, 1 .. n)
  BY <1>1, <1>2, SumRemove
<1>4. SumFunctionOnSet(f, 1 .. n) \in Int
  BY <1>1, SumType
<1> QED
  BY <1>3, <1>4
=============================================================================
