---------------------------- MODULE EngineLemmas ----------------------------
(***************************************************************************)
(* Facts about natural numbers and sequences that the proofs about the     *)
(* engine share.  The library's induction theorems are not usable here, so *)
(* induction is replaced by a least counterexample (LeastNat).             *)
(***************************************************************************)
EXTENDS Integers, Sequences, TLAPS, WellFoundedInduction

(* A non-empty set of natural numbers has a least element. *)
LEMMA LeastNat ==
  ASSUME NEW T \in SUBSET Nat, T # {}
  PROVE  \E x \in T : \A y \in T : x <= y
<1> DEFINE R == OpToRel(<, Nat)
<1>1. \A x, y \in Nat : x < y => <<x, y>> \in R
  BY DEF OpToRel
<1>2. IsWellFoundedOn(R, Nat)
  BY NatLessThanWellFounded
<1> HIDE DEF R
<1>3. PICK x \in T : \A y \in T : ~(<<y, x>> \in R)
  BY <1>2, WFMin, Zenon
<1>4. ASSUME NEW y \in T
      PROVE  x <= y
  <2>1. x \in Nat /\ y \in Nat
    OBVIOUS
  <2>2. ~(y < x)
    BY <1>1, <1>3, <2>1
  <2> QED
    BY <2>1, <2>2
<1> QED
  BY <1>4

(* A family of natural numbers with finitely many members has a largest one. *)
LEMMA LargestOf ==
  ASSUME NEW N \in Nat, NEW f \in [1 .. N -> Nat], NEW S \in SUBSET (1 .. N), S # {}
  PROVE  \E x \in S : \A y \in S : f[y] <= f[x]
<1> DEFINE Upto(k) == {y \in S : y <= k}
           HasMax(k) == \E x \in Upto(k) : \A y \in Upto(k) : f[y] <= f[x]
           Bad == {k \in Nat : k <= N /\ Upto(k) # {} /\ ~HasMax(k)}
<1>1. Bad = {}
  <2> SUFFICES ASSUME Bad # {} PROVE FALSE
    OBVIOUS
  <2>1. PICK k \in Bad : \A l \in Bad : k <= l
    <3>1. Bad \in SUBSET Nat
      OBVIOUS
    <3> HIDE DEF Bad
    <3> QED
      BY <3>1, LeastNat
  <2>2. k \in Nat /\ k <= N /\ Upto(k) # {} /\ ~HasMax(k) /\ k # 0
    <3>1. k \in Nat /\ k <= N /\ Upto(k) # {} /\ ~HasMax(k)
      BY <2>1
    <3>2. PICK y \in Upto(k) : TRUE
      BY <3>1
    <3>3. y \in 1 .. N /\ y <= k
      BY <3>2
    <3>4. k # 0
      BY <3>1, <3>3
    <3> QED
      BY <3>1, <3>4
  <2>3. k - 1 \in Nat /\ k - 1 <= N /\ k - 1 \notin Bad
    <3> HIDE DEF Bad
    <3> QED
      BY <2>1, <2>2
  <2>4. Upto(k - 1) = {} \/ HasMax(k - 1)
    BY <2>3
  <2>5. \A y \in Upto(k) : y \in Upto(k - 1) \/ y = k
    BY <2>2
  <2>6. \A y \in Upto(k - 1) : y \in Upto(k)
    BY <2>2
  <2>7. \A y \in Upto(k) : f[y] \in Nat
    OBVIOUS
  <2>8. CASE Upto(k - 1) = {}
    <3>1. \A y \in Upto(k) : y = k
      BY <2>5, <2>8
    <3>2. k \in Upto(k)
      BY <2>2, <3>1
    <3> QED
      BY <2>2, <2>7, <3>1, <3>2
  <2>9. CASE HasMax(k - 1)
    <3>1. PICK x \in Upto(k - 1) : \A y \in Upto(k - 1) : f[y] <= f[x]
      BY <2>9
    <3>2. CASE k \in Upto(k) /\ f[x] <= f[k]
      <4>1. ASSUME NEW y \in Upto(k)
            PROVE  f[y] <= f[k]
        <5>1. f[y] \in Nat /\ f[x] \in Nat /\ f[k] \in Nat
          BY <2>6, <2>7, <3>2
        <5>2. f[y] <= f[x] \/ y = k
          BY <2>5, <3>1
        <5>3. f[x] <= f[k]
          BY <3>2
        <5> HIDE DEF Upto, HasMax, Bad
        <5>4. f[y] <= f[x] => f[y] <= f[k]
          BY <5>1, <5>3
        <5>5. y = k => f[y] <= f[k]
          BY <5>1
        <5> QED
          BY <5>2, <5>4, <5>5
      <4> QED
        BY <2>2, <3>2, <4>1, Zenon
    <3>3. CASE ~(k \in Upto(k) /\ f[x] <= f[k])
      <4>1. \A y \in Upto(k) : f[y] <= f[x]
        BY <2>5, <2>6, <2>7, <3>1, <3>3
      <4> QED
        BY <2>2, <2>6, <3>1, <4>1
    <3> QED
      BY <3>2, <3>3
  <2> QED
    BY <2>4, <2>8, <2>9
<1>2. Upto(N) = S
  <2>1. \A y \in S : y <= N
    OBVIOUS
  <2> QED
    BY <2>1
<1>3. HasMax(N)
  <2>1. N \notin Bad
    BY <1>1
  <2> QED
    BY <1>2, <2>1
<1> QED
  BY <1>2, <1>3
=============================================================================
