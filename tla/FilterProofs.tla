---------------------------- MODULE FilterProofs -----------------------------
(***************************************************************************)
(* Lemmas about Filters, for lists of any length.                          *)
(***************************************************************************)
EXTENDS Filters, FiniteSetTheorems, SequenceTheorems, TLAPS

(* A set of naturals has a least element. *)
LEMMA Least ==
  ASSUME NEW S \in SUBSET Nat, S # {}
  PROVE  \E i \in S : \A j \in S : i <= j
<1> DEFINE T == {0 .. i : i \in S}
<1>1. T \subseteq FiniteSubsetsOf(Nat) /\ T # {}
  <2>1. \A i \in S : 0 .. i \subseteq Nat /\ IsFiniteSet(0 .. i)
    BY FS_Interval
  <2> QED BY <2>1 DEF FiniteSubsetsOf
<1>2. PICK x \in T : \A y \in T : <<y, x>> \notin StrictSubsetOrdering(Nat)
  BY <1>1, FS_StrictSubsetOrderingWellFounded, WFMin
<1>3. PICK i \in S : x = 0 .. i
  OBVIOUS
<1>4. ASSUME NEW j \in S PROVE i <= j
  <2>1. ~(0 .. j \subseteq 0 .. i /\ 0 .. j # 0 .. i)
    <3>1. <<0 .. j, 0 .. i>> \notin StrictSubsetOrdering(Nat)
      BY <1>2, <1>3
    <3>2. <<0 .. j, 0 .. i>> \in (SUBSET Nat) \X (SUBSET Nat)
      OBVIOUS
    <3> QED BY <3>1, <3>2 DEF StrictSubsetOrdering
  <2>2. i \in Nat /\ j \in Nat /\ i \in 0 .. i
    OBVIOUS
  <2>3. CASE j < i
    <3>1. 0 .. j \subseteq 0 .. i /\ i \notin 0 .. j
      BY <2>2, <2>3
    <3> QED BY <2>1, <2>2, <3>1
  <2> QED BY <2>2, <2>3
<1> QED BY <1>4

(* Ascending enumerates every finite set of places from the first to the   *)
(* last, and leaves none out.                                              *)
LEMMA AscendingIs ==
  ASSUME NEW S \in SUBSET Nat, IsFiniteSet(S)
  PROVE  /\ Cardinality(S) \in Nat
         /\ Ascending(S) \in [1 .. Cardinality(S) -> S]
         /\ \A j, k \in 1 .. Cardinality(S) : j < k => Ascending(S)[j] < Ascending(S)[k]
         /\ \A i \in S : \E k \in 1 .. Cardinality(S) : Ascending(S)[k] = i
<1> DEFINE Upto(i) == {j \in S : j <= i}
           n == Cardinality(S)
           r == [i \in S |-> Cardinality(Upto(i))]
<1>1. n \in Nat
  BY FS_CardinalityType
<1>2. \A i \in S : Upto(i) \in SUBSET S /\ IsFiniteSet(Upto(i)) /\ i \in Upto(i)
  BY FS_Subset
<1>3. \A i \in S : Cardinality(Upto(i)) \in Nat
  BY <1>2, FS_CardinalityType
<1>4. \A i \in S : Cardinality(Upto(i)) \in 1 .. n
  <2> TAKE i \in S
  <2>1. Cardinality(Upto(i)) <= n
    BY <1>2, FS_Subset
  <2>2. Cardinality(Upto(i)) # 0
    BY <1>2, FS_EmptySet
  <2> QED BY <1>1, <1>3, <2>1, <2>2
<1>5. ASSUME NEW i \in S, NEW k \in S, i < k
      PROVE  Cardinality(Upto(i)) < Cardinality(Upto(k))
  <2>1. Upto(i) \in SUBSET Upto(k)
    <3>1. ASSUME NEW j \in S, j <= i PROVE j <= k
      <4>1. i \in Nat /\ j \in Nat /\ k \in Nat
        OBVIOUS
      <4> QED BY <1>5, <3>1, <4>1
    <3> QED BY <3>1
  <2>2. k \notin Upto(i) /\ k \in Upto(k)
    BY <1>5
  <2>3. /\ Cardinality(Upto(i)) <= Cardinality(Upto(k))
        /\ Cardinality(Upto(i)) # Cardinality(Upto(k))
    <3> HIDE DEF Upto
    <3>1. IsFiniteSet(Upto(k))
      BY <1>2
    <3>2. /\ Cardinality(Upto(i)) <= Cardinality(Upto(k))
          /\ Cardinality(Upto(k)) = Cardinality(Upto(i)) => Upto(k) = Upto(i)
      BY <2>1, <3>1, FS_Subset
    <3> QED BY <2>2, <3>2
  <2> QED BY <1>3, <2>3
<1> HIDE DEF Upto
<1>6. r \in [S -> 1 .. n]
  BY <1>4
<1>7. \A i, k \in S : i < k => r[i] < r[k]
  BY <1>5
<1> HIDE DEF r, n
<1>8. r \in Injection(S, 1 .. n)
  <2>1. ASSUME NEW a \in S, NEW b \in S, r[a] = r[b] PROVE a = b
    <3>1. a \in Nat /\ b \in Nat /\ r[a] \in Nat /\ r[b] \in Nat
      BY <1>6
    <3>2. ~(a < b) /\ ~(b < a)
      BY <1>7, <2>1, <3>1
    <3> QED BY <3>1, <3>2
  <2> QED BY <1>6, <2>1 DEF Injection, IsInjective
<1>9. r \in Surjection(S, 1 .. n)
  <2>1. IsFiniteSet(1 .. n) /\ Cardinality(1 .. n) = n
    BY <1>1, FS_Interval
  <2> QED BY <1>8, <2>1, FS_Injection DEF n
<1>10. \A k \in 1 .. n : \E i \in S : r[i] = k
  BY <1>9 DEF Surjection
<1> DEFINE f == Ascending(S)
<1>11. f = [k \in 1 .. n |-> CHOOSE i \in S : r[i] = k]
  <2>1. \A i \in S : r[i] = Cardinality({j \in S : j <= i})
    BY DEF r, Upto
  <2>2. \A k \in 1 .. n : (CHOOSE i \in S : r[i] = k)
                           = (CHOOSE i \in S : Cardinality({j \in S : j <= i}) = k)
    BY <2>1
  <2> QED BY <2>2 DEF Ascending, n
<1>12. \A k \in 1 .. n : f[k] \in S /\ r[f[k]] = k
  BY <1>10, <1>11
<1>13. f \in [1 .. n -> S]
  BY <1>11, <1>12
<1> HIDE DEF f
<1>14. ASSUME NEW j \in 1 .. n, NEW k \in 1 .. n, j < k PROVE f[j] < f[k]
  <2>1. f[j] \in Nat /\ f[k] \in Nat /\ f[j] \in S /\ f[k] \in S
    BY <1>12
  <2>2. ~(f[k] < f[j]) /\ f[j] # f[k]
    BY <1>7, <1>12, <1>14, <2>1
  <2> QED BY <2>1, <2>2
<1>15. ASSUME NEW i \in S PROVE \E k \in 1 .. n : f[k] = i
  <2>1. r[i] \in 1 .. n
    BY <1>6
  <2>2. f[r[i]] \in S /\ r[f[r[i]]] = r[i]
    BY <2>1, <1>12
  <2>3. f[r[i]] = i
    BY <2>2, <1>8 DEF Injection, IsInjective
  <2> QED BY <2>1, <2>3
<1> QED BY <1>1, <1>13, <1>14, <1>15 DEF n, f

(* What is left of a list by the places it is left at. *)
LEMMA SelectedIs ==
  ASSUME NEW T, NEW l \in Seq(T), NEW S \in SUBSET DOMAIN l
  PROVE  /\ Cardinality(S) \in Nat
         /\ Selected(l, S) = [k \in 1 .. Cardinality(S) |-> l[Ascending(S)[k]]]
         /\ Ascending(S) \in [1 .. Cardinality(S) -> S]
         /\ \A j, k \in 1 .. Cardinality(S) : j < k => Ascending(S)[j] < Ascending(S)[k]
         /\ \A i \in S : \E k \in 1 .. Cardinality(S) : Ascending(S)[k] = i
<1>1. S \in SUBSET Nat /\ IsFiniteSet(S)
  <2>1. DOMAIN l = 1 .. Len(l) /\ Len(l) \in Nat
    BY LenProperties
  <2>2. IsFiniteSet(1 .. Len(l)) /\ S \in SUBSET (1 .. Len(l))
    BY <2>1, FS_Interval
  <2> QED BY <2>1, <2>2, FS_Subset
<1> QED BY <1>1, AscendingIs DEF Selected
=============================================================================
