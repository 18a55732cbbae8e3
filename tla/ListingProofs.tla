---------------------------- MODULE ListingProofs ----------------------------
(***************************************************************************)
(* Proofs about Listing, for any words, limits, tables and cached lists of *)
(* any length and any number of edits.                                     *)
(***************************************************************************)
EXTENDS Listing, FilterProofs

-----------------------------------------------------------------------------
(* Arithmetic of pages.                                                    *)

LEMMA Division ==
  ASSUME NEW a \in Nat, NEW d \in Nat \ {0}
  PROVE  a \div d \in Nat /\ d * (a \div d) <= a /\ a < d * (a \div d) + d
  OBVIOUS

LEMMA Product ==
  ASSUME NEW a \in Nat, NEW b \in Nat
  PROVE  a * b \in Nat
  OBVIOUS

(* Products grow with a factor. *)
LEMMA Grows ==
  ASSUME NEW a \in Nat, NEW b \in Nat, NEW d \in Nat, a <= b
  PROVE  a * d <= b * d
  OBVIOUS

(* To skip k pages' worth is to ask for page k. *)
LEMMA SkipIsPage ==
  ASSUME NEW k \in Nat, NEW d \in Nat \ {0}
  PROVE  (k * d) \div d = k
  OBVIOUS

(* Rounded up, there are pages for all. *)
LEMMA CeilIsEnough ==
  ASSUME NEW n \in Nat, NEW d \in Nat \ {0}
  PROVE  Ceil(n, d) \in Nat /\ n <= Ceil(n, d) * d
  BY Division DEF Ceil

(* The last row of a page is before the first of the next. *)
LEMMA NextPageStarts ==
  ASSUME NEW k \in Nat \ {0}, NEW d \in Nat
  PROVE  (k - 1) * d \in Nat /\ k * d \in Nat /\ k * d = (k - 1) * d + d
  OBVIOUS

-----------------------------------------------------------------------------
(* Sequences without repetition, their first n elements and their order.   *)

Before(s, x, y) == \E i, j \in DOMAIN s : i <= j /\ s[i] = x /\ s[j] = y

Down(s, x) == {y \in ToSet(s) : Before(s, y, x)}

LEMMA SeqFacts ==
  ASSUME NEW T, NEW s \in Seq(T)
  PROVE  /\ Len(s) \in Nat /\ DOMAIN s = 1 .. Len(s)
         /\ \A i \in DOMAIN s : s[i] \in T /\ s[i] \in ToSet(s)
         /\ ToSet(s) \subseteq T
         /\ \A x \in ToSet(s) : \E i \in DOMAIN s : s[i] = x
  BY LenProperties DEF ToSet

(* Different places hold different elements: they can be counted. *)
LEMMA Counted ==
  ASSUME NEW T, NEW s \in Seq(T), IsInjective(s), NEW S \in SUBSET DOMAIN s
  PROVE  /\ IsFiniteSet({s[i] : i \in S}) /\ IsFiniteSet(S)
         /\ Cardinality({s[i] : i \in S}) = Cardinality(S)
<1> DEFINE R == {s[i] : i \in S}
           f == [i \in S |-> s[i]]
<1>1. IsFiniteSet(S)
  <2>1. DOMAIN s = 1 .. Len(s) /\ Len(s) \in Nat
    BY SeqFacts
  <2>2. IsFiniteSet(1 .. Len(s))
    BY <2>1, FS_Interval
  <2>3. S \in SUBSET (1 .. Len(s))
    BY <2>1
  <2> QED BY <2>2, <2>3, FS_Subset
<1>2. f \in Surjection(S, R)
  BY DEF Surjection
<1>3. f \in Injection(S, R)
  BY DEF Injection, IsInjective
<1>4. IsFiniteSet(R) /\ Cardinality(R) <= Cardinality(S)
  BY <1>1, <1>2, FS_Surjection
<1>5. Cardinality(S) <= Cardinality(R)
  BY <1>3, <1>4, FS_Injection
<1>6. Cardinality(R) \in Nat /\ Cardinality(S) \in Nat
  BY <1>1, <1>4, FS_CardinalityType
<1> QED BY <1>1, <1>4, <1>5, <1>6

(* A sequence typed by naturals is a sequence of its own elements. *)
LEMMA CountedAll ==
  ASSUME NEW T, NEW s \in Seq(T), IsInjective(s)
  PROVE  IsFiniteSet(ToSet(s)) /\ Cardinality(ToSet(s)) = Len(s)
<1>1. DOMAIN s = 1 .. Len(s) /\ Len(s) \in Nat
  BY SeqFacts
<1>2. Cardinality(1 .. Len(s)) = Len(s)
  BY <1>1, FS_Interval
<1> DEFINE D == DOMAIN s
<1>3. IsFiniteSet({s[i] : i \in D}) /\ Cardinality({s[i] : i \in D}) = Cardinality(D)
  <2>1. D \in SUBSET DOMAIN s
    OBVIOUS
  <2> HIDE DEF D
  <2> QED BY <2>1, Counted
<1> QED BY <1>1, <1>2, <1>3 DEF ToSet

(* The n-th element has n up to it. *)
LEMMA Rank ==
  ASSUME NEW T, NEW s \in Seq(T), IsInjective(s), NEW i \in DOMAIN s
  PROVE  Down(s, s[i]) = Upto(s, i) /\ Cardinality(Down(s, s[i])) = i
<1>1. Down(s, s[i]) = Upto(s, i)
  <2>1. ASSUME NEW y \in Down(s, s[i]) PROVE y \in Upto(s, i)
    <3>1. PICK j \in DOMAIN s, k \in DOMAIN s : j <= k /\ s[j] = y /\ s[k] = s[i]
      BY DEF Down, Before
    <3>2. k = i
      BY <3>1 DEF IsInjective
    <3> QED BY <3>1, <3>2 DEF Upto
  <2>2. ASSUME NEW y \in Upto(s, i) PROVE y \in Down(s, s[i])
    BY DEF Upto, Down, Before, ToSet
  <2> QED BY <2>1, <2>2
<1> DEFINE S == {j \in DOMAIN s : j <= i}
<1>2. DOMAIN s = 1 .. Len(s) /\ Len(s) \in Nat
  BY SeqFacts
<1>3. S = 1 .. i /\ i \in Nat
  BY <1>2
<1>4. Cardinality(1 .. i) = i
  BY <1>3, FS_Interval
<1>5. Cardinality({s[j] : j \in S}) = Cardinality(S)
  <2> HIDE DEF S
  <2> QED BY Counted DEF S
<1> QED BY <1>1, <1>3, <1>4, <1>5 DEF Upto

(* Being among the first n, by rank. *)
LEMMA UptoByRank ==
  ASSUME NEW T, NEW s \in Seq(T), IsInjective(s), NEW n \in Nat
  PROVE  /\ Upto(s, n) = {x \in ToSet(s) : Cardinality(Down(s, x)) <= n}
         /\ \A x \in ToSet(s) :
               /\ Cardinality(Down(s, x)) \in 1 .. Len(s)
               /\ IsFiniteSet(Down(s, x)) /\ x \in Down(s, x) /\ Down(s, x) \subseteq ToSet(s)
         /\ \A x, y \in ToSet(s) : Cardinality(Down(s, x)) = Cardinality(Down(s, y)) => x = y
         /\ IsFiniteSet(ToSet(s))
<1>1. \A x \in ToSet(s) : \E i \in DOMAIN s : s[i] = x /\ Cardinality(Down(s, x)) = i
  BY Rank, SeqFacts
<1>2. \A i \in DOMAIN s : s[i] \in ToSet(s) /\ i \in Nat
  BY SeqFacts
<1>3. Upto(s, n) = {x \in ToSet(s) : Cardinality(Down(s, x)) <= n}
  <2>1. ASSUME NEW x \in Upto(s, n)
        PROVE  x \in ToSet(s) /\ Cardinality(Down(s, x)) <= n
    <3>1. PICK i \in DOMAIN s : i <= n /\ x = s[i]
      BY DEF Upto
    <3> QED BY <3>1, <1>2, Rank
  <2>2. ASSUME NEW x \in ToSet(s), Cardinality(Down(s, x)) <= n
        PROVE  x \in Upto(s, n)
    BY <1>1, <2>2 DEF Upto
  <2> QED BY <2>1, <2>2
<1>4. IsFiniteSet(ToSet(s))
  BY CountedAll
<1>5. ASSUME NEW x \in ToSet(s)
      PROVE  /\ Cardinality(Down(s, x)) \in 1 .. Len(s)
             /\ IsFiniteSet(Down(s, x)) /\ x \in Down(s, x) /\ Down(s, x) \subseteq ToSet(s)
  <2>1. PICK i \in DOMAIN s : s[i] = x /\ Cardinality(Down(s, x)) = i
    BY <1>1
  <2>2. i \in 1 .. Len(s) /\ i <= i
    BY SeqFacts
  <2>3. x \in Down(s, x)
    BY <2>1, <2>2 DEF Down, Before
  <2>4. Down(s, x) \in SUBSET ToSet(s)
    BY DEF Down
  <2> QED BY <1>4, <2>1, <2>2, <2>3, <2>4, FS_Subset
<1> QED BY <1>1, <1>3, <1>4, <1>5

(* The order is that of the ranks. *)
LEMMA RankOrders ==
  ASSUME NEW T, NEW s \in Seq(T), IsInjective(s),
         NEW x \in ToSet(s), NEW y \in ToSet(s), Before(s, x, y)
  PROVE  Cardinality(Down(s, x)) <= Cardinality(Down(s, y))
<1>1. PICK i \in DOMAIN s, j \in DOMAIN s : i <= j /\ s[i] = x /\ s[j] = y
  BY DEF Before
<1>2. Cardinality(Down(s, x)) = i /\ Cardinality(Down(s, y)) = j
  BY <1>1, Rank
<1> QED BY <1>1, <1>2

-----------------------------------------------------------------------------
(* A sequence before and after one element comes or goes, the others       *)
(* keeping their order: what stands among the first n, and what behind.    *)

Rest(s, n) == ToSet(s) \ Upto(s, n)

Agree(s, t) ==
    \A x, y \in ToSet(s) \cap ToSet(t) : Before(s, x, y) <=> Before(t, x, y)

(* An element without the one that went has one less before it at most. *)
LEMMA OneLess ==
  ASSUME NEW T, NEW s \in Seq(T), NEW t \in Seq(T), IsInjective(s), IsInjective(t),
         NEW z \in ToSet(s), ToSet(t) = ToSet(s) \ {z}, Agree(s, t),
         NEW x \in ToSet(t)
  PROVE  /\ Cardinality(Down(s, x)) \in Nat /\ Cardinality(Down(t, x)) \in Nat
         /\ z \in Down(s, x) => Cardinality(Down(s, x)) = Cardinality(Down(t, x)) + 1
         /\ z \notin Down(s, x) => Cardinality(Down(s, x)) = Cardinality(Down(t, x))
<1>1. Down(t, x) = Down(s, x) \ {z}
  BY DEF Down, Agree
<1>2. IsFiniteSet(Down(s, x)) /\ Cardinality(Down(s, x)) \in Nat
  BY UptoByRank, 0 \in Nat
<1>3. Cardinality(Down(t, x)) \in Nat
  BY UptoByRank, 0 \in Nat
<1>4. CASE z \in Down(s, x)
  <2>1. Cardinality(Down(s, x) \ {z}) = Cardinality(Down(s, x)) - 1
    BY <1>2, <1>4, FS_RemoveElement
  <2> QED BY <1>1, <1>2, <1>3, <1>4, <2>1
<1>5. CASE z \notin Down(s, x)
  <2>1. Down(t, x) = Down(s, x)
    BY <1>1, <1>5
  <2> QED BY <1>2, <1>5, <2>1
<1> QED BY <1>4, <1>5

(* One goes: nobody falls back, and one at most moves up among the first. *)
LEMMA Removed ==
  ASSUME NEW T, NEW s \in Seq(T), NEW t \in Seq(T), IsInjective(s), IsInjective(t),
         NEW z \in ToSet(s), ToSet(t) = ToSet(s) \ {z}, Agree(s, t), NEW n \in Nat
  PROVE  /\ Rest(t, n) \subseteq Rest(s, n)
         /\ \E w : Upto(t, n) \subseteq Upto(s, n) \cup {w}
<1>1. /\ Upto(s, n) = {x \in ToSet(s) : Cardinality(Down(s, x)) <= n}
      /\ Upto(t, n) = {x \in ToSet(t) : Cardinality(Down(t, x)) <= n}
  BY UptoByRank
<1>2. \A x \in ToSet(t) :
         /\ Cardinality(Down(s, x)) \in Nat /\ Cardinality(Down(t, x)) \in Nat
         /\ Cardinality(Down(t, x)) <= Cardinality(Down(s, x))
         /\ Cardinality(Down(s, x)) <= Cardinality(Down(t, x)) + 1
  <2> TAKE x \in ToSet(t)
  <2> QED BY OneLess
<1>3. Rest(t, n) \subseteq Rest(s, n)
  BY <1>1, <1>2 DEF Rest
<1>4. \A x \in Upto(t, n) \ Upto(s, n) : x \in ToSet(s) /\ Cardinality(Down(s, x)) = n + 1
  BY <1>1, <1>2
<1>5. \A x, y \in Upto(t, n) \ Upto(s, n) : x = y
  BY <1>4, UptoByRank
<1>6. \E w : Upto(t, n) \subseteq Upto(s, n) \cup {w}
  <2>1. CASE Upto(t, n) \ Upto(s, n) = {}
    BY <2>1
  <2>2. CASE Upto(t, n) \ Upto(s, n) # {}
    <3>1. PICK w : w \in Upto(t, n) \ Upto(s, n)
      BY <2>2
    <3>2. Upto(t, n) \subseteq Upto(s, n) \cup {w}
      BY <3>1, <1>5
    <3> QED BY <3>2
  <2> QED BY <2>1, <2>2
<1> QED BY <1>3, <1>6

(* One comes: nobody moves up among the first; it falls behind them or     *)
(* one of them does, and none where it comes last.                         *)
LEMMA Inserted ==
  ASSUME NEW T, NEW s \in Seq(T), NEW t \in Seq(T), IsInjective(s), IsInjective(t),
         NEW z, z \notin ToSet(s), ToSet(t) = ToSet(s) \cup {z}, Agree(s, t), NEW n \in Nat
  PROVE  /\ Upto(t, n) \cap ToSet(s) \subseteq Upto(s, n)
         /\ \E w : Rest(t, n) \subseteq Rest(s, n) \cup {w}
         /\ (\A x \in ToSet(s) : ~Before(t, z, x)) => Rest(t, n) \subseteq Rest(s, n) \cup {z}
<1>1. /\ Upto(s, n) = {x \in ToSet(s) : Cardinality(Down(s, x)) <= n}
      /\ Upto(t, n) = {x \in ToSet(t) : Cardinality(Down(t, x)) <= n}
  BY UptoByRank
<1>2. z \in ToSet(t) /\ ToSet(s) = ToSet(t) \ {z} /\ Agree(t, s)
  BY DEF Agree
<1>3. \A x \in ToSet(s) :
         /\ Cardinality(Down(s, x)) \in Nat /\ Cardinality(Down(t, x)) \in Nat
         /\ z \in Down(t, x) => Cardinality(Down(t, x)) = Cardinality(Down(s, x)) + 1
         /\ z \notin Down(t, x) => Cardinality(Down(t, x)) = Cardinality(Down(s, x))
  <2>1. ASSUME NEW a \in Seq(T), NEW b \in Seq(T), IsInjective(a), IsInjective(b),
               z \in ToSet(a), ToSet(b) = ToSet(a) \ {z}, Agree(a, b), NEW x \in ToSet(b)
        PROVE  /\ Cardinality(Down(b, x)) \in Nat /\ Cardinality(Down(a, x)) \in Nat
               /\ z \in Down(a, x) => Cardinality(Down(a, x)) = Cardinality(Down(b, x)) + 1
               /\ z \notin Down(a, x) => Cardinality(Down(a, x)) = Cardinality(Down(b, x))
    BY <2>1, OneLess
  <2> QED BY <1>2, <2>1, ZenonT(60)
<1>4. Upto(t, n) \cap ToSet(s) \subseteq Upto(s, n)
  BY <1>1, <1>3
<1> DEFINE Fallen == {x \in Rest(t, n) : x \in Upto(s, n)}
<1>5. \A x \in Fallen :
         /\ x \in ToSet(s) /\ x \in ToSet(t)
         /\ Cardinality(Down(t, x)) = n + 1 /\ Before(t, z, x)
  <2> TAKE x \in Fallen
  <2>1. /\ x \in ToSet(s) /\ x \in ToSet(t)
        /\ Cardinality(Down(s, x)) <= n /\ ~(Cardinality(Down(t, x)) <= n)
    BY <1>1, <1>2 DEF Rest
  <2>2. Cardinality(Down(t, x)) = n + 1 /\ z \in Down(t, x)
    BY <1>3, <2>1
  <2> QED BY <2>1, <2>2 DEF Down
<1>6. Rest(t, n) \subseteq Rest(s, n) \cup Fallen \cup {z}
  BY <1>2 DEF Rest
<1>7. (\A x \in ToSet(s) : ~Before(t, z, x)) => Rest(t, n) \subseteq Rest(s, n) \cup {z}
  BY <1>5, <1>6
<1>8. \E w : Rest(t, n) \subseteq Rest(s, n) \cup {w}
  <2>1. CASE Fallen = {}
    BY <1>6, <2>1
  <2>2. CASE Fallen # {}
    <3>1. PICK w : w \in Fallen
      BY <2>2
    <3>2. \A x \in Fallen : x = w
      BY <1>5, <3>1, UptoByRank
    <3>3. z \notin Rest(t, n)
      <4>1. Cardinality(Down(t, z)) <= n + 1
        BY <1>2, <1>5, <3>1, RankOrders
      <4>2. Cardinality(Down(t, z)) # n + 1
        <5>1. w # z
          BY <1>2, <1>5, <3>1
        <5> QED BY <1>2, <1>5, <3>1, <5>1, UptoByRank
      <4>3. Cardinality(Down(t, z)) \in Nat
        BY <1>2, UptoByRank
      <4> QED BY <1>1, <1>2, <4>1, <4>2, <4>3 DEF Rest
    <3>4. Rest(t, n) \subseteq Rest(s, n) \cup {w}
      BY <1>6, <3>2, <3>3
    <3> QED BY <3>4
  <2> QED BY <2>1, <2>2
<1> QED BY <1>4, <1>7, <1>8

LEMMA Unmoved ==
  ASSUME NEW T, NEW s \in Seq(T), NEW t \in Seq(T), IsInjective(s), IsInjective(t),
         ToSet(t) = ToSet(s), Agree(s, t), NEW n \in Nat
  PROVE  Upto(t, n) = Upto(s, n) /\ Rest(t, n) = Rest(s, n)
<1>1. \A x \in ToSet(s) : Down(t, x) = Down(s, x)
  BY DEF Down, Agree
<1>2. /\ Upto(s, n) = {x \in ToSet(s) : Cardinality(Down(s, x)) <= n}
      /\ Upto(t, n) = {x \in ToSet(t) : Cardinality(Down(t, x)) <= n}
  BY UptoByRank
<1>3. Upto(t, n) = Upto(s, n)
  BY <1>1, <1>2
<1> QED BY <1>3 DEF Rest

-----------------------------------------------------------------------------
(* A filter keeps the order, and what it leaves does not repeat.           *)
LEMMA SelectedOf ==
  ASSUME NEW T, NEW l \in Seq(T), IsInjective(l), NEW S \in SUBSET DOMAIN l
  PROVE  /\ Selected(l, S) \in Seq(T) /\ IsInjective(Selected(l, S))
         /\ Len(Selected(l, S)) = Cardinality(S)
         /\ ToSet(Selected(l, S)) = {l[i] : i \in S}
         /\ \A x, y \in ToSet(Selected(l, S)) : Before(Selected(l, S), x, y) <=> Before(l, x, y)
<1> DEFINE w == Selected(l, S)
           n == Cardinality(S)
           g == Ascending(S)
<1>1. /\ n \in Nat /\ w = [k \in 1 .. n |-> l[g[k]]] /\ g \in [1 .. n -> S]
      /\ \A j, k \in 1 .. n : j < k => g[j] < g[k]
      /\ \A i \in S : \E k \in 1 .. n : g[k] = i
  BY SelectedIs
<1>2. DOMAIN l = 1 .. Len(l) /\ Len(l) \in Nat /\ \A i \in DOMAIN l : l[i] \in T
  BY SeqFacts
<1> HIDE DEF w, n, g
<1>3. /\ \A k \in 1 .. n : g[k] \in S /\ g[k] \in DOMAIN l /\ g[k] \in Nat /\ w[k] = l[g[k]]
      /\ \A j, k \in 1 .. n : j <= k <=> g[j] <= g[k]
  <2>1. \A k \in 1 .. n : g[k] \in S /\ g[k] \in DOMAIN l /\ g[k] \in Nat /\ w[k] = l[g[k]]
    BY <1>1, <1>2
  <2>2. ASSUME NEW j \in 1 .. n, NEW k \in 1 .. n PROVE j <= k <=> g[j] <= g[k]
    <3>1. g[j] \in Nat /\ g[k] \in Nat /\ j \in Nat /\ k \in Nat
      BY <1>1, <2>1
    <3>2. CASE j = k
      BY <3>1, <3>2
    <3>3. CASE j < k
      <4>1. g[j] < g[k]
        BY <1>1, <3>3
      <4> QED BY <3>1, <3>3, <4>1
    <3>4. CASE k < j
      <4>1. g[k] < g[j]
        BY <1>1, <3>4
      <4> QED BY <3>1, <3>4, <4>1
    <3> QED BY <3>1, <3>2, <3>3, <3>4
  <2> QED BY <2>1, <2>2
<1>4. w \in Seq(T) /\ Len(w) = n /\ DOMAIN w = 1 .. n
  <2>1. w \in [1 .. n -> T]
    BY <1>1, <1>2, <1>3
  <2> QED BY <1>1, <2>1, SeqDef, LenProperties
<1>5. IsInjective(w)
  <2>1. ASSUME NEW j \in 1 .. n, NEW k \in 1 .. n, w[j] = w[k] PROVE j = k
    <3>1. g[j] = g[k]
      BY <1>3, <2>1 DEF IsInjective
    <3>2. j <= k /\ k <= j
      BY <1>3, <3>1
    <3> QED BY <1>1, <3>2
  <2> QED BY <1>4, <2>1 DEF IsInjective
<1>6. ToSet(w) = {l[i] : i \in S}
  <2>1. ASSUME NEW k \in 1 .. n PROVE w[k] \in {l[i] : i \in S}
    BY <1>3
  <2>2. ASSUME NEW i \in S PROVE l[i] \in ToSet(w)
    <3>1. PICK k \in 1 .. n : g[k] = i
      BY <1>1
    <3> QED BY <1>3, <1>4, <3>1 DEF ToSet
  <2> QED BY <1>4, <2>1, <2>2 DEF ToSet
<1>7. ASSUME NEW x \in ToSet(w), NEW y \in ToSet(w) PROVE Before(w, x, y) <=> Before(l, x, y)
  <2>1. ASSUME Before(w, x, y) PROVE Before(l, x, y)
    <3>1. PICK j \in 1 .. n, k \in 1 .. n : j <= k /\ w[j] = x /\ w[k] = y
      BY <1>4, <2>1 DEF Before
    <3>2. g[j] \in DOMAIN l /\ g[k] \in DOMAIN l /\ g[j] <= g[k] /\ l[g[j]] = x /\ l[g[k]] = y
      BY <1>3, <3>1
    <3> QED BY <3>2 DEF Before
  <2>2. ASSUME Before(l, x, y) PROVE Before(w, x, y)
    <3>1. PICK a \in DOMAIN l, b \in DOMAIN l : a <= b /\ l[a] = x /\ l[b] = y
      BY <2>2 DEF Before
    <3>2. PICK j \in 1 .. n, k \in 1 .. n : w[j] = x /\ w[k] = y
      BY <1>4 DEF ToSet
    <3>3. g[j] = a /\ g[k] = b
      BY <1>3, <3>1, <3>2 DEF IsInjective
    <3>4. j <= k
      BY <1>3, <3>1, <3>3
    <3> QED BY <1>4, <3>2, <3>4 DEF Before
  <2> QED BY <2>1, <2>2
<1> QED BY <1>4, <1>5, <1>6, <1>7 DEF w, n

-----------------------------------------------------------------------------
(* The list that pages are cut from.                                       *)

(* What a table and a cached list are. *)
Tabled(r, t, l) ==
    /\ r \in Routes
    /\ t \in Seq(RowsOf(r))
    /\ l # None => l \in Seq(DOMAIN t) /\ IsInjective(l)

Hit(r, x, q) == IF r # "products" THEN Like(x, q) ELSE Filtered(x, q)

(* The order of the list. *)
Ordered(r, l, x, y) == IF r # "products" THEN x <= y ELSE Before(l, x, y)

LEMMA TableFacts ==
  ASSUME NEW r, NEW t \in Seq(RowsOf(r))
  PROVE  /\ Len(t) \in Nat /\ DOMAIN t = 1 .. Len(t) /\ DOMAIN t \subseteq Nat
         /\ \A id \in DOMAIN t : t[id] \in RowsOf(r)
  BY SeqFacts

LEMMA MatchingFacts ==
  ASSUME NEW r, NEW t \in Seq(RowsOf(r)), NEW q
  PROVE  /\ Matching(t, q) \in Seq(DOMAIN t) /\ IsInjective(Matching(t, q))
         /\ ToSet(Matching(t, q)) = {id \in DOMAIN t : Like(t[id], q)}
         /\ \A x, y \in ToSet(Matching(t, q)) : Before(Matching(t, q), x, y) <=> x <= y
<1> DEFINE l == [id \in DOMAIN t |-> id]
           S == {id \in DOMAIN t : Like(t[id], q)}
<1>1. Len(t) \in Nat /\ DOMAIN t = 1 .. Len(t)
  BY TableFacts
<1>2. l \in Seq(DOMAIN t) /\ DOMAIN l = DOMAIN t
  <2>1. l \in [1 .. Len(t) -> DOMAIN t]
    BY <1>1
  <2> QED BY <1>1, <2>1, SeqDef
<1>3. IsInjective(l)
  BY DEF IsInjective
<1>4. S \in SUBSET DOMAIN l
  BY <1>2
<1>5. Matching(t, q) = Selected(l, S)
  BY DEF Matching
<1>6. \A x, y \in DOMAIN t : Before(l, x, y) <=> x <= y
  BY DEF Before
<1>7. {l[i] : i \in S} = S
  OBVIOUS
<1> HIDE DEF l, S
<1>8. /\ Selected(l, S) \in Seq(DOMAIN t) /\ IsInjective(Selected(l, S))
      /\ ToSet(Selected(l, S)) = S
      /\ \A x, y \in ToSet(Selected(l, S)) : Before(Selected(l, S), x, y) <=> Before(l, x, y)
  BY <1>2, <1>3, <1>4, <1>7, SelectedOf
<1>9. S \subseteq DOMAIN t
  BY DEF S
<1> QED BY <1>5, <1>6, <1>8, <1>9 DEF S

LEMMA FilteredFacts ==
  ASSUME NEW r, NEW t \in Seq(RowsOf(r)), NEW l \in Seq(DOMAIN t), IsInjective(l), NEW q
  PROVE  /\ FilterProducts(t, l, q) \in Seq(DOMAIN t) /\ IsInjective(FilterProducts(t, l, q))
         /\ ToSet(FilterProducts(t, l, q)) = {id \in ToSet(l) : Filtered(t[id], q)}
         /\ \A x, y \in ToSet(FilterProducts(t, l, q)) :
               Before(FilterProducts(t, l, q), x, y) <=> Before(l, x, y)
<1> DEFINE S == {i \in DOMAIN l : Filtered(t[l[i]], q)}
<1>1. S \in SUBSET DOMAIN l /\ FilterProducts(t, l, q) = Selected(l, S)
  BY DEF FilterProducts
<1>2. {l[i] : i \in S} = {id \in ToSet(l) : Filtered(t[id], q)}
  BY DEF ToSet
<1> HIDE DEF S
<1> QED BY <1>1, <1>2, SelectedOf

LEMMA FoundFacts ==
  ASSUME NEW r, NEW t, NEW l, Tabled(r, t, l), NEW q
  PROVE  /\ Found(r, t, l, q) \in Seq(DOMAIN t) /\ IsInjective(Found(r, t, l, q))
         /\ ToSet(Found(r, t, l, q)) = {id \in Listed(r, t, l) : Hit(r, t[id], q)}
         /\ \A x, y \in ToSet(Found(r, t, l, q)) :
               Before(Found(r, t, l, q), x, y) <=> Ordered(r, l, x, y)
<1> DEFINE f == Found(r, t, l, q)
<1>1. CASE r # "products"
  <2>1. f = Matching(t, q) /\ t \in Seq(RowsOf(r)) /\ Listed(r, t, l) = DOMAIN t
    BY <1>1 DEF Found, Tabled, Listed
  <2>2. /\ \A x : Hit(r, x, q) <=> Like(x, q)
        /\ \A x, y : Ordered(r, l, x, y) <=> x <= y
    BY <1>1 DEF Hit, Ordered
  <2> HIDE DEF f
  <2>3. /\ f \in Seq(DOMAIN t) /\ IsInjective(f)
        /\ ToSet(f) = {id \in DOMAIN t : Like(t[id], q)}
        /\ \A x, y \in ToSet(f) : Before(f, x, y) <=> x <= y
    BY <2>1, MatchingFacts
  <2>4. ToSet(f) = {id \in Listed(r, t, l) : Hit(r, t[id], q)}
    BY <2>1, <2>2, <2>3
  <2> QED BY <2>2, <2>3, <2>4 DEF f
<1>2. CASE r = "products" /\ l = None
  <2>1. f = <<>> /\ Listed(r, t, l) = {}
    BY <1>2 DEF Found, Listed
  <2>2. DOMAIN <<>> = {} /\ <<>> \in Seq(DOMAIN t)
    OBVIOUS
  <2> HIDE DEF f
  <2>3. ToSet(f) = {} /\ IsInjective(f)
    BY <2>1, <2>2 DEF ToSet, IsInjective
  <2> QED BY <2>1, <2>2, <2>3 DEF f
<1>3. CASE r = "products" /\ l # None
  <2>1. /\ f = FilterProducts(t, l, q) /\ t \in Seq(RowsOf(r)) /\ Listed(r, t, l) = ToSet(l)
        /\ l \in Seq(DOMAIN t) /\ IsInjective(l)
    BY <1>3 DEF Found, Tabled, Listed
  <2>2. /\ \A x : Hit(r, x, q) <=> Filtered(x, q)
        /\ \A x, y : Ordered(r, l, x, y) <=> Before(l, x, y)
    BY <1>3 DEF Hit, Ordered
  <2> HIDE DEF f
  <2>3. /\ f \in Seq(DOMAIN t) /\ IsInjective(f)
        /\ ToSet(f) = {id \in ToSet(l) : Filtered(t[id], q)}
        /\ \A x, y \in ToSet(f) : Before(f, x, y) <=> Before(l, x, y)
    BY <2>1, FilteredFacts
  <2>4. ToSet(f) = {id \in Listed(r, t, l) : Hit(r, t[id], q)}
    BY <2>1, <2>2, <2>3
  <2> QED BY <2>2, <2>3, <2>4 DEF f
<1> QED BY <1>1, <1>2, <1>3

-----------------------------------------------------------------------------
(* Counting rows.                                                          *)

LEMMA Fewer ==
  ASSUME NEW X, NEW Y, X \subseteq Y, IsFiniteSet(Y)
  PROVE  /\ IsFiniteSet(X) /\ Cardinality(X) <= Cardinality(Y)
         /\ Cardinality(X) \in Nat /\ Cardinality(Y) \in Nat
<1>1. X \in SUBSET Y
  OBVIOUS
<1> QED BY <1>1, FS_Subset, FS_CardinalityType

LEMMA OneMore ==
  ASSUME NEW X, NEW Y, NEW w, X \subseteq Y \cup {w}, IsFiniteSet(Y)
  PROVE  /\ IsFiniteSet(X) /\ Cardinality(X) <= Cardinality(Y) + 1
         /\ Cardinality(X) \in Nat /\ Cardinality(Y) \in Nat
<1>1. /\ IsFiniteSet(Y \cup {w}) /\ Cardinality(Y) \in Nat
      /\ Cardinality(Y \cup {w}) <= Cardinality(Y) + 1
  <2>1. /\ IsFiniteSet(Y \cup {w})
        /\ Cardinality(Y \cup {w}) = IF w \in Y THEN Cardinality(Y) ELSE Cardinality(Y) + 1
    BY FS_AddElement
  <2>2. Cardinality(Y) \in Nat
    BY FS_CardinalityType
  <2> QED BY <2>1, <2>2
<1>2. /\ IsFiniteSet(X) /\ Cardinality(X) <= Cardinality(Y \cup {w})
      /\ Cardinality(X) \in Nat /\ Cardinality(Y \cup {w}) \in Nat
  BY <1>1, Fewer
<1> QED BY <1>1, <1>2

LEMMA JustOne ==
  ASSUME NEW X, NEW z, X = {z}
  PROVE  IsFiniteSet(X) /\ Cardinality(X) = 1
  BY FS_Singleton

(* An edit of the row z: what was shown and is ahead grows by no more than *)
(* the rows put between the others (A are those put at the end), what is   *)
(* to be seen and behind by no more than the rows that went.               *)
LEMMA Shift ==
  ASSUME NEW T, NEW s \in Seq(T), NEW t \in Seq(T), IsInjective(s), IsInjective(t),
         Agree(s, t), NEW z, ToSet(s) \ {z} = ToSet(t) \ {z}, NEW n \in Nat,
         NEW A, \/ A = {}
                \/ A = {z} /\ z \notin ToSet(s) /\ \A x \in ToSet(s) : ~Before(t, z, x),
         NEW seen, IsFiniteSet(seen), A \cap seen = {},
         NEW stay, NEW kept, IsFiniteSet(stay), kept \subseteq stay
  PROVE  /\ Cardinality(ToSet(t) \ (ToSet(s) \cup A)) \in Nat
         /\ Cardinality(ToSet(s) \ ToSet(t)) \in Nat
         /\ Cardinality(seen \cap Rest(t, n))
               <= Cardinality(seen \cap Rest(s, n)) + Cardinality(ToSet(t) \ (ToSet(s) \cup A))
         /\ stay \subseteq ToSet(s) =>
               Cardinality(kept \cap Upto(t, n))
                  <= Cardinality(stay \cap Upto(s, n)) + Cardinality(ToSet(s) \ ToSet(t))
<1> DEFINE gain == ToSet(t) \ (ToSet(s) \cup A)
           loss == ToSet(s) \ ToSet(t)
           newAhead == seen \cap Rest(t, n)
           oldAhead == seen \cap Rest(s, n)
           newBehind == kept \cap Upto(t, n)
           oldBehind == stay \cap Upto(s, n)
<1>1. Cardinality(gain) \in Nat /\ Cardinality(loss) \in Nat
  <2>1. IsFiniteSet(ToSet(s)) /\ IsFiniteSet(ToSet(t))
    BY CountedAll
  <2>2. gain \subseteq ToSet(t) /\ loss \subseteq ToSet(s)
    OBVIOUS
  <2> HIDE DEF gain, loss
  <2> QED BY <2>1, <2>2, Fewer
<1>2. IsFiniteSet(oldAhead) /\ IsFiniteSet(oldBehind)
  <2>1. oldAhead \subseteq seen /\ oldBehind \subseteq stay
    OBVIOUS
  <2> HIDE DEF oldAhead, oldBehind
  <2> QED BY <2>1, Fewer
<1>3. CASE ToSet(s) = ToSet(t)
  <2>1. Upto(t, n) = Upto(s, n) /\ Rest(t, n) = Rest(s, n)
    BY <1>3, Unmoved
  <2>2. newAhead \subseteq oldAhead /\ newBehind \subseteq oldBehind
    BY <2>1
  <2> HIDE DEF gain, loss, newAhead, oldAhead, newBehind, oldBehind
  <2>3. /\ Cardinality(newAhead) <= Cardinality(oldAhead)
        /\ Cardinality(newAhead) \in Nat /\ Cardinality(oldAhead) \in Nat
    BY <1>2, <2>2, Fewer
  <2>4. /\ Cardinality(newBehind) <= Cardinality(oldBehind)
        /\ Cardinality(newBehind) \in Nat /\ Cardinality(oldBehind) \in Nat
    BY <1>2, <2>2, Fewer
  <2>5. /\ Cardinality(newAhead) <= Cardinality(oldAhead) + Cardinality(gain)
        /\ Cardinality(newBehind) <= Cardinality(oldBehind) + Cardinality(loss)
    BY <1>1, <2>3, <2>4
  <2> QED BY <1>1, <2>5 DEF gain, loss, newAhead, oldAhead, newBehind, oldBehind
<1>4. CASE z \in ToSet(s) /\ z \notin ToSet(t)
  <2>1. ToSet(t) = ToSet(s) \ {z} /\ loss = {z}
    BY <1>4
  <2>2. Rest(t, n) \subseteq Rest(s, n)
    BY <1>4, <2>1, Removed
  <2>3. PICK w : Upto(t, n) \subseteq Upto(s, n) \cup {w}
    BY <1>4, <2>1, Removed
  <2>4. newAhead \subseteq oldAhead /\ newBehind \subseteq oldBehind \cup {w}
    BY <2>2, <2>3
  <2> HIDE DEF gain, loss, newAhead, oldAhead, newBehind, oldBehind
  <2>5. /\ Cardinality(newAhead) <= Cardinality(oldAhead)
        /\ Cardinality(newAhead) \in Nat /\ Cardinality(oldAhead) \in Nat
    BY <1>2, <2>4, Fewer
  <2>6. /\ Cardinality(newBehind) <= Cardinality(oldBehind) + 1
        /\ Cardinality(newBehind) \in Nat /\ Cardinality(oldBehind) \in Nat
    BY <1>2, <2>4, OneMore
  <2>7. Cardinality(loss) = 1
    BY <2>1, JustOne
  <2>8. /\ Cardinality(newAhead) <= Cardinality(oldAhead) + Cardinality(gain)
        /\ Cardinality(newBehind) <= Cardinality(oldBehind) + Cardinality(loss)
    BY <1>1, <2>5, <2>6, <2>7
  <2> QED BY <1>1, <2>8 DEF gain, loss, newAhead, oldAhead, newBehind, oldBehind
<1>5. CASE z \notin ToSet(s) /\ z \in ToSet(t)
  <2>1. ToSet(t) = ToSet(s) \cup {z}
    BY <1>5
  <2>2. Upto(t, n) \cap ToSet(s) \subseteq Upto(s, n)
    BY <1>5, <2>1, Inserted
  <2>3. stay \subseteq ToSet(s) => newBehind \subseteq oldBehind
    BY <2>2
  <2>4. Cardinality(newAhead) <= Cardinality(oldAhead) + Cardinality(gain)
    <3>1. CASE A = {}
      <4>1. PICK w : Rest(t, n) \subseteq Rest(s, n) \cup {w}
        BY <1>5, <2>1, Inserted
      <4>2. newAhead \subseteq oldAhead \cup {w}
        BY <4>1
      <4>3. gain = {z}
        BY <1>5, <2>1, <3>1
      <4> HIDE DEF gain, newAhead, oldAhead
      <4>4. /\ Cardinality(newAhead) <= Cardinality(oldAhead) + 1
            /\ Cardinality(newAhead) \in Nat /\ Cardinality(oldAhead) \in Nat
        BY <1>2, <4>2, OneMore
      <4>5. Cardinality(gain) = 1
        BY <4>3, JustOne
      <4> QED BY <4>4, <4>5
    <3>2. CASE A = {z} /\ \A x \in ToSet(s) : ~Before(t, z, x)
      <4>1. Rest(t, n) \subseteq Rest(s, n) \cup {z}
        BY <1>5, <2>1, <3>2, Inserted
      <4>2. newAhead \subseteq oldAhead
        BY <3>2, <4>1
      <4> HIDE DEF gain, newAhead, oldAhead
      <4>3. /\ Cardinality(newAhead) <= Cardinality(oldAhead)
            /\ Cardinality(newAhead) \in Nat /\ Cardinality(oldAhead) \in Nat
        BY <1>2, <4>2, Fewer
      <4> QED BY <1>1, <4>3
    <3> QED BY <3>1, <3>2
  <2> HIDE DEF gain, loss, newAhead, oldAhead, newBehind, oldBehind
  <2>5. stay \subseteq ToSet(s) => Cardinality(newBehind) <= Cardinality(oldBehind) + Cardinality(loss)
    <3> HAVE stay \subseteq ToSet(s)
    <3>1. /\ Cardinality(newBehind) <= Cardinality(oldBehind)
          /\ Cardinality(newBehind) \in Nat /\ Cardinality(oldBehind) \in Nat
      BY <1>2, <2>3, Fewer
    <3> QED BY <1>1, <3>1
  <2> QED BY <1>1, <2>4, <2>5 DEF gain, loss, newAhead, oldAhead, newBehind, oldBehind
<1>6. \/ ToSet(s) = ToSet(t)
      \/ z \in ToSet(s) /\ z \notin ToSet(t)
      \/ z \notin ToSet(s) /\ z \in ToSet(t)
  <2>1. \A x : x # z => (x \in ToSet(s) <=> x \in ToSet(t))
    <3> TAKE x
    <3> HAVE x # z
    <3>1. /\ x \in ToSet(s) <=> x \in ToSet(s) \ {z}
          /\ x \in ToSet(t) <=> x \in ToSet(t) \ {z}
      OBVIOUS
    <3> QED BY <3>1
  <2>2. (z \in ToSet(s) <=> z \in ToSet(t)) => ToSet(s) = ToSet(t)
    <3> HAVE z \in ToSet(s) <=> z \in ToSet(t)
    <3>1. \A x : x \in ToSet(s) <=> x \in ToSet(t)
      BY <2>1, Zenon
    <3> QED BY <3>1
  <2> QED BY <2>2, Zenon
<1> QED BY <1>3, <1>4, <1>5, <1>6

-----------------------------------------------------------------------------
(* Pages.                                                                  *)

LEMMA PageSizes ==
  ASSUME ListingAssumption, NEW limit \in Limits
  PROVE  /\ OrDefault(limit) \in Nat \ {0}
         /\ PageSize(limit) \in Nat \ {0} /\ PageSize(limit) <= MaxAllowed
  BY DEF ListingAssumption, OrDefault, PageSize, Smaller

(* Every way to ask for page k asks for page k. *)
LEMMA AskedPage ==
  ASSUME ListingAssumption, NEW limit \in Limits, NEW k \in Nat \ {0}, NEW ask \in Asks(k, limit)
  PROVE  PaginationParams(ask).page = k /\ PaginationParams(ask).limit = PageSize(limit)
<1>1. None \notin Nat
  BY DEF ListingAssumption
<1>2. OrDefault(limit) \in Nat \ {0}
  BY PageSizes
<1>3. CASE ask = [page |-> k, skip |-> None, limit |-> limit]
  BY <1>1, <1>3 DEF PaginationParams
<1>4. CASE ask = [page |-> None, skip |-> k * OrDefault(limit), limit |-> limit]
  <2>1. k * OrDefault(limit) \in Nat /\ (k * OrDefault(limit)) \div OrDefault(limit) = k
    BY <1>2, Product, SkipIsPage
  <2>2. k * OrDefault(limit) # None
    BY <1>1, <2>1
  <2>3. ask.skip = k * OrDefault(limit) /\ ask.limit = limit
    BY <1>4
  <2> QED BY <2>1, <2>2, <2>3 DEF PaginationParams
<1>5. CASE k = 1 /\ ask = [page |-> None, skip |-> None, limit |-> limit]
  BY <1>5 DEF PaginationParams
<1> QED BY <1>3, <1>4, <1>5 DEF Asks

LEMMA SmallerOf ==
  ASSUME NEW a \in Nat, NEW b \in Nat
  PROVE  /\ Smaller(a, b) \in Nat /\ Smaller(a, b) <= a /\ Smaller(a, b) <= b
         /\ Smaller(a, b) = a \/ Smaller(a, b) = b
  BY DEF Smaller

LEMMA Interval ==
  ASSUME NEW n \in Nat
  PROVE  IsFiniteSet(1 .. n) /\ Cardinality(1 .. n) = n
  BY FS_Interval

(* A slice holds the elements behind its start and up to its end. *)
LEMMA SliceFacts ==
  ASSUME NEW T, NEW s \in Seq(T), IsInjective(s), NEW from \in Nat, NEW d \in Nat
  PROVE  /\ Slice(s, from, from + d) \in Seq(T) /\ IsInjective(Slice(s, from, from + d))
         /\ Len(Slice(s, from, from + d)) <= d
         /\ ToSet(Slice(s, from, from + d)) = Upto(s, from + d) \ Upto(s, from)
<1>1. Len(s) \in Nat /\ DOMAIN s = 1 .. Len(s) /\ \A i \in DOMAIN s : s[i] \in T
  BY SeqFacts
<1>2. PICK end \in Nat : /\ end = Smaller(from + d, Len(s))
                         /\ end <= Len(s) /\ end <= from + d
                         /\ end = from + d \/ end = Len(s)
  <2>1. from + d \in Nat
    OBVIOUS
  <2>2. /\ Smaller(from + d, Len(s)) \in Nat
        /\ Smaller(from + d, Len(s)) <= from + d /\ Smaller(from + d, Len(s)) <= Len(s)
        /\ Smaller(from + d, Len(s)) = from + d \/ Smaller(from + d, Len(s)) = Len(s)
    BY <1>1, <2>1, SmallerOf
  <2> WITNESS Smaller(from + d, Len(s)) \in Nat
  <2> QED BY <2>2
<1>3. PICK w : w = SubSeq(s, from + 1, end)
  OBVIOUS
<1>4. Slice(s, from, from + d) = w
  BY <1>2, <1>3 DEF Slice
<1>5. /\ w \in Seq(T)
      /\ Len(w) = IF from + 1 <= end THEN end - (from + 1) + 1 ELSE 0
      /\ \A i \in 1 .. end - (from + 1) + 1 : w[i] = s[from + 1 + i - 1]
  <2>1. \A i \in from + 1 .. end : s[i] \in T
    BY <1>1, <1>2
  <2> QED BY <1>3, <2>1, SubSeqProperties
<1>6. /\ Len(w) \in Nat /\ DOMAIN w = 1 .. Len(w)
      /\ \A i \in DOMAIN w : from + i \in DOMAIN s /\ from + i <= end /\ w[i] = s[from + i]
  <2>1. Len(w) \in Nat /\ DOMAIN w = 1 .. Len(w)
    BY <1>5, SeqFacts
  <2>2. ASSUME NEW i \in DOMAIN w
        PROVE  from + i \in DOMAIN s /\ from + i <= end /\ w[i] = s[from + i]
    <3>1. i \in Nat /\ 1 <= i /\ from + i <= end
      BY <1>5, <2>1
    <3>2. i \in 1 .. end - (from + 1) + 1 /\ from + 1 + i - 1 = from + i
      BY <3>1
    <3>3. w[i] = s[from + i]
      BY <1>5, <3>2
    <3> QED BY <1>1, <1>2, <3>1, <3>3
  <2> QED BY <2>1, <2>2
<1>7. Len(w) <= d
  BY <1>2, <1>5
<1>8. IsInjective(w)
  <2>1. ASSUME NEW i \in DOMAIN w, NEW j \in DOMAIN w, w[i] = w[j] PROVE i = j
    <3>1. from + i = from + j
      BY <1>6, <2>1 DEF IsInjective
    <3>2. i \in Nat /\ j \in Nat
      BY <1>6
    <3> QED BY <3>1, <3>2
  <2> QED BY <2>1 DEF IsInjective
<1>9. ASSUME NEW x \in ToSet(w) PROVE x \in Upto(s, from + d) \ Upto(s, from)
  <2>1. PICK i \in DOMAIN w : x = w[i]
    BY DEF ToSet
  <2>2. i \in Nat /\ 1 <= i
    BY <1>6
  <2>3. from + i \in DOMAIN s /\ s[from + i] = x /\ from + i <= from + d /\ ~(from + i <= from)
    BY <1>2, <1>6, <2>1, <2>2
  <2>4. \A j \in DOMAIN s : s[j] = x => j = from + i
    BY <2>3 DEF IsInjective
  <2> QED BY <2>3, <2>4 DEF Upto
<1>10. ASSUME NEW x \in Upto(s, from + d) \ Upto(s, from) PROVE x \in ToSet(w)
  <2>1. PICK j \in DOMAIN s : j <= from + d /\ ~(j <= from) /\ x = s[j]
    BY DEF Upto
  <2>2. j \in Nat /\ from < j /\ j <= Len(s)
    BY <1>1, <2>1
  <2>3. j <= end
    BY <1>2, <2>1, <2>2
  <2>4. j - from \in Nat /\ 1 <= j - from /\ j - from <= end - from /\ from + (j - from) = j
    BY <2>2, <2>3
  <2>5. j - from \in DOMAIN w
    BY <1>5, <1>6, <2>2, <2>3, <2>4
  <2>6. w[j - from] = x
    BY <1>6, <2>1, <2>4, <2>5
  <2> QED BY <2>5, <2>6 DEF ToSet
<1>11. ToSet(w) = Upto(s, from + d) \ Upto(s, from)
  BY <1>9, <1>10
<1> QED BY <1>4, <1>5, <1>7, <1>8, <1>11

(* A page of a list holds the rows from the last of the page before on. *)
LEMMA PageFacts ==
  ASSUME NEW T, NEW s \in Seq(T), IsInjective(s), NEW k \in Nat \ {0}, NEW d \in Nat \ {0},
         NEW p, p.page = k, p.limit = d
  PROVE  /\ Page(s, p) \in Seq(T) /\ IsInjective(Page(s, p)) /\ Len(Page(s, p)) <= d
         /\ ToSet(Page(s, p)) = Upto(s, k * d) \ Upto(s, (k - 1) * d)
<1>1. PICK from \in Nat : from = (k - 1) * d
  BY NextPageStarts
<1>2. k * d = from + d
  BY <1>1, NextPageStarts
<1>3. Page(s, p) = Slice(s, from, from + d)
  BY <1>1, <1>2 DEF Page
<1>4. /\ Slice(s, from, from + d) \in Seq(T) /\ IsInjective(Slice(s, from, from + d))
      /\ Len(Slice(s, from, from + d)) <= d
      /\ ToSet(Slice(s, from, from + d)) = Upto(s, from + d) \ Upto(s, from)
  <2>1. d \in Nat
    OBVIOUS
  <2> QED BY <2>1, SliceFacts
<1> QED BY <1>1, <1>2, <1>3, <1>4

(* The rows of page k of f. *)
Turned(f, q, k, d) ==
    {id \in Upto(f, k * d) \ Upto(f, (k - 1) * d) :
        route = "users" => table[id].deleted = q.deleted}

(* What a reader is answered. *)
LEMMA ReplyFacts ==
  ASSUME NEW l, Tabled(route, table, l), route = "products" => l # None,
         NEW q, NEW k \in Nat \ {0}, NEW d \in Nat \ {0}, NEW p, p.page = k, p.limit = d,
         NEW f, f = Found(route, table, l, q)
  PROVE  /\ Reply(l, q, p).items \in Seq(DOMAIN table)
         /\ IsInjective(Reply(l, q, p).items) /\ Len(Reply(l, q, p).items) <= d
         /\ ToSet(Reply(l, q, p).items) = Turned(f, q, k, d)
         /\ LastPage(l, q, p) = Ceil(Len(f), d)
<1> DEFINE page == Page(f, p)
           S == {i \in DOMAIN page : table[page[i]].deleted = q.deleted}
<1>1. f \in Seq(DOMAIN table) /\ IsInjective(f)
  BY FoundFacts
<1>2. /\ page \in Seq(DOMAIN table) /\ IsInjective(page) /\ Len(page) <= d
      /\ ToSet(page) = Upto(f, k * d) \ Upto(f, (k - 1) * d)
  BY <1>1, PageFacts
<1>3. CASE route = "products"
  <2>1. f = FilterProducts(table, l, q)
    BY <1>3 DEF Found
  <2>2. Reply(l, q, p).items = page /\ LastPage(l, q, p) = Ceil(Len(f), d)
    BY <1>3, <2>1 DEF Reply, LastPage, GetAllProducts, Answer
  <2> HIDE DEF page
  <2> QED BY <1>2, <1>3, <2>2 DEF Turned
<1>4. CASE route = "permissions"
  <2>1. f = Matching(table, q)
    BY <1>4 DEF Found
  <2>2. Reply(l, q, p).items = page /\ LastPage(l, q, p) = Ceil(Len(f), d)
    BY <1>4, <2>1 DEF Reply, LastPage, GetPermissions, HandlePaginate, Answer
  <2> HIDE DEF page
  <2> QED BY <1>2, <1>4, <2>2 DEF Turned
<1>5. CASE route = "users"
  <2>1. f = Matching(table, q)
    BY <1>5 DEF Found
  <2>2. Reply(l, q, p).items = Selected(page, S) /\ LastPage(l, q, p) = Ceil(Len(f), d)
    BY <1>5, <2>1 DEF Reply, LastPage, GetUsers, HandlePaginate, Answer
  <2>3. S \in SUBSET DOMAIN page
    OBVIOUS
  <2>4. {page[i] : i \in S} = {id \in ToSet(page) : table[id].deleted = q.deleted}
    BY DEF ToSet
  <2> HIDE DEF page, S
  <2>5. /\ Selected(page, S) \in Seq(DOMAIN table) /\ IsInjective(Selected(page, S))
        /\ Len(Selected(page, S)) = Cardinality(S)
        /\ ToSet(Selected(page, S)) = {page[i] : i \in S}
    BY <1>2, <2>3, SelectedOf
  <2>6. Cardinality(S) <= d
    <3>1. DOMAIN page = 1 .. Len(page) /\ Len(page) \in Nat
      BY <1>2, SeqFacts
    <3>2. IsFiniteSet(1 .. Len(page)) /\ Cardinality(1 .. Len(page)) = Len(page)
      BY <3>1, Interval
    <3>3. /\ Cardinality(S) <= Cardinality(1 .. Len(page))
          /\ Cardinality(S) \in Nat
      BY <2>3, <3>1, <3>2, Fewer
    <3> QED BY <1>2, <3>1, <3>2, <3>3
  <2> QED BY <1>2, <1>5, <2>2, <2>4, <2>5, <2>6 DEF Turned
<1> QED BY <1>3, <1>4, <1>5 DEF Tabled, Routes

-----------------------------------------------------------------------------
(* What the writers do to the table and the cached list.                   *)

LEMMA Appended ==
  ASSUME NEW T, NEW l \in Seq(T), IsInjective(l), NEW z \in T, z \notin ToSet(l)
  PROVE  /\ Append(l, z) \in Seq(T) /\ IsInjective(Append(l, z))
         /\ ToSet(Append(l, z)) = ToSet(l) \cup {z}
         /\ \A x, y \in ToSet(l) : Before(l, x, y) <=> Before(Append(l, z), x, y)
         /\ \A x \in ToSet(l) : ~Before(Append(l, z), z, x)
<1> DEFINE k == Append(l, z)
<1>1. Len(l) \in Nat /\ DOMAIN l = 1 .. Len(l) /\ \A i \in DOMAIN l : l[i] \in ToSet(l)
  BY SeqFacts
<1>2. /\ k \in Seq(T) /\ Len(k) = Len(l) + 1
      /\ \A i \in 1 .. Len(l) : k[i] = l[i]
      /\ k[Len(l) + 1] = z
  BY AppendProperties
<1> HIDE DEF k
<1>3. DOMAIN k = 1 .. Len(l) + 1
  BY <1>2, SeqFacts
<1>4. /\ \A i \in DOMAIN k : (i \in DOMAIN l /\ k[i] = l[i]) \/ (i = Len(l) + 1 /\ k[i] = z)
      /\ \A i \in DOMAIN l : i \in DOMAIN k /\ k[i] = l[i] /\ i < Len(l) + 1
      /\ Len(l) + 1 \in DOMAIN k
  <2>1. ASSUME NEW i \in DOMAIN k
        PROVE  (i \in DOMAIN l /\ k[i] = l[i]) \/ (i = Len(l) + 1 /\ k[i] = z)
    <3>1. i \in 1 .. Len(l) \/ i = Len(l) + 1
      BY <1>1, <1>3
    <3> QED BY <1>1, <1>2, <3>1
  <2>2. ASSUME NEW i \in DOMAIN l
        PROVE  i \in DOMAIN k /\ k[i] = l[i] /\ i < Len(l) + 1
    BY <1>1, <1>2, <1>3
  <2>3. Len(l) + 1 \in DOMAIN k
    BY <1>1, <1>3
  <2> QED BY <2>1, <2>2, <2>3
<1>5. IsInjective(k)
  BY <1>1, <1>4 DEF IsInjective
<1>6. ToSet(k) = ToSet(l) \cup {z}
  <2>1. ASSUME NEW x \in ToSet(k) PROVE x \in ToSet(l) \cup {z}
    BY <1>1, <1>4 DEF ToSet
  <2>2. ASSUME NEW x \in ToSet(l) \cup {z} PROVE x \in ToSet(k)
    BY <1>2, <1>4 DEF ToSet
  <2> QED BY <2>1, <2>2
<1>7. ASSUME NEW x \in ToSet(l), NEW y \in ToSet(l) PROVE Before(l, x, y) <=> Before(k, x, y)
  <2>1. ASSUME Before(l, x, y) PROVE Before(k, x, y)
    <3>1. PICK i \in DOMAIN l, j \in DOMAIN l : i <= j /\ l[i] = x /\ l[j] = y
      BY <2>1 DEF Before
    <3>2. i \in DOMAIN k /\ j \in DOMAIN k /\ k[i] = x /\ k[j] = y
      BY <1>4, <3>1
    <3> QED BY <3>1, <3>2 DEF Before
  <2>2. ASSUME Before(k, x, y) PROVE Before(l, x, y)
    <3>1. PICK i \in DOMAIN k, j \in DOMAIN k : i <= j /\ k[i] = x /\ k[j] = y
      BY <2>2 DEF Before
    <3>2. i \in DOMAIN l /\ j \in DOMAIN l /\ l[i] = x /\ l[j] = y
      BY <1>4, <3>1
    <3> QED BY <3>1, <3>2 DEF Before
  <2> QED BY <2>1, <2>2
<1>8. ASSUME NEW x \in ToSet(l), Before(k, z, x) PROVE FALSE
  <2>1. PICK i \in DOMAIN k, j \in DOMAIN k : i <= j /\ k[i] = z /\ k[j] = x
    BY <1>8 DEF Before
  <2>2. i = Len(l) + 1
    BY <1>1, <1>4, <2>1
  <2>3. j \in DOMAIN l /\ j < Len(l) + 1 /\ j \in Nat
    BY <1>1, <1>4, <2>1
  <2> QED BY <1>1, <2>1, <2>2, <2>3
<1> QED BY <1>2, <1>5, <1>6, <1>7, <1>8 DEF k

LEMMA Dropped ==
  ASSUME NEW T, NEW l \in Seq(T), IsInjective(l), NEW z
  PROVE  /\ DropEntry(l, z) \in Seq(T \ {z}) /\ IsInjective(DropEntry(l, z))
         /\ ToSet(DropEntry(l, z)) = ToSet(l) \ {z}
         /\ \A x, y \in ToSet(DropEntry(l, z)) : Before(l, x, y) <=> Before(DropEntry(l, z), x, y)
<1> DEFINE S == {i \in DOMAIN l : l[i] # z}
           k == DropEntry(l, z)
<1>1. S \in SUBSET DOMAIN l /\ k = Selected(l, S)
  BY DEF DropEntry
<1>2. {l[i] : i \in S} = ToSet(l) \ {z}
  BY DEF ToSet
<1> HIDE DEF S, k
<1>3. /\ k \in Seq(T) /\ IsInjective(k) /\ ToSet(k) = ToSet(l) \ {z}
      /\ \A x, y \in ToSet(k) : Before(l, x, y) <=> Before(k, x, y)
  BY <1>1, <1>2, SelectedOf
<1>4. k \in Seq(T \ {z})
  <2>1. Len(k) \in Nat /\ DOMAIN k = 1 .. Len(k) /\ \A i \in DOMAIN k : k[i] \in ToSet(k) /\ k[i] \in T
    BY <1>3, SeqFacts
  <2>2. \A i \in 1 .. Len(k) : k[i] \in T \ {z}
    BY <1>3, <2>1
  <2> QED BY <1>3, <2>1, <2>2, IsASeq
<1> QED BY <1>3, <1>4 DEF k

(* A list of live rows is a list of rows. *)
LEMMA TypedList ==
  ASSUME TypeOK
  PROVE  /\ Tabled(route, table, list)
         /\ list # None => route = "products" /\ list \in Seq(Live) /\ ToSet(list) \subseteq Live
<1>1. list # None => list \in Seq(DOMAIN table)
  <2>1. Live \subseteq DOMAIN table
    BY DEF Live
  <2> QED BY <2>1, SeqMonotonic DEF TypeOK
<1>2. list # None => ToSet(list) \subseteq Live
  BY SeqFacts DEF TypeOK
<1> QED BY <1>1, <1>2 DEF TypeOK, Tabled

(* An edit of the row z. *)
Edited(z, A) ==
    /\ table' \in Seq(RowsOf(route)) /\ Len(table') <= MaxRows
    /\ DOMAIN table \subseteq DOMAIN table'
    /\ \A id \in DOMAIN table \ {z} : table'[id] = table[id]
    /\ list' # None => route = "products" /\ list' \in Seq(Live') /\ IsInjective(list')
    /\ Live' \cap DOMAIN table \subseteq Live
    /\ route = "products" /\ list # None =>
          /\ list' # None
          /\ ToSet(list) \cap Live' \subseteq ToSet(list')
    /\ (route = "products" => list # None) =>
          /\ \A id : id # z =>
                (id \in Listed(route, table, list) <=> id \in Listed(route, table', list'))
          /\ \A x, y \in Listed(route, table, list) \cap Listed(route, table', list') :
                Ordered(route, list, x, y) <=> Ordered(route, list', x, y)
          /\ \/ A = {}
             \/ /\ A = {z} /\ z \notin Listed(route, table, list)
                /\ z \notin DOMAIN table \/ (route = "products" /\ z \in Live)
                /\ \A x \in Listed(route, table, list) : ~Ordered(route, list', z, x)

(* Rows are appended to the table and the cached list. *)
LEMMA CreateEdits ==
  ASSUME ListingAssumption, TypeOK, CreateRow
  PROVE  Edited(Len(table'), {Len(table')})
<1> DEFINE n == Len(table)
<1>1. /\ table \in Seq(RowsOf(route)) /\ n \in Nat /\ DOMAIN table = 1 .. n
      /\ \A i \in DOMAIN table : table[i] \in RowsOf(route)
  BY TableFacts DEF TypeOK
<1>2. PICK x \in RowsOf(route) : ~x.deleted /\ table' = Append(table, x)
  BY DEF CreateRow
<1>3. /\ table' \in Seq(RowsOf(route)) /\ Len(table') = n + 1
      /\ \A i \in 1 .. n : table'[i] = table[i]
      /\ table'[n + 1] = x
  BY <1>1, <1>2, AppendProperties
<1> HIDE DEF n
<1>4. DOMAIN table' = 1 .. n + 1
  BY <1>3, SeqFacts
<1>5. PICK z : z = n + 1
  OBVIOUS
<1>6. /\ z \in Nat /\ z \notin DOMAIN table /\ DOMAIN table' = DOMAIN table \cup {z}
      /\ Len(table') = z /\ \A i \in DOMAIN table : table'[i] = table[i] /\ i \in Nat /\ i < z
      /\ ~table'[z].deleted
  BY <1>1, <1>2, <1>3, <1>4, <1>5
<1>7. Live' = Live \cup {z}
  BY <1>6 DEF Live
<1>8. z \notin Live /\ Live \subseteq DOMAIN table
  BY <1>6 DEF Live
<1>9. Len(table') <= MaxRows
  BY <1>1, <1>3 DEF CreateRow, ListingAssumption, n
<1>10. CASE route # "products"
  <2>1. list = None /\ list' = None
    BY <1>10 DEF TypeOK, CreateRow
  <2>2. /\ Listed(route, table, list) = DOMAIN table
        /\ Listed(route, table', list') = DOMAIN table'
        /\ \A a, b : Ordered(route, list, a, b) <=> a <= b
        /\ \A a, b : Ordered(route, list', a, b) <=> a <= b
    BY <1>10 DEF Listed, Ordered
  <2>3. \A a \in DOMAIN table : ~(z <= a)
    BY <1>6
  <2>4. /\ table' \in Seq(RowsOf(route)) /\ DOMAIN table \subseteq DOMAIN table'
        /\ \A id \in DOMAIN table \ {z} : table'[id] = table[id]
        /\ Live' \cap DOMAIN table \subseteq Live
    BY <1>3, <1>6, <1>7
  <2> QED BY <1>6, <1>9, <1>10, <2>1, <2>2, <2>3, <2>4 DEF Edited
<1>11. CASE route = "products"
  <2>1. Cached \in Seq(Live') /\ IsInjective(Cached) /\ ToSet(Cached) \subseteq Live
    <3>1. CASE list = None
      <4>1. Cached = <<>> /\ DOMAIN <<>> = {} /\ <<>> \in Seq(Live')
        BY <3>1 DEF Cached
      <4> QED BY <4>1 DEF IsInjective, ToSet
    <3>2. CASE list # None
      <4>1. Cached = list /\ list \in Seq(Live) /\ IsInjective(list) /\ ToSet(list) \subseteq Live
        BY <3>2, TypedList DEF Cached, TypeOK
      <4>2. Live \subseteq Live'
        BY <1>7
      <4> QED BY <4>1, <4>2, SeqMonotonic
    <3> QED BY <3>1, <3>2
  <2>2. list' = Append(Cached, z) /\ z \in Live' /\ z \notin ToSet(Cached)
    BY <1>6, <1>7, <1>8, <1>11, <2>1 DEF CreateRow
  <2>3. /\ list' \in Seq(Live') /\ IsInjective(list') /\ ToSet(list') = ToSet(Cached) \cup {z}
        /\ \A a, b \in ToSet(Cached) : Before(Cached, a, b) <=> Before(list', a, b)
        /\ \A a \in ToSet(Cached) : ~Before(list', z, a)
    BY <2>1, <2>2, Appended
  <2>4. list' # None
    <3>1. Live' \subseteq Nat
      BY <1>4 DEF Live
    <3>2. list' \in Seq(Nat)
      BY <2>3, <3>1, SeqMonotonic
    <3> QED BY <3>2 DEF ListingAssumption
  <2>5. ASSUME list # None
        PROVE  /\ Cached = list
               /\ Listed(route, table, list) = ToSet(list)
               /\ Listed(route, table', list') = ToSet(list')
               /\ \A a, b : Ordered(route, list, a, b) <=> Before(list, a, b)
               /\ \A a, b : Ordered(route, list', a, b) <=> Before(list', a, b)
    BY <1>11, <2>4, <2>5 DEF Listed, Ordered, Cached
  <2>6. /\ table' \in Seq(RowsOf(route)) /\ DOMAIN table \subseteq DOMAIN table'
        /\ \A id \in DOMAIN table \ {z} : table'[id] = table[id]
        /\ Live' \cap DOMAIN table \subseteq Live
    BY <1>3, <1>6, <1>7
  <2>7. list # None =>
          /\ ToSet(list) \cap Live' \subseteq ToSet(list')
          /\ \A id : id # z =>
                (id \in Listed(route, table, list) <=> id \in Listed(route, table', list'))
          /\ \A a, b \in Listed(route, table, list) \cap Listed(route, table', list') :
                Ordered(route, list, a, b) <=> Ordered(route, list', a, b)
          /\ z \notin Listed(route, table, list)
          /\ \A a \in Listed(route, table, list) : ~Ordered(route, list', z, a)
    BY <2>2, <2>3, <2>5
  <2> QED BY <1>6, <1>9, <1>11, <2>3, <2>4, <2>6, <2>7 DEF Edited
<1> QED BY <1>10, <1>11

(* A row is replaced, or deleted: its place stays. *)
LEMMA RowReplaced ==
  ASSUME TypeOK, NEW z \in DOMAIN table, NEW x \in RowsOf(route),
         table' = [table EXCEPT ![z] = x]
  PROVE  /\ table' \in Seq(RowsOf(route)) /\ Len(table') = Len(table)
         /\ DOMAIN table' = DOMAIN table /\ table'[z] = x
         /\ \A id \in DOMAIN table \ {z} : table'[id] = table[id]
<1>1. table \in Seq(RowsOf(route)) /\ DOMAIN table = 1 .. Len(table)
  BY TableFacts DEF TypeOK
<1>2. table' \in Seq(RowsOf(route)) /\ Len(table') = Len(table)
  BY <1>1, ExceptSeq
<1> QED BY <1>2

LEMMA EditEdits ==
  ASSUME ListingAssumption, TypeOK, EditRow
  PROVE  \E z : Edited(z, {})
<1>1. PICK z \in Live, x \in RowsOf(route) : ~x.deleted /\ table' = [table EXCEPT ![z] = x]
  BY DEF EditRow
<1>2. z \in DOMAIN table /\ ~table[z].deleted
  BY DEF Live
<1>3. /\ table' \in Seq(RowsOf(route)) /\ Len(table') = Len(table)
      /\ DOMAIN table' = DOMAIN table /\ table'[z] = x
      /\ \A id \in DOMAIN table \ {z} : table'[id] = table[id]
  BY <1>1, <1>2, RowReplaced
<1>4. Live' = Live
  BY <1>1, <1>2, <1>3 DEF Live
<1>5. list' = list
  BY DEF EditRow
<1>6. /\ Listed(route, table', list') = Listed(route, table, list)
      /\ \A a, b : Ordered(route, list', a, b) <=> Ordered(route, list, a, b)
  BY <1>3, <1>5 DEF Listed
<1>7. Edited(z, {})
  BY <1>3, <1>4, <1>5, <1>6 DEF Edited, TypeOK
<1> QED BY <1>7

LEMMA DeleteEdits ==
  ASSUME ListingAssumption, TypeOK, DeleteRow
  PROVE  \E z : Edited(z, {})
<1>1. PICK z \in Live : /\ table' = [table EXCEPT ![z].deleted = TRUE]
                        /\ list' = IF list = None THEN list ELSE DropEntry(list, z)
  BY DEF DeleteRow
<1>2. z \in DOMAIN table /\ table[z] \in RowsOf(route)
  BY TableFacts DEF Live, TypeOK
<1>3. PICK x : x = [table[z] EXCEPT !.deleted = TRUE]
  OBVIOUS
<1>4. x \in RowsOf(route) /\ x.deleted
  BY <1>2, <1>3 DEF RowsOf, Row, DeleteRow
<1>5. table' = [table EXCEPT ![z] = x]
  BY <1>1, <1>3
<1>6. /\ table' \in Seq(RowsOf(route)) /\ Len(table') = Len(table)
      /\ DOMAIN table' = DOMAIN table /\ table'[z] = x
      /\ \A id \in DOMAIN table \ {z} : table'[id] = table[id]
  BY <1>2, <1>4, <1>5, RowReplaced
<1>7. Live' = Live \ {z}
  BY <1>4, <1>6 DEF Live
<1>8. CASE list = None
  <2>1. list' = None
    BY <1>1, <1>8
  <2>2. (route = "products" => list # None) =>
          /\ Listed(route, table', list') = Listed(route, table, list)
          /\ \A a, b : Ordered(route, list', a, b) <=> Ordered(route, list, a, b)
    BY <1>6, <1>8, <2>1 DEF Listed, Ordered
  <2> QED BY <1>6, <1>7, <1>8, <2>1, <2>2 DEF Edited, TypeOK
<1>9. CASE list # None
  <2>1. route = "products" /\ list \in Seq(Live) /\ IsInjective(list) /\ list' = DropEntry(list, z)
    BY <1>1, <1>9, TypedList DEF TypeOK
  <2>2. /\ list' \in Seq(Live \ {z}) /\ IsInjective(list') /\ ToSet(list') = ToSet(list) \ {z}
        /\ \A a, b \in ToSet(list') : Before(list, a, b) <=> Before(list', a, b)
    BY <2>1, Dropped
  <2>3. list' # None
    <3>1. Live \ {z} \subseteq Nat
      BY TableFacts DEF Live, TypeOK
    <3>2. list' \in Seq(Nat)
      BY <2>2, <3>1, SeqMonotonic
    <3> QED BY <3>2 DEF ListingAssumption
  <2>4. /\ Listed(route, table, list) = ToSet(list)
        /\ Listed(route, table', list') = ToSet(list')
        /\ \A a, b : Ordered(route, list, a, b) <=> Before(list, a, b)
        /\ \A a, b : Ordered(route, list', a, b) <=> Before(list', a, b)
    BY <1>9, <2>1, <2>3 DEF Listed, Ordered
  <2>5. /\ \A id : id # z =>
              (id \in Listed(route, table, list) <=> id \in Listed(route, table', list'))
        /\ \A a, b \in Listed(route, table, list) \cap Listed(route, table', list') :
              Ordered(route, list, a, b) <=> Ordered(route, list', a, b)
        /\ ToSet(list) \cap Live' \subseteq ToSet(list')
    BY <1>7, <2>2, <2>4
  <2>6. /\ Len(table') <= MaxRows /\ DOMAIN table \subseteq DOMAIN table'
        /\ Live' \cap DOMAIN table \subseteq Live
        /\ list' \in Seq(Live')
    BY <1>6, <1>7, <2>2 DEF TypeOK
  <2> QED BY <1>6, <2>1, <2>2, <2>3, <2>5, <2>6 DEF Edited
<1> QED BY <1>8, <1>9

LEMMA PushEdits ==
  ASSUME ListingAssumption, TypeOK, NEW z \in Live \ ToSet(Cached),
         route = "products", list' = Append(Cached, z), UNCHANGED <<table>>
  PROVE  Edited(z, {z})
<1>1. /\ table' = table /\ Live' = Live /\ Live \subseteq DOMAIN table
      /\ table \in Seq(RowsOf(route)) /\ Len(table) <= MaxRows
  BY DEF Live, TypeOK
<1>2. Cached \in Seq(Live) /\ IsInjective(Cached)
  <2>1. CASE list = None
    <3>1. Cached = <<>> /\ DOMAIN <<>> = {} /\ <<>> \in Seq(Live)
      BY <2>1 DEF Cached
    <3> QED BY <3>1 DEF IsInjective
  <2>2. CASE list # None
    BY <2>2 DEF Cached, TypeOK
  <2> QED BY <2>1, <2>2
<1>3. /\ list' \in Seq(Live) /\ IsInjective(list') /\ ToSet(list') = ToSet(Cached) \cup {z}
      /\ \A a, b \in ToSet(Cached) : Before(Cached, a, b) <=> Before(list', a, b)
      /\ \A a \in ToSet(Cached) : ~Before(list', z, a)
  BY <1>2, Appended
<1>4. list' # None
  <2>1. Live \subseteq Nat
    BY TableFacts DEF Live, TypeOK
  <2>2. list' \in Seq(Nat)
    BY <1>3, <2>1, SeqMonotonic
  <2> QED BY <2>2 DEF ListingAssumption
<1>5. ASSUME list # None
      PROVE  /\ Cached = list
             /\ Listed(route, table, list) = ToSet(list)
             /\ Listed(route, table', list') = ToSet(list')
             /\ \A a, b : Ordered(route, list, a, b) <=> Before(list, a, b)
             /\ \A a, b : Ordered(route, list', a, b) <=> Before(list', a, b)
  BY <1>4, <1>5 DEF Listed, Ordered, Cached
<1>6. list # None =>
        /\ ToSet(list) \cap Live' \subseteq ToSet(list')
        /\ \A id : id # z =>
              (id \in Listed(route, table, list) <=> id \in Listed(route, table', list'))
        /\ \A a, b \in Listed(route, table, list) \cap Listed(route, table', list') :
              Ordered(route, list, a, b) <=> Ordered(route, list', a, b)
        /\ z \notin Listed(route, table, list)
        /\ \A a \in Listed(route, table, list) : ~Ordered(route, list', z, a)
  BY <1>3, <1>5
<1>7. z \in Live
  OBVIOUS
<1> QED BY <1>1, <1>3, <1>4, <1>6, <1>7 DEF Edited

-----------------------------------------------------------------------------
(* Types.                                                                  *)

LEMMA EditedTabled ==
  ASSUME TypeOK, NEW z, NEW A, Edited(z, A)
  PROVE  /\ Tabled(route, table', list')
         /\ DOMAIN table \subseteq DOMAIN table'
         /\ list' # None => ToSet(list') \subseteq Live'
<1>1. list' # None => list' \in Seq(DOMAIN table')
  <2>1. Live' \subseteq DOMAIN table'
    BY DEF Live
  <2> QED BY <2>1, SeqMonotonic DEF Edited
<1>2. list' # None => ToSet(list') \subseteq Live'
  BY SeqFacts DEF Edited
<1> QED BY <1>1, <1>2 DEF TypeOK, Tabled, Edited

(* The list a listing pages over is a list of live rows. *)
LEMMA ListsFacts ==
  ASSUME ListingAssumption, TypeOK, NEW l \in Lists
  PROVE  /\ Tabled(route, table, l)
         /\ l # None => route = "products" /\ l \in Seq(Live) /\ IsInjective(l) /\ ToSet(l) \subseteq Live
         /\ route = "products" => l # None
<1>1. l # None => route = "products" /\ l \in Seq(Live) /\ IsInjective(l)
  <2>1. CASE l = list
    BY <2>1 DEF TypeOK
  <2>2. CASE route = "products" /\ l \in SetToSeqs(Live)
    <3>1. IsFiniteSet(Live)
      <4>1. IsFiniteSet(1 .. Len(table)) /\ Live \subseteq 1 .. Len(table)
        BY TableFacts, Interval DEF Live, TypeOK
      <4> QED BY <4>1, Fewer
    <3>2. Cardinality(Live) \in Nat
      BY <3>1, FS_CardinalityType
    <3>3. /\ l \in [1 .. Cardinality(Live) -> Live]
          /\ \A i, j \in 1 .. Cardinality(Live) : i # j => l[i] # l[j]
      BY <2>2 DEF SetToSeqs
    <3>4. l \in Seq(Live)
      BY <3>2, <3>3, SeqDef
    <3>5. IsInjective(l)
      BY <3>3 DEF IsInjective
    <3> QED BY <2>2, <3>4, <3>5
  <2> QED BY <2>1, <2>2 DEF Lists
<1>2. route = "products" => l # None
  <2>1. None \notin SetToSeqs(Live)
    <3>1. IsFiniteSet(Live)
      <4>1. IsFiniteSet(1 .. Len(table)) /\ Live \subseteq 1 .. Len(table)
        BY TableFacts, Interval DEF Live, TypeOK
      <4> QED BY <4>1, Fewer
    <3>2. Cardinality(Live) \in Nat
      BY <3>1, FS_CardinalityType
    <3>3. SetToSeqs(Live) \subseteq [1 .. Cardinality(Live) -> Live]
      BY DEF SetToSeqs
    <3>4. SetToSeqs(Live) \subseteq Seq(Live)
      BY <3>2, <3>3, SeqDef
    <3>5. Seq(Live) \subseteq Seq(Nat)
      <4>1. Live \subseteq Nat
        BY TableFacts DEF Live, TypeOK
      <4> QED BY <4>1, SeqMonotonic
    <3> QED BY <3>4, <3>5 DEF ListingAssumption
  <2> QED BY <2>1 DEF Lists
<1>3. l # None => l \in Seq(DOMAIN table)
  <2>1. Live \subseteq DOMAIN table
    BY DEF Live
  <2> QED BY <1>1, <2>1, SeqMonotonic
<1>4. l # None => ToSet(l) \subseteq Live
  BY <1>1, SeqFacts
<1> QED BY <1>1, <1>2, <1>3, <1>4 DEF Tabled, TypeOK

LEMMA WalkFields ==
  ASSUME TypeOK, walk # None
  PROVE  /\ walk.query \in QueriesOf(route) /\ walk.limit \in Limits
         /\ walk.next \in Nat \ {0} /\ walk.last \in Nat
         /\ walk.shown \in Seq(DOMAIN table) /\ walk.stay \in SUBSET DOMAIN table
         /\ walk.gained \in Nat /\ walk.lost \in Nat /\ walk.mixed \in BOOLEAN
         /\ walk = [query |-> walk.query, limit |-> walk.limit, next |-> walk.next,
                    last |-> walk.last, shown |-> walk.shown, stay |-> walk.stay,
                    gained |-> walk.gained, lost |-> walk.lost, mixed |-> walk.mixed]
  BY DEF TypeOK, Walks

LEMMA VisibleRows ==
  ASSUME NEW r, NEW t, NEW l, Tabled(r, t, l), NEW q
  PROVE  Visible(r, t, l, q) \subseteq Listed(r, t, l) /\ Listed(r, t, l) \subseteq DOMAIN t
<1>1. l # None => ToSet(l) \subseteq DOMAIN t
  BY SeqFacts DEF Tabled
<1> QED BY <1>1 DEF Visible, Listed

(* What an edit does to a reader. *)
LEMMA WatchFacts ==
  ASSUME TypeOK, NEW z, NEW A, Edited(z, A), Watch(A), walk # None,
         NEW before, before = ToSet(Found(route, table, list, walk.query)),
         NEW after, after = ToSet(Found(route, table', list', walk.query))
  PROVE  /\ walk' = [walk EXCEPT
                !.stay = walk.stay \cap Visible(route, table', list', walk.query),
                !.gained = walk.gained + Cardinality(after \ (before \cup A)),
                !.lost = walk.lost + Cardinality(before \ after)]
         /\ walk'.query = walk.query /\ walk'.limit = walk.limit
         /\ walk'.next = walk.next /\ walk'.last = walk.last
         /\ walk'.shown = walk.shown /\ walk'.mixed = walk.mixed
         /\ walk'.stay = walk.stay \cap Visible(route, table', list', walk.query)
         /\ walk'.gained = walk.gained + Cardinality(after \ (before \cup A))
         /\ walk'.lost = walk.lost + Cardinality(before \ after)
         /\ Cardinality(after \ (before \cup A)) \in Nat
         /\ Cardinality(before \ after) \in Nat
         /\ walk' \in [query : QueriesOf(route), limit : Limits, next : Nat \ {0}, last : Nat,
                       shown : Seq(DOMAIN table'), stay : SUBSET DOMAIN table',
                       gained : Nat, lost : Nat, mixed : BOOLEAN]
<1>1. walk' = [walk EXCEPT
                !.stay = walk.stay \cap Visible(route, table', list', walk.query),
                !.gained = walk.gained + Cardinality(after \ (before \cup A)),
                !.lost = walk.lost + Cardinality(before \ after)]
  BY DEF Watch
<1>2. Cardinality(after \ (before \cup A)) \in Nat /\ Cardinality(before \ after) \in Nat
  <2>1. IsFiniteSet(before) /\ IsFiniteSet(after)
    BY TypedList, EditedTabled, FoundFacts, CountedAll
  <2>2. after \ (before \cup A) \subseteq after /\ before \ after \subseteq before
    OBVIOUS
  <2> QED BY <2>1, <2>2, Fewer
<1>3. PICK s, g, e : /\ s = walk.stay \cap Visible(route, table', list', walk.query)
                     /\ g = walk.gained + Cardinality(after \ (before \cup A))
                     /\ e = walk.lost + Cardinality(before \ after)
  OBVIOUS
<1>4. walk' = [query |-> walk.query, limit |-> walk.limit, next |-> walk.next,
               last |-> walk.last, shown |-> walk.shown, stay |-> s,
               gained |-> g, lost |-> e, mixed |-> walk.mixed]
  BY <1>1, <1>3, WalkFields
<1>5. s \in SUBSET DOMAIN table' /\ g \in Nat /\ e \in Nat
  <2>1. Visible(route, table', list', walk.query) \subseteq DOMAIN table'
    BY EditedTabled, VisibleRows
  <2> QED BY <1>2, <1>3, <2>1, WalkFields
<1>6. walk.shown \in Seq(DOMAIN table')
  BY EditedTabled, WalkFields, SeqMonotonic
<1>7. walk' \in [query : QueriesOf(route), limit : Limits, next : Nat \ {0}, last : Nat,
                 shown : Seq(DOMAIN table'), stay : SUBSET DOMAIN table',
                 gained : Nat, lost : Nat, mixed : BOOLEAN]
  BY <1>4, <1>5, <1>6, WalkFields
<1> QED BY <1>1, <1>2, <1>3, <1>4, <1>7

LEMMA EditTyped ==
  ASSUME ListingAssumption, TypeOK, NEW z, NEW A, Edited(z, A), Watch(A)
  PROVE  TypeOK'
<1>1. route' = route /\ edits' \in 0 .. MaxEdits
  BY DEF TypeOK, Watch, ListingAssumption
<1>2. walk' \in Walks' \cup {None}
  <2>1. CASE walk = None
    BY <2>1 DEF Watch
  <2>2. CASE walk # None
    BY <1>1, <2>2, WatchFacts DEF Walks
  <2> QED BY <2>1, <2>2
<1> QED BY <1>1, <1>2 DEF TypeOK, Edited

(* Every writer but the expiry of the list edits one row. *)
LEMMA WritersEdit ==
  ASSUME ListingAssumption, TypeOK, CreateRow \/ EditRow \/ DeleteRow \/ PushEntry
  PROVE  \E z, A : Edited(z, A) /\ Watch(A)
<1>1. CASE CreateRow
  BY <1>1, CreateEdits DEF CreateRow
<1>2. CASE EditRow
  BY <1>2, EditEdits DEF EditRow
<1>3. CASE DeleteRow
  BY <1>3, DeleteEdits DEF DeleteRow
<1>4. CASE PushEntry
  <2>1. PICK z \in Live \ ToSet(Cached) : /\ list' = Append(Cached, z)
                                         /\ UNCHANGED table
                                         /\ Watch({z})
    BY <1>4 DEF PushEntry
  <2>2. Edited(z, {z})
    BY <1>4, <2>1, PushEdits DEF PushEntry
  <2> QED BY <2>1, <2>2
<1> QED BY <1>1, <1>2, <1>3, <1>4


-----------------------------------------------------------------------------
(* What the reader does.                                                   *)

(* items is page k of what there is to be shown, and no page is left when  *)
(* k is not before the last.                                               *)
IsPage(l, q, limit, k, items, last) ==
    /\ items \in Seq(DOMAIN table) /\ IsInjective(items) /\ Len(items) <= PageSize(limit)
    /\ ToSet(items) = Turned(Found(route, table, l, q), q, k, PageSize(limit))
    /\ last \in Nat
    /\ k + 1 > last => Len(Found(route, table, l, q)) <= k * PageSize(limit)

LEMMA AskedReply ==
  ASSUME ListingAssumption, TypeOK, NEW l \in Lists, NEW q, NEW limit \in Limits,
         NEW k \in Nat \ {0}, NEW ask \in Asks(k, limit)
  PROVE  IsPage(l, q, limit, k, Reply(l, q, PaginationParams(ask)).items,
                LastPage(l, q, PaginationParams(ask)))
<1>1. PICK d, p, f : /\ d = PageSize(limit) /\ p = PaginationParams(ask)
                     /\ f = Found(route, table, l, q)
  OBVIOUS
<1>2. d \in Nat \ {0}
  BY <1>1, PageSizes
<1>3. p.page = k /\ p.limit = d
  BY <1>1, AskedPage
<1>4. Tabled(route, table, l) /\ (route = "products" => l # None)
  BY ListsFacts
<1>5. /\ Reply(l, q, p).items \in Seq(DOMAIN table)
      /\ IsInjective(Reply(l, q, p).items) /\ Len(Reply(l, q, p).items) <= d
      /\ ToSet(Reply(l, q, p).items) = Turned(f, q, k, d)
      /\ LastPage(l, q, p) = Ceil(Len(f), d)
  <2>1. f = Found(route, table, l, q)
    BY <1>1
  <2>2. Reply(l, q, p).items \in Seq(DOMAIN table) /\ LastPage(l, q, p) = Ceil(Len(f), d)
    BY <1>2, <1>3, <1>4, <2>1, ReplyFacts
  <2>3. IsInjective(Reply(l, q, p).items)
    BY <1>2, <1>3, <1>4, <2>1, ReplyFacts
  <2>4. Len(Reply(l, q, p).items) <= d
    BY <1>2, <1>3, <1>4, <2>1, ReplyFacts
  <2>5. ToSet(Reply(l, q, p).items) = Turned(f, q, k, d)
    BY <1>2, <1>3, <1>4, <2>1, ReplyFacts
  <2> QED BY <2>2, <2>3, <2>4, <2>5
<1>6. Len(f) \in Nat
  BY <1>1, <1>4, FoundFacts, SeqFacts
<1>7. Ceil(Len(f), d) \in Nat /\ Len(f) <= Ceil(Len(f), d) * d
  BY <1>2, <1>6, CeilIsEnough
<1>8. k + 1 > Ceil(Len(f), d) => Len(f) <= k * d
  <2> HAVE k + 1 > Ceil(Len(f), d)
  <2>1. PICK c \in Nat : c = Ceil(Len(f), d)
    BY <1>7
  <2>2. c <= k /\ k \in Nat /\ d \in Nat
    BY <1>2, <2>1
  <2>3. c * d <= k * d
    BY <2>2, Grows
  <2>4. c * d \in Nat /\ k * d \in Nat
    BY <2>2, Product
  <2> QED BY <1>6, <1>7, <2>1, <2>3, <2>4
<1> QED BY <1>1, <1>5, <1>7, <1>8 DEF IsPage

LEMMA Joined ==
  ASSUME NEW T, NEW a \in Seq(T), NEW b \in Seq(T)
  PROVE  /\ a \o b \in Seq(T) /\ Len(a \o b) = Len(a) + Len(b)
         /\ ToSet(a \o b) = ToSet(a) \cup ToSet(b)
<1>1. PICK c : c = a \o b
  OBVIOUS
<1>2. /\ Len(a) \in Nat /\ DOMAIN a = 1 .. Len(a)
      /\ Len(b) \in Nat /\ DOMAIN b = 1 .. Len(b)
  BY SeqFacts
<1>3. /\ c \in Seq(T) /\ Len(c) = Len(a) + Len(b)
      /\ \A i \in 1 .. Len(a) + Len(b) :
            c[i] = IF i <= Len(a) THEN a[i] ELSE b[i - Len(a)]
  BY <1>1, ConcatProperties
<1>4. DOMAIN c = 1 .. Len(a) + Len(b)
  BY <1>3, SeqFacts
<1>5. ASSUME NEW x \in ToSet(c) PROVE x \in ToSet(a) \cup ToSet(b)
  <2>1. PICK i \in 1 .. Len(a) + Len(b) : c[i] = x
    BY <1>4 DEF ToSet
  <2>2. CASE i <= Len(a)
    <3>1. i \in DOMAIN a /\ a[i] = x
      BY <1>2, <1>3, <2>1, <2>2
    <3> QED BY <3>1 DEF ToSet
  <2>3. CASE ~(i <= Len(a))
    <3>1. i - Len(a) \in DOMAIN b /\ b[i - Len(a)] = x
      BY <1>2, <1>3, <2>1, <2>3
    <3> QED BY <3>1 DEF ToSet
  <2> QED BY <2>2, <2>3
<1>6. ASSUME NEW x \in ToSet(a) PROVE x \in ToSet(c)
  <2>1. PICK i \in DOMAIN a : a[i] = x
    BY DEF ToSet
  <2>2. i \in DOMAIN c /\ c[i] = x
    BY <1>2, <1>3, <1>4, <2>1
  <2> QED BY <2>2 DEF ToSet
<1>7. ASSUME NEW x \in ToSet(b) PROVE x \in ToSet(c)
  <2>1. PICK i \in DOMAIN b : b[i] = x
    BY DEF ToSet
  <2>2. /\ Len(a) + i \in 1 .. Len(a) + Len(b) /\ ~(Len(a) + i <= Len(a))
        /\ (Len(a) + i) - Len(a) = i
    BY <1>2
  <2>3. Len(a) + i \in DOMAIN c /\ c[Len(a) + i] = x
    BY <1>3, <1>4, <2>1, <2>2
  <2> QED BY <2>3 DEF ToSet
<1>8. ToSet(c) = ToSet(a) \cup ToSet(b)
  BY <1>5, <1>6, <1>7
<1> QED BY <1>1, <1>3, <1>8

(* The first page. *)
LEMMA FirstFacts ==
  ASSUME ListingAssumption, TypeOK, FirstPage
  PROVE  \E q \in QueriesOf(route), limit \in Limits, l \in Lists : \E items, last :
            /\ walk = None /\ list' = l
            /\ IsPage(l, q, limit, 1, items, last)
            /\ walk' = [query |-> q, limit |-> limit, next |-> 2, last |-> last,
                        shown |-> items, stay |-> Visible(route, table, l, q),
                        gained |-> 0, lost |-> 0, mixed |-> FALSE]
            /\ UNCHANGED <<route, table, edits>>
<1>1. PICK q \in QueriesOf(route), limit \in Limits, l \in Lists : \E ask \in Asks(1, limit) :
          /\ list' = l
          /\ walk' = [query |-> q, limit |-> limit, next |-> 2,
                      last |-> LastPage(l, q, PaginationParams(ask)),
                      shown |-> Reply(l, q, PaginationParams(ask)).items,
                      stay |-> Visible(route, table, l, q),
                      gained |-> 0, lost |-> 0, mixed |-> FALSE]
  BY DEF FirstPage
<1>2. PICK ask \in Asks(1, limit) :
          /\ list' = l
          /\ walk' = [query |-> q, limit |-> limit, next |-> 2,
                      last |-> LastPage(l, q, PaginationParams(ask)),
                      shown |-> Reply(l, q, PaginationParams(ask)).items,
                      stay |-> Visible(route, table, l, q),
                      gained |-> 0, lost |-> 0, mixed |-> FALSE]
  BY <1>1
<1>3. PICK items, last : /\ items = Reply(l, q, PaginationParams(ask)).items
                         /\ last = LastPage(l, q, PaginationParams(ask))
  OBVIOUS
<1>4. IsPage(l, q, limit, 1, items, last)
  <2>1. 1 \in Nat \ {0}
    OBVIOUS
  <2> QED BY <1>3, <2>1, AskedReply
<1>5. /\ walk = None /\ list' = l
      /\ walk' = [query |-> q, limit |-> limit, next |-> 2, last |-> last,
                  shown |-> items, stay |-> Visible(route, table, l, q),
                  gained |-> 0, lost |-> 0, mixed |-> FALSE]
      /\ UNCHANGED <<route, table, edits>>
  BY <1>2, <1>3 DEF FirstPage
<1> QED BY <1>4, <1>5

(* And each that follows. *)
LEMMA NextFacts ==
  ASSUME ListingAssumption, TypeOK, NextPage
  PROVE  \E l \in Lists : \E items, last :
            /\ walk # None /\ list' = l
            /\ IsPage(l, walk.query, walk.limit, walk.next, items, last)
            /\ walk' = [query |-> walk.query, limit |-> walk.limit, next |-> walk.next + 1,
                        last |-> last, shown |-> walk.shown \o items, stay |-> walk.stay,
                        gained |-> walk.gained, lost |-> walk.lost,
                        mixed |-> (walk.mixed \/ l # list)]
            /\ UNCHANGED <<route, table, edits>>
<1>1. PICK l \in Lists, ask \in Asks(walk.next, walk.limit) :
          /\ list' = l
          /\ walk' = [walk EXCEPT !.next = @ + 1,
                      !.last = LastPage(l, walk.query, PaginationParams(ask)),
                      !.shown = @ \o Reply(l, walk.query, PaginationParams(ask)).items,
                      !.mixed = @ \/ l # list]
  BY DEF NextPage
<1>2. PICK items, last : /\ items = Reply(l, walk.query, PaginationParams(ask)).items
                         /\ last = LastPage(l, walk.query, PaginationParams(ask))
  OBVIOUS
<1>3. walk # None
  BY DEF NextPage
<1>4. walk.limit \in Limits /\ walk.next \in Nat \ {0}
  BY <1>3, WalkFields
<1>5. IsPage(l, walk.query, walk.limit, walk.next, items, last)
  BY <1>2, <1>4, AskedReply
<1>6. walk' = [query |-> walk.query, limit |-> walk.limit, next |-> walk.next + 1,
               last |-> last, shown |-> walk.shown \o items, stay |-> walk.stay,
               gained |-> walk.gained, lost |-> walk.lost,
               mixed |-> (walk.mixed \/ l # list)]
  BY <1>1, <1>2, <1>3, WalkFields
<1> QED BY <1>1, <1>3, <1>5, <1>6 DEF NextPage

LEMMA InitTyped ==
  ASSUME ListingAssumption, Init
  PROVE  TypeOK
<1>1. route \in Routes /\ table \in BoundedSeq(RowsOf(route), MaxRows - 1)
      /\ list = None /\ walk = None /\ edits = 0
  BY DEF Init
<1>2. table \in Seq(RowsOf(route)) /\ Len(table) <= MaxRows
  <2>1. PICK n \in 0 .. MaxRows - 1 : table \in [1 .. n -> RowsOf(route)]
    BY <1>1 DEF BoundedSeq, SeqOf
  <2>2. n \in Nat /\ n <= MaxRows
    BY <2>1 DEF ListingAssumption
  <2>3. table \in Seq(RowsOf(route))
    BY <2>1, <2>2, SeqDef
  <2>4. DOMAIN table = 1 .. n
    BY <2>1
  <2>5. Len(table) = n
    BY <2>2, <2>3, <2>4, LenProperties
  <2> QED BY <2>2, <2>3, <2>5
<1>3. 0 \in 0 .. MaxEdits
  BY DEF ListingAssumption
<1> QED BY <1>1, <1>2, <1>3 DEF TypeOK

LEMMA FirstTyped ==
  ASSUME ListingAssumption, TypeOK, FirstPage
  PROVE  TypeOK'
<1>1. PICK q \in QueriesOf(route), limit \in Limits, l \in Lists : \E items, last :
            /\ walk = None /\ list' = l
            /\ IsPage(l, q, limit, 1, items, last)
            /\ walk' = [query |-> q, limit |-> limit, next |-> 2, last |-> last,
                        shown |-> items, stay |-> Visible(route, table, l, q),
                        gained |-> 0, lost |-> 0, mixed |-> FALSE]
            /\ UNCHANGED <<route, table, edits>>
  BY FirstFacts
<1>2. PICK items, last :
            /\ list' = l
            /\ IsPage(l, q, limit, 1, items, last)
            /\ walk' = [query |-> q, limit |-> limit, next |-> 2, last |-> last,
                        shown |-> items, stay |-> Visible(route, table, l, q),
                        gained |-> 0, lost |-> 0, mixed |-> FALSE]
            /\ UNCHANGED <<route, table, edits>>
  BY <1>1
<1>3. PICK s : s = Visible(route, table, l, q)
  OBVIOUS
<1>4. s \in SUBSET DOMAIN table
  BY <1>3, ListsFacts, VisibleRows
<1>5. items \in Seq(DOMAIN table) /\ last \in Nat
  BY <1>2 DEF IsPage
<1>6. walk' \in Walks
  BY <1>2, <1>3, <1>4, <1>5 DEF Walks
<1>7. /\ Walks' = Walks /\ Live' = Live /\ table' = table
      /\ route' = route /\ edits' = edits
  BY <1>2 DEF Walks, Live
<1>8. l # None => route = "products" /\ l \in Seq(Live) /\ IsInjective(l)
  BY ListsFacts
<1> QED BY <1>2, <1>6, <1>7, <1>8 DEF TypeOK

LEMMA NextTyped ==
  ASSUME ListingAssumption, TypeOK, NextPage
  PROVE  TypeOK'
<1>1. PICK l \in Lists : \E items, last :
            /\ walk # None /\ list' = l
            /\ IsPage(l, walk.query, walk.limit, walk.next, items, last)
            /\ walk' = [query |-> walk.query, limit |-> walk.limit, next |-> walk.next + 1,
                        last |-> last, shown |-> walk.shown \o items, stay |-> walk.stay,
                        gained |-> walk.gained, lost |-> walk.lost,
                        mixed |-> (walk.mixed \/ l # list)]
            /\ UNCHANGED <<route, table, edits>>
  BY NextFacts
<1>2. PICK items, last :
            /\ walk # None /\ list' = l
            /\ IsPage(l, walk.query, walk.limit, walk.next, items, last)
            /\ walk' = [query |-> walk.query, limit |-> walk.limit, next |-> walk.next + 1,
                        last |-> last, shown |-> walk.shown \o items, stay |-> walk.stay,
                        gained |-> walk.gained, lost |-> walk.lost,
                        mixed |-> (walk.mixed \/ l # list)]
            /\ UNCHANGED <<route, table, edits>>
  BY <1>1
<1>3. items \in Seq(DOMAIN table) /\ last \in Nat
  BY <1>2 DEF IsPage
<1>4. PICK shown : shown = walk.shown \o items
  OBVIOUS
<1>5. PICK next : next = walk.next + 1
  OBVIOUS
<1>6. PICK mixed : mixed = (walk.mixed \/ l # list)
  OBVIOUS
<1>7. shown \in Seq(DOMAIN table) /\ next \in Nat \ {0} /\ mixed \in BOOLEAN
  <2>1. shown \in Seq(DOMAIN table)
    BY <1>2, <1>3, <1>4, WalkFields, Joined
  <2>2. next \in Nat \ {0}
    BY <1>2, <1>5, WalkFields
  <2>3. mixed \in BOOLEAN
    BY <1>6
  <2> QED BY <2>1, <2>2, <2>3
<1>8. walk' \in Walks
  <2>1. walk' = [query |-> walk.query, limit |-> walk.limit, next |-> next,
                 last |-> last, shown |-> shown, stay |-> walk.stay,
                 gained |-> walk.gained, lost |-> walk.lost, mixed |-> mixed]
    BY <1>2, <1>4, <1>5, <1>6
  <2> QED BY <1>2, <1>3, <1>7, <2>1, WalkFields DEF Walks
<1>9. /\ Walks' = Walks /\ Live' = Live /\ table' = table
      /\ route' = route /\ edits' = edits
  BY <1>2 DEF Walks, Live
<1>10. l # None => route = "products" /\ l \in Seq(Live) /\ IsInjective(l)
  BY ListsFacts
<1> QED BY <1>2, <1>8, <1>9, <1>10 DEF TypeOK

LEMMA ExpiryTyped ==
  ASSUME ListingAssumption, TypeOK, CacheExpires
  PROVE  /\ TypeOK'
         /\ walk # None => walk'.mixed
<1>1. Walks' = Walks /\ UNCHANGED <<route, table, edits>> /\ list' = None
  BY DEF Walks, CacheExpires
<1>2. walk' \in Walks \cup {None} /\ (walk # None => walk'.mixed)
  <2>1. CASE walk = None
    BY <2>1 DEF CacheExpires
  <2>2. CASE walk # None
    BY <2>2 DEF CacheExpires, Walks, TypeOK
  <2> QED BY <2>1, <2>2
<1> QED BY <1>1, <1>2 DEF TypeOK

LEMMA TypeStep ==
  ASSUME ListingAssumption, TypeOK, [Next]_vars
  PROVE  TypeOK'
<1>1. CASE FirstPage
  BY <1>1, FirstTyped
<1>2. CASE NextPage
  BY <1>2, NextTyped
<1>3. CASE CreateRow \/ EditRow \/ DeleteRow \/ PushEntry
  <2>1. PICK z, A : Edited(z, A) /\ Watch(A)
    BY <1>3, WritersEdit
  <2> QED BY <2>1, EditTyped
<1>4. CASE CacheExpires
  BY <1>4, ExpiryTyped
<1>5. CASE UNCHANGED vars
  BY <1>5 DEF vars, TypeOK, Walks, Live
<1> QED BY <1>1, <1>2, <1>3, <1>4, <1>5 DEF Next

(* Whatever is read, written or expires: the rows, the cached list (live   *)
(* products, none of them twice) and what a reader was shown (rows of the  *)
(* table) are what the handlers take them for.                             *)
THEOREM TypeCorrect == Spec => []TypeOK
<1>1. Init => TypeOK
  BY ListingAssumption, InitTyped
<1>2. TypeOK /\ [Next]_vars => TypeOK'
  BY ListingAssumption, TypeStep
<1> QED BY <1>1, <1>2, PTL DEF Spec

-----------------------------------------------------------------------------
(* The bookkeeping of pages.                                               *)

LEMMA Primes ==
  /\ Passed' = (walk'.next - 1) * PageSize(walk'.limit)
  /\ Behind' = Upto(Found(route', table', list', walk'.query), Passed')
  /\ Ahead' = Rest(Found(route', table', list', walk'.query), Passed')
  /\ Visible(route, table, list, walk.query)' = Visible(route', table', list', walk'.query)
  /\ Found(route, table, list, walk.query)' = Found(route', table', list', walk'.query)
  BY DEF Passed, Behind, Ahead, Rest

LEMMA PassedIs ==
  ASSUME ListingAssumption, TypeOK, walk # None
  PROVE  Passed \in Nat
<1>1. walk.next \in Nat \ {0} /\ PageSize(walk.limit) \in Nat
  BY WalkFields, PageSizes
<1>2. walk.next - 1 \in Nat
  BY <1>1
<1> QED BY <1>1, <1>2, Product DEF Passed

(* A word or a category is looked for as the reader means it, if what the  *)
(* code takes for almost a word is one typo away from it.                  *)
Searched == route = "products" => MatchesAreNear

LEMMA WantedIsHit ==
  ASSUME ListingAssumption, Searched, NEW x \in RowsOf(route), NEW q \in QueriesOf(route)
  PROVE  Wanted(route, x, q) <=> Hit(route, x, q) /\ (route = "users" => x.deleted = q.deleted)
<1>1. CASE route # "products"
  BY <1>1 DEF Wanted, Hit
<1>2. CASE route = "products"
  <2>1. x.name \in Words /\ q.search \in Words
    BY DEF RowsOf, Row, QueriesOf, ListingAssumption
  <2>2. (x.name = q.search \/ <<x.name, q.search>> \in AlmostMatches)
            <=> <<x.name, q.search>> \in Near
    BY <1>2, <2>1 DEF Searched, MatchesAreNear
  <2> QED BY <1>2, <2>2 DEF Wanted, Hit, Filtered
<1> QED BY <1>1, <1>2

(* What a reader is to see is among the rows that pages are cut from. *)
LEMMA VisibleIsFound ==
  ASSUME ListingAssumption, Searched, NEW t, NEW l, Tabled(route, t, l),
         NEW q \in QueriesOf(route)
  PROVE  Visible(route, t, l, q) =
            {id \in ToSet(Found(route, t, l, q)) : route = "users" => t[id].deleted = q.deleted}
<1>1. ToSet(Found(route, t, l, q)) = {id \in Listed(route, t, l) : Hit(route, t[id], q)}
  BY FoundFacts
<1>2. \A id \in Listed(route, t, l) : t[id] \in RowsOf(route)
  BY VisibleRows, TableFacts DEF Tabled
<1>3. \A id \in Listed(route, t, l) :
         Wanted(route, t[id], q)
            <=> Hit(route, t[id], q) /\ (route = "users" => t[id].deleted = q.deleted)
  BY <1>2, WantedIsHit
<1> QED BY <1>1, <1>3 DEF Visible

(* The rows of a table can be counted. *)
LEMMA RowsFinite ==
  ASSUME TypeOK, NEW S \in SUBSET DOMAIN table
  PROVE  IsFiniteSet(S) /\ Cardinality(S) \in Nat
<1>1. DOMAIN table = 1 .. Len(table) /\ Len(table) \in Nat
  BY TableFacts DEF TypeOK
<1>2. IsFiniteSet(1 .. Len(table))
  BY <1>1, Interval
<1> QED BY <1>1, <1>2, Fewer

(* An edit is one to the list that pages are cut from. *)
LEMMA EditedFound ==
  ASSUME TypeOK, NEW z, NEW A, Edited(z, A), route' = route,
         route = "products" => list # None,
         NEW q, NEW s, s = Found(route, table, list, q),
         NEW t, t = Found(route, table', list', q)
  PROVE  /\ s \in Seq(DOMAIN table') /\ IsInjective(s)
         /\ t \in Seq(DOMAIN table') /\ IsInjective(t)
         /\ Agree(s, t) /\ ToSet(s) \ {z} = ToSet(t) \ {z}
         /\ \/ A = {}
            \/ A = {z} /\ z \notin ToSet(s) /\ \A x \in ToSet(s) : ~Before(t, z, x)
<1>1. Tabled(route, table, list) /\ Tabled(route, table', list') /\ DOMAIN table \subseteq DOMAIN table'
  BY TypedList, EditedTabled
<1>2. /\ s \in Seq(DOMAIN table) /\ IsInjective(s)
      /\ ToSet(s) = {id \in Listed(route, table, list) : Hit(route, table[id], q)}
      /\ \A x, y \in ToSet(s) : Before(s, x, y) <=> Ordered(route, list, x, y)
  BY <1>1, FoundFacts
<1>3. /\ t \in Seq(DOMAIN table') /\ IsInjective(t)
      /\ ToSet(t) = {id \in Listed(route, table', list') : Hit(route, table'[id], q)}
      /\ \A x, y \in ToSet(t) : Before(t, x, y) <=> Ordered(route, list', x, y)
  BY <1>1, FoundFacts
<1>4. s \in Seq(DOMAIN table')
  BY <1>1, <1>2, SeqMonotonic
<1>5. /\ \A id : id # z =>
              (id \in Listed(route, table, list) <=> id \in Listed(route, table', list'))
      /\ \A x, y \in Listed(route, table, list) \cap Listed(route, table', list') :
            Ordered(route, list, x, y) <=> Ordered(route, list', x, y)
      /\ \/ A = {}
         \/ /\ A = {z} /\ z \notin Listed(route, table, list)
            /\ \A x \in Listed(route, table, list) : ~Ordered(route, list', z, x)
  BY DEF Edited
<1>6. \A id \in DOMAIN table \ {z} : table'[id] = table[id]
  BY DEF Edited
<1>7. Listed(route, table, list) \subseteq DOMAIN table
  BY <1>1, VisibleRows
<1>8. ToSet(s) \ {z} = ToSet(t) \ {z}
  <2>1. \A x : x # z => (x \in ToSet(s) <=> x \in ToSet(t))
    BY <1>2, <1>3, <1>5, <1>6, <1>7
  <2> QED BY <2>1
<1>9. Agree(s, t)
  BY <1>2, <1>3, <1>5 DEF Agree
<1>10. ASSUME A # {}
       PROVE  A = {z} /\ z \notin ToSet(s) /\ \A x \in ToSet(s) : ~Before(t, z, x)
  <2>1. A = {z} /\ z \notin ToSet(s)
    BY <1>2, <1>5, <1>10
  <2>2. ASSUME NEW x \in ToSet(s), Before(t, z, x) PROVE FALSE
    <3>1. z \in ToSet(t) /\ x \in ToSet(t)
      BY <2>2 DEF Before, ToSet
    <3>2. Ordered(route, list', z, x)
      BY <1>3, <2>2, <3>1
    <3>3. x \in Listed(route, table, list)
      BY <1>2
    <3> QED BY <1>5, <1>10, <3>2, <3>3
  <2> QED BY <2>1, <2>2
<1> QED BY <1>2, <1>3, <1>4, <1>8, <1>9, <1>10

(* An edit puts a shown row ahead only if it is counted as gained, and     *)
(* moves a row behind that was not shown only if it is counted as lost.    *)
LEMMA EditKeeps ==
  ASSUME ListingAssumption, TypeOK, RepeatInv, Searched => MissInv,
         NEW z, NEW A, Edited(z, A), Watch(A)
  PROVE  RepeatInv' /\ (Searched => MissInv')
<1> SUFFICES ASSUME walk' # None, ~walk'.mixed
             PROVE  RepeatInv' /\ (Searched => MissInv')
  BY DEF RepeatInv, MissInv
<1>1. walk # None /\ route' = route /\ walk.next <= walk.last
  BY DEF Watch, Reading
<1>2. PICK q, s, t, n, seen :
         /\ q = walk.query /\ n = Passed /\ seen = ToSet(walk.shown)
         /\ s = Found(route, table, list, q) /\ t = Found(route, table', list', q)
  OBVIOUS
<1>3. /\ walk'.query = q /\ walk'.limit = walk.limit
      /\ walk'.next = walk.next /\ walk'.last = walk.last
      /\ walk'.shown = walk.shown /\ walk'.mixed = walk.mixed
      /\ walk'.stay = walk.stay \cap Visible(route, table', list', q)
      /\ walk'.gained = walk.gained + Cardinality(ToSet(t) \ (ToSet(s) \cup A))
      /\ walk'.lost = walk.lost + Cardinality(ToSet(s) \ ToSet(t))
  <2>1. PICK before, after : /\ before = ToSet(Found(route, table, list, walk.query))
                             /\ after = ToSet(Found(route, table', list', walk.query))
    OBVIOUS
  <2>2. before = ToSet(s) /\ after = ToSet(t)
    BY <1>2, <2>1
  <2>3. /\ walk'.query = walk.query /\ walk'.limit = walk.limit
        /\ walk'.next = walk.next /\ walk'.last = walk.last
        /\ walk'.shown = walk.shown
    BY <1>1, <2>1, WatchFacts
  <2>4. walk'.mixed = walk.mixed
    BY <1>1, <2>1, WatchFacts
  <2>5. walk'.stay = walk.stay \cap Visible(route, table', list', walk.query)
    BY <1>1, <2>1, WatchFacts
  <2>6. walk'.gained = walk.gained + Cardinality(after \ (before \cup A))
    <3>1. PICK stay, gained, lost :
             /\ stay = walk.stay \cap Visible(route, table', list', walk.query)
             /\ gained = walk.gained + Cardinality(after \ (before \cup A))
             /\ lost = walk.lost + Cardinality(before \ after)
      OBVIOUS
    <3>2. walk' = [walk EXCEPT !.stay = stay, !.gained = gained, !.lost = lost]
      BY <1>1, <2>1, <3>1 DEF Watch
    <3>3. walk'.gained = gained
      BY <1>1, <3>2, WalkFields
    <3> QED BY <3>1, <3>3
  <2>7. walk'.lost = walk.lost + Cardinality(before \ after)
    BY <1>1, <2>1, WatchFacts
  <2> QED BY <1>2, <2>2, <2>3, <2>4, <2>5, <2>6, <2>7
<1>4. ~walk.mixed
  BY <1>3
<1>5. /\ route = "products" => list # None /\ seen \cap Live \subseteq ToSet(list)
      /\ Len(walk.shown) - Cardinality(seen) + Cardinality(seen \cap Rest(s, n)) <= walk.gained
  BY <1>1, <1>2, <1>4 DEF RepeatInv, Ahead, Behind, Rest
<1>6. /\ s \in Seq(DOMAIN table') /\ IsInjective(s)
      /\ t \in Seq(DOMAIN table') /\ IsInjective(t)
      /\ Agree(s, t) /\ ToSet(s) \ {z} = ToSet(t) \ {z}
      /\ \/ A = {}
         \/ A = {z} /\ z \notin ToSet(s) /\ \A x \in ToSet(s) : ~Before(t, z, x)
  BY <1>1, <1>2, <1>5, EditedFound
<1>7. seen \subseteq DOMAIN table /\ walk.stay \subseteq DOMAIN table
  BY <1>1, <1>2, WalkFields, SeqFacts
<1>8. A \cap seen = {}
  <2>1. CASE A = {}
    BY <2>1
  <2>2. CASE A # {}
    <3>1. /\ A = {z} /\ z \notin Listed(route, table, list)
          /\ z \notin DOMAIN table \/ (route = "products" /\ z \in Live)
      BY <1>5, <2>2 DEF Edited
    <3>2. route = "products" => Listed(route, table, list) = ToSet(list)
      BY <1>5 DEF Listed
    <3>3. z \notin seen
      BY <1>5, <1>7, <3>1, <3>2
    <3> QED BY <3>1, <3>3
  <2> QED BY <2>1, <2>2
<1>9. PICK stay, kept : stay = walk.stay \ seen /\ kept = walk'.stay \ seen
  OBVIOUS
<1>10. IsFiniteSet(seen) /\ Cardinality(seen) \in Nat /\ IsFiniteSet(stay) /\ kept \subseteq stay
  <2>1. stay \in SUBSET DOMAIN table /\ kept \subseteq stay
    BY <1>3, <1>7, <1>9
  <2> QED BY <1>7, <2>1, RowsFinite
<1>11. n \in Nat
  BY <1>1, <1>2, PassedIs
<1>12. PICK gain, loss : /\ gain = Cardinality(ToSet(t) \ (ToSet(s) \cup A))
                         /\ loss = Cardinality(ToSet(s) \ ToSet(t))
  OBVIOUS
<1>13. /\ gain \in Nat /\ loss \in Nat
       /\ Cardinality(seen \cap Rest(t, n)) <= Cardinality(seen \cap Rest(s, n)) + gain
       /\ stay \subseteq ToSet(s) =>
             Cardinality(kept \cap Upto(t, n)) <= Cardinality(stay \cap Upto(s, n)) + loss
  <2>1. /\ Cardinality(ToSet(t) \ (ToSet(s) \cup A)) \in Nat
        /\ Cardinality(ToSet(s) \ ToSet(t)) \in Nat
        /\ Cardinality(seen \cap Rest(t, n))
              <= Cardinality(seen \cap Rest(s, n)) + Cardinality(ToSet(t) \ (ToSet(s) \cup A))
        /\ stay \subseteq ToSet(s) =>
              Cardinality(kept \cap Upto(t, n))
                 <= Cardinality(stay \cap Upto(s, n)) + Cardinality(ToSet(s) \ ToSet(t))
    BY <1>6, <1>8, <1>10, <1>11, Shift
  <2> QED BY <1>12, <2>1
<1>14. /\ Passed' = n
       /\ Behind' = Upto(t, n) /\ Ahead' = Rest(t, n)
       /\ Found(route, table, list, walk.query)' = t
       /\ Visible(route, table, list, walk.query)' = Visible(route, table', list', q)
  <2>1. Passed' = n
    BY <1>2, <1>3, Primes DEF Passed
  <2> QED BY <1>1, <1>2, <1>3, <2>1, Primes
<1>15. /\ walk.gained \in Nat /\ walk.lost \in Nat /\ Len(walk.shown) \in Nat
  BY <1>1, WalkFields, SeqFacts
<1>16. RepeatInv'
  <2>1. route = "products" => list' # None /\ seen \cap Live' \subseteq ToSet(list')
    BY <1>5, <1>7 DEF Edited
  <2>2. Cardinality(seen \cap Rest(t, n)) \in Nat /\ Cardinality(seen \cap Rest(s, n)) \in Nat
    <3>1. seen \cap Rest(t, n) \in SUBSET DOMAIN table /\ seen \cap Rest(s, n) \in SUBSET DOMAIN table
      BY <1>7
    <3> QED BY <3>1, RowsFinite
  <2>3. Len(walk.shown) - Cardinality(seen) + Cardinality(seen \cap Rest(t, n)) <= walk.gained + gain
    BY <1>5, <1>10, <1>13, <1>15, <2>2
  <2>4. ToSet(walk.shown)' = seen
    BY <1>2, <1>3
  <2>5. /\ Len(walk'.shown) - Cardinality(ToSet(walk'.shown))
               + Cardinality(ToSet(walk'.shown) \cap Ahead') <= walk'.gained
    BY <1>2, <1>3, <1>12, <1>14, <2>3
  <2>6. route' = "products" => list' # None /\ ToSet(walk'.shown) \cap Live' \subseteq ToSet(list')
    BY <1>1, <1>2, <1>3, <2>1
  <2> QED BY <2>5, <2>6 DEF RepeatInv
<1>17. ASSUME Searched PROVE MissInv'
  <2>1. /\ walk.stay \subseteq Visible(route, table, list, q)
        /\ Cardinality(stay \cap Upto(s, n)) <= walk.lost
    BY <1>1, <1>2, <1>4, <1>9, <1>17 DEF MissInv, Behind
  <2>2. Visible(route, table, list, q) \subseteq ToSet(s)
    <3>1. q \in QueriesOf(route) /\ Tabled(route, table, list)
      BY <1>1, <1>2, WalkFields, TypedList
    <3>2. Visible(route, table, list, q) =
            {id \in ToSet(Found(route, table, list, q)) :
                route = "users" => table[id].deleted = q.deleted}
      BY <1>17, <3>1, VisibleIsFound
    <3> QED BY <1>2, <3>2
  <2>3. Cardinality(kept \cap Upto(t, n)) <= Cardinality(stay \cap Upto(s, n)) + loss
    BY <1>9, <1>13, <2>1, <2>2
  <2>4. Cardinality(kept \cap Upto(t, n)) \in Nat /\ Cardinality(stay \cap Upto(s, n)) \in Nat
    <3>1. kept \cap Upto(t, n) \in SUBSET DOMAIN table /\ stay \cap Upto(s, n) \in SUBSET DOMAIN table
      BY <1>7, <1>9, <1>10
    <3> QED BY <3>1, RowsFinite
  <2>5. Cardinality(kept \cap Upto(t, n)) <= walk.lost + loss
    BY <1>13, <1>15, <2>1, <2>3, <2>4
  <2>6. Cardinality((walk'.stay \ ToSet(walk'.shown)) \cap Behind') <= walk'.lost
    BY <1>2, <1>3, <1>9, <1>12, <1>14, <2>5
  <2>7. walk'.stay \subseteq Visible(route', table', list', walk'.query)
    BY <1>1, <1>3
  <2>8. ~(walk'.next > walk'.last)
    BY <1>1, <1>3, WalkFields
  <2> QED BY <2>6, <2>7, <2>8 DEF MissInv
<1> QED BY <1>16, <1>17

LEMMA UptoFacts ==
  ASSUME NEW T, NEW s \in Seq(T), NEW n \in Nat, NEW m \in Nat, n <= m
  PROVE  Upto(s, n) \subseteq Upto(s, m) /\ Upto(s, m) \subseteq ToSet(s) /\ Upto(s, 0) = {}
<1>1. DOMAIN s = 1 .. Len(s) /\ Len(s) \in Nat /\ \A i \in DOMAIN s : s[i] \in ToSet(s)
  BY SeqFacts
<1> QED BY <1>1 DEF Upto

(* A reader who was shown S is shown Q: those of S that come again were    *)
(* among the rows R ahead, and are not among those R2 that are now.        *)
LEMMA ShownAgain ==
  ASSUME NEW S, IsFiniteSet(S), NEW Q, IsFiniteSet(Q),
         NEW R, NEW R2, R2 \subseteq R, Q \subseteq R, Q \cap R2 = {}
  PROVE  /\ Cardinality(S) \in Nat /\ Cardinality(Q) \in Nat /\ Cardinality(S \cup Q) \in Nat
         /\ Cardinality((S \cup Q) \cap R2) \in Nat /\ Cardinality(S \cap R) \in Nat
         /\ Cardinality(S) + Cardinality(Q) + Cardinality((S \cup Q) \cap R2)
               <= Cardinality(S \cup Q) + Cardinality(S \cap R)
<1>1. PICK X, Y, Z : X = S \cap Q /\ Y = (S \cup Q) \cap R2 /\ Z = S \cap R
  OBVIOUS
<1>2. X \subseteq S /\ Y \subseteq S /\ Z \subseteq S /\ X \cup Y \subseteq Z /\ X \cap Y = {}
  BY <1>1
<1>3. /\ IsFiniteSet(X) /\ IsFiniteSet(Y) /\ IsFiniteSet(Z)
      /\ Cardinality(X) \in Nat /\ Cardinality(Y) \in Nat /\ Cardinality(Z) \in Nat
  BY <1>2, Fewer
<1>4. IsFiniteSet(X \cup Y) /\ Cardinality(X \cup Y) = Cardinality(X) + Cardinality(Y)
  <2>1. /\ IsFiniteSet(X \cup Y)
        /\ Cardinality(X \cup Y) = Cardinality(X) + Cardinality(Y) - Cardinality(X \cap Y)
    BY <1>3, FS_Union
  <2>2. Cardinality(X \cap Y) = 0
    BY <1>2, FS_EmptySet
  <2> QED BY <1>3, <2>1, <2>2
<1>5. Cardinality(X \cup Y) <= Cardinality(Z)
  BY <1>2, <1>3, Fewer
<1>6. /\ IsFiniteSet(S \cup Q)
      /\ Cardinality(S \cup Q) = Cardinality(S) + Cardinality(Q) - Cardinality(X)
  BY <1>1, FS_Union
<1>7. Cardinality(S) \in Nat /\ Cardinality(Q) \in Nat /\ Cardinality(S \cup Q) \in Nat
  BY <1>6, FS_CardinalityType
<1> QED BY <1>1, <1>3, <1>4, <1>5, <1>6, <1>7

(* The rows a page holds, among those that pages are cut from. *)
LEMMA TurnedFacts ==
  ASSUME ListingAssumption, TypeOK, NEW l \in Lists, NEW q, NEW limit \in Limits,
         NEW k \in Nat \ {0}, NEW items, NEW last, IsPage(l, q, limit, k, items, last),
         NEW s, s = Found(route, table, l, q),
         NEW n, n = (k - 1) * PageSize(limit), NEW m, m = k * PageSize(limit)
  PROVE  /\ n \in Nat /\ m \in Nat
         /\ s \in Seq(DOMAIN table) /\ IsInjective(s)
         /\ Upto(s, n) \subseteq Upto(s, m) /\ Upto(s, m) \subseteq ToSet(s)
         /\ route = "products" => l # None /\ ToSet(s) \subseteq ToSet(l)
         /\ ToSet(items) \subseteq Upto(s, m) \ Upto(s, n)
         /\ \A id \in Visible(route, table, l, q) :
               id \in Upto(s, m) \ Upto(s, n) => id \in ToSet(items)
         /\ IsFiniteSet(ToSet(items)) /\ Cardinality(ToSet(items)) = Len(items)
<1>1. PICK d : d = PageSize(limit)
  OBVIOUS
<1>2. d \in Nat
  BY <1>1, PageSizes
<1>3. n \in Nat /\ m \in Nat /\ n <= m
  <2>1. (k - 1) * d \in Nat /\ k * d \in Nat /\ k * d = (k - 1) * d + d
    BY <1>2, NextPageStarts
  <2> QED BY <1>1, <1>2, <2>1
<1>4. Tabled(route, table, l) /\ (route = "products" => l # None)
  BY ListsFacts
<1>5. /\ s \in Seq(DOMAIN table) /\ IsInjective(s)
      /\ ToSet(s) = {id \in Listed(route, table, l) : Hit(route, table[id], q)}
  BY <1>4, FoundFacts
<1>6. route = "products" => ToSet(s) \subseteq ToSet(l)
  BY <1>4, <1>5 DEF Listed
<1>7. Upto(s, n) \subseteq Upto(s, m) /\ Upto(s, m) \subseteq ToSet(s)
  BY <1>3, <1>5, UptoFacts
<1>8. /\ items \in Seq(DOMAIN table) /\ IsInjective(items)
      /\ ToSet(items) = Turned(Found(route, table, l, q), q, k, PageSize(limit))
  BY DEF IsPage
<1>9. ToSet(items) = {id \in Upto(s, m) \ Upto(s, n) :
                         route = "users" => table[id].deleted = q.deleted}
  BY <1>8 DEF Turned
<1>10. \A id \in Visible(route, table, l, q) : route = "users" => table[id].deleted = q.deleted
  BY DEF Visible, Wanted
<1>11. IsFiniteSet(ToSet(items)) /\ Cardinality(ToSet(items)) = Len(items)
  BY <1>8, CountedAll
<1> QED BY <1>3, <1>4, <1>5, <1>6, <1>7, <1>9, <1>10, <1>11

LEMMA FirstKeeps ==
  ASSUME ListingAssumption, TypeOK, FirstPage
  PROVE  RepeatInv' /\ MissInv'
<1>1. PICK q \in QueriesOf(route), limit \in Limits, l \in Lists : \E items, last :
            /\ walk = None /\ list' = l
            /\ IsPage(l, q, limit, 1, items, last)
            /\ walk' = [query |-> q, limit |-> limit, next |-> 2, last |-> last,
                        shown |-> items, stay |-> Visible(route, table, l, q),
                        gained |-> 0, lost |-> 0, mixed |-> FALSE]
            /\ UNCHANGED <<route, table, edits>>
  BY FirstFacts
<1>2. PICK items, last :
            /\ list' = l
            /\ IsPage(l, q, limit, 1, items, last)
            /\ walk' = [query |-> q, limit |-> limit, next |-> 2, last |-> last,
                        shown |-> items, stay |-> Visible(route, table, l, q),
                        gained |-> 0, lost |-> 0, mixed |-> FALSE]
            /\ route' = route /\ table' = table
  BY <1>1
<1>3. PICK k, s, d, n : /\ k = 1 /\ s = Found(route, table, l, q)
                        /\ d = k * PageSize(limit) /\ n = (k - 1) * PageSize(limit)
  OBVIOUS
<1>4. PICK seen, stay : seen = ToSet(items) /\ stay = Visible(route, table, l, q)
  OBVIOUS
<1>5. /\ walk'.query = q /\ walk'.limit = limit /\ walk'.next = 2 /\ walk'.last = last
      /\ walk'.shown = items /\ walk'.stay = stay
      /\ walk'.gained = 0 /\ walk'.lost = 0
  BY <1>2, <1>4
<1>6. k \in Nat \ {0} /\ d \in Nat /\ n = 0 /\ (2 - 1) * PageSize(limit) = d
  BY <1>3, PageSizes
<1>7. /\ s \in Seq(DOMAIN table) /\ IsInjective(s)
      /\ route = "products" => l # None /\ ToSet(s) \subseteq ToSet(l)
      /\ Upto(s, d) \subseteq ToSet(s)
      /\ seen \subseteq Upto(s, d) \ Upto(s, n)
      /\ \A id \in stay : id \in Upto(s, d) \ Upto(s, n) => id \in seen
      /\ Cardinality(seen) = Len(items)
  <2>1. IsPage(l, q, limit, k, items, last)
    BY <1>2, <1>3
  <2> QED BY <1>3, <1>4, <1>6, <2>1, TurnedFacts
<1>8. Upto(s, n) = {}
  BY <1>6, <1>7, UptoFacts
<1>9. /\ Passed' = d /\ Behind' = Upto(s, d) /\ Ahead' = Rest(s, d)
      /\ Found(route', table', list', walk'.query) = s
      /\ Visible(route', table', list', walk'.query) = stay
  <2>1. Passed' = d
    BY <1>5, <1>6, Primes
  <2> QED BY <1>2, <1>3, <1>4, <1>5, <2>1, Primes
<1>10. RepeatInv'
  <2>1. route = "products" => l # None /\ seen \cap Live' \subseteq ToSet(l)
    BY <1>7
  <2>2. seen \cap Rest(s, d) = {}
    BY <1>7 DEF Rest
  <2>3. Cardinality(seen \cap Rest(s, d)) = 0 /\ Len(items) \in Nat
    <3>1. Len(items) \in Nat
      BY <1>2, SeqFacts DEF IsPage
    <3> QED BY <2>2, <3>1, FS_EmptySet
  <2>4. Len(items) - Cardinality(seen) + Cardinality(seen \cap Rest(s, d)) <= 0
    BY <1>7, <2>3
  <2> QED BY <1>2, <1>4, <1>5, <1>9, <2>1, <2>4 DEF RepeatInv
<1>11. MissInv'
  <2>1. (stay \ seen) \cap Upto(s, d) = {}
    BY <1>7, <1>8
  <2>2. Cardinality((stay \ seen) \cap Upto(s, d)) <= 0
    <3>1. Cardinality({}) = 0 /\ 0 <= 0
      BY FS_EmptySet
    <3> QED BY <2>1, <3>1
  <2>3. 2 > last => Len(s) <= d
    <3>1. IsPage(l, q, limit, k, items, last) /\ k + 1 = 2
      BY <1>2, <1>3
    <3> QED BY <1>3, <3>1 DEF IsPage
  <2> QED BY <1>4, <1>5, <1>9, <2>2, <2>3 DEF MissInv
<1> QED BY <1>10, <1>11

(* A page moves the rows it holds from ahead to behind. *)
LEMMA NextKeeps ==
  ASSUME ListingAssumption, TypeOK, RepeatInv, NextPage
  PROVE  RepeatInv' /\ (MissInv => MissInv')
<1> SUFFICES ASSUME ~walk'.mixed
             PROVE  RepeatInv' /\ (MissInv => MissInv')
  BY DEF RepeatInv, MissInv
<1>1. PICK l \in Lists : \E items, last :
            /\ walk # None /\ list' = l
            /\ IsPage(l, walk.query, walk.limit, walk.next, items, last)
            /\ walk' = [query |-> walk.query, limit |-> walk.limit, next |-> walk.next + 1,
                        last |-> last, shown |-> walk.shown \o items, stay |-> walk.stay,
                        gained |-> walk.gained, lost |-> walk.lost,
                        mixed |-> (walk.mixed \/ l # list)]
            /\ UNCHANGED <<route, table, edits>>
  BY NextFacts
<1>2. PICK items, last :
            /\ walk # None /\ list' = l
            /\ IsPage(l, walk.query, walk.limit, walk.next, items, last)
            /\ walk' = [query |-> walk.query, limit |-> walk.limit, next |-> walk.next + 1,
                        last |-> last, shown |-> walk.shown \o items, stay |-> walk.stay,
                        gained |-> walk.gained, lost |-> walk.lost,
                        mixed |-> (walk.mixed \/ l # list)]
            /\ route' = route /\ table' = table
  BY <1>1
<1>3. l = list /\ ~walk.mixed
  <2>1. walk'.mixed = (walk.mixed \/ l # list)
    BY <1>2
  <2> QED BY <2>1
<1>4. PICK q, limit, k : q = walk.query /\ limit = walk.limit /\ k = walk.next
  OBVIOUS
<1>5. PICK seen, new, stay, shown :
         /\ seen = ToSet(walk.shown) /\ new = ToSet(items)
         /\ stay = walk.stay /\ shown = walk.shown \o items
  OBVIOUS
<1>6. /\ walk'.query = q /\ walk'.limit = limit /\ walk'.next = k + 1 /\ walk'.last = last
      /\ walk'.shown = shown /\ walk'.stay = stay
      /\ walk'.gained = walk.gained /\ walk'.lost = walk.lost
  BY <1>2, <1>4, <1>5
<1>7. /\ limit \in Limits /\ k \in Nat \ {0} /\ walk.gained \in Nat /\ walk.lost \in Nat
      /\ walk.shown \in Seq(DOMAIN table) /\ Len(walk.shown) \in Nat
      /\ seen \in SUBSET DOMAIN table /\ stay \in SUBSET DOMAIN table
  BY <1>2, <1>4, <1>5, WalkFields, SeqFacts
<1>8. PICK s, n, m : /\ s = Found(route, table, l, q)
                     /\ n = (k - 1) * PageSize(limit) /\ m = k * PageSize(limit)
  OBVIOUS
<1>9. IsPage(l, q, limit, k, items, last)
  BY <1>2, <1>4
<1>10. /\ n \in Nat /\ m \in Nat
       /\ Upto(s, n) \subseteq Upto(s, m) /\ Upto(s, m) \subseteq ToSet(s)
       /\ route = "products" => l # None /\ ToSet(s) \subseteq ToSet(l)
       /\ new \subseteq Upto(s, m) \ Upto(s, n)
       /\ \A id \in Visible(route, table, l, q) :
             id \in Upto(s, m) \ Upto(s, n) => id \in new
       /\ IsFiniteSet(new) /\ Cardinality(new) = Len(items)
  BY <1>5, <1>7, <1>8, <1>9, TurnedFacts
<1>11. /\ Passed = n /\ Behind = Upto(s, n) /\ Ahead = Rest(s, n)
       /\ Found(route, table, list, walk.query) = s
  BY <1>3, <1>4, <1>8 DEF Passed, Behind, Ahead, Rest
<1>12. /\ Passed' = m /\ Behind' = Upto(s, m) /\ Ahead' = Rest(s, m)
       /\ Found(route', table', list', walk'.query) = s
       /\ Visible(route', table', list', walk'.query) = Visible(route, table, l, q)
  <2>1. Passed' = m
    <3>1. (k + 1) - 1 = k
      BY <1>7
    <3> QED BY <1>6, <1>8, <3>1, Primes
  <2> QED BY <1>2, <1>6, <1>8, <2>1, Primes
<1>13. ToSet(shown) = seen \cup new /\ Len(shown) = Len(walk.shown) + Len(items) /\ Len(items) \in Nat
  <2>1. items \in Seq(DOMAIN table)
    BY <1>9 DEF IsPage
  <2> QED BY <1>5, <1>7, <2>1, Joined, SeqFacts
<1>14. RepeatInv'
  <2>1. /\ route = "products" => list # None /\ seen \cap Live \subseteq ToSet(list)
        /\ Len(walk.shown) - Cardinality(seen) + Cardinality(seen \cap Rest(s, n)) <= walk.gained
    BY <1>2, <1>3, <1>5, <1>11 DEF RepeatInv
  <2>2. Live' = Live
    BY <1>2 DEF Live
  <2>3. route' = "products" => list' # None /\ ToSet(walk'.shown) \cap Live' \subseteq ToSet(list')
    BY <1>2, <1>3, <1>6, <1>10, <1>13, <2>1, <2>2
  <2>4. PICK R, R2 : R = Rest(s, n) /\ R2 = Rest(s, m)
    OBVIOUS
  <2>5. R2 \subseteq R /\ new \subseteq R /\ new \cap R2 = {}
    BY <1>10, <2>4 DEF Rest
  <2>6. IsFiniteSet(seen)
    BY <1>7, RowsFinite
  <2>7. /\ Cardinality(seen) \in Nat /\ Cardinality(new) \in Nat /\ Cardinality(seen \cup new) \in Nat
        /\ Cardinality((seen \cup new) \cap R2) \in Nat /\ Cardinality(seen \cap R) \in Nat
        /\ Cardinality(seen) + Cardinality(new) + Cardinality((seen \cup new) \cap R2)
              <= Cardinality(seen \cup new) + Cardinality(seen \cap R)
    BY <1>10, <2>5, <2>6, ShownAgain
  <2>8. Len(walk.shown) - Cardinality(seen) + Cardinality(seen \cap R) <= walk.gained
    BY <2>1, <2>4
  <2>9. Len(shown) - Cardinality(seen \cup new) + Cardinality((seen \cup new) \cap R2) <= walk.gained
    BY <1>7, <1>10, <1>13, <2>7, <2>8
  <2>10. Len(walk'.shown) - Cardinality(ToSet(walk'.shown))
             + Cardinality(ToSet(walk'.shown) \cap Ahead') <= walk'.gained
    BY <1>6, <1>12, <1>13, <2>4, <2>9
  <2> QED BY <2>3, <2>10 DEF RepeatInv
<1>15. ASSUME MissInv PROVE MissInv'
  <2>1. /\ stay \subseteq Visible(route, table, l, q)
        /\ Cardinality((stay \ seen) \cap Upto(s, n)) <= walk.lost
    BY <1>2, <1>3, <1>4, <1>5, <1>11, <1>15 DEF MissInv
  <2>2. (stay \ (seen \cup new)) \cap Upto(s, m) \subseteq (stay \ seen) \cap Upto(s, n)
    BY <1>10, <2>1
  <2>3. PICK X, Y : X = (stay \ (seen \cup new)) \cap Upto(s, m) /\ Y = (stay \ seen) \cap Upto(s, n)
    OBVIOUS
  <2>4. IsFiniteSet(Y)
    <3>1. Y \in SUBSET DOMAIN table
      BY <1>7, <2>3
    <3> QED BY <3>1, RowsFinite
  <2>5. Cardinality(X) <= Cardinality(Y) /\ Cardinality(X) \in Nat /\ Cardinality(Y) \in Nat
    BY <2>2, <2>3, <2>4, Fewer
  <2>6. Cardinality(X) <= walk.lost
    BY <1>7, <2>1, <2>3, <2>5
  <2>7. Cardinality((walk'.stay \ ToSet(walk'.shown)) \cap Behind') <= walk'.lost
    BY <1>6, <1>12, <1>13, <2>3, <2>6
  <2>8. k + 1 > last => Len(s) <= m
    BY <1>8, <1>9 DEF IsPage
  <2> QED BY <1>6, <1>12, <2>1, <2>7, <2>8 DEF MissInv
<1> QED BY <1>14, <1>15

(* The cached list made anew ends what can be said of its pages. *)
LEMMA ExpiryKeeps ==
  ASSUME ListingAssumption, TypeOK, CacheExpires
  PROVE  RepeatInv' /\ MissInv'
<1>1. walk' = None \/ walk'.mixed
  <2>1. CASE walk = None
    BY <2>1 DEF CacheExpires
  <2>2. CASE walk # None
    BY <2>2, ExpiryTyped
  <2> QED BY <2>1, <2>2
<1> QED BY <1>1 DEF RepeatInv, MissInv

LEMMA WalkStep ==
  ASSUME ListingAssumption, TypeOK, RepeatInv, Searched => MissInv, [Next]_vars
  PROVE  RepeatInv' /\ (Searched' => MissInv')
<1>1. Searched' <=> Searched
  BY DEF Next, vars, Searched, FirstPage, NextPage, CreateRow, EditRow, DeleteRow, PushEntry,
         CacheExpires, Watch
<1>2. CASE FirstPage
  BY <1>2, FirstKeeps
<1>3. CASE NextPage
  BY <1>1, <1>3, NextKeeps
<1>4. CASE CreateRow \/ EditRow \/ DeleteRow \/ PushEntry
  <2>1. PICK z, A : Edited(z, A) /\ Watch(A)
    BY <1>4, WritersEdit
  <2> QED BY <1>1, <2>1, EditKeeps
<1>5. CASE CacheExpires
  BY <1>5, ExpiryKeeps
<1>6. CASE UNCHANGED vars
  <2>1. /\ route' = route /\ table' = table /\ list' = list /\ walk' = walk
    BY <1>6 DEF vars
  <2>2. Live' = Live /\ Passed' = Passed /\ Behind' = Behind /\ Ahead' = Ahead
    BY <2>1 DEF Live, Passed, Behind, Ahead
  <2>3. /\ Found(route', table', list', walk'.query) = Found(route, table, list, walk.query)
        /\ Visible(route', table', list', walk'.query) = Visible(route, table, list, walk.query)
    BY <2>1
  <2>4. RepeatInv'
    BY <2>1, <2>2 DEF RepeatInv
  <2>5. MissInv => MissInv'
    BY <2>1, <2>2, <2>3 DEF MissInv
  <2> QED BY <1>1, <2>4, <2>5
<1> QED BY <1>2, <1>3, <1>4, <1>5, <1>6 DEF Next

(* The two halves of the bookkeeping.  That nothing is missed needs the    *)
(* reader and the code to mean the same by a search.                       *)
Bookkeeping == TypeOK /\ RepeatInv /\ (Searched => MissInv)

LEMMA BookkeepingHolds == Spec => []Bookkeeping
<1>1. Init => Bookkeeping
  <2> HAVE Init
  <2>1. walk = None
    BY DEF Init
  <2>2. RepeatInv /\ MissInv
    BY <2>1 DEF RepeatInv, MissInv
  <2> QED BY <2>2, ListingAssumption, InitTyped DEF Bookkeeping
<1>2. Bookkeeping /\ [Next]_vars => Bookkeeping'
  BY ListingAssumption, TypeStep, WalkStep DEF Bookkeeping
<1> QED BY <1>1, <1>2, PTL DEF Spec

(* The inductive invariant of the runs: at every moment of a reader's walk *)
(* the rows that will be shown again are paid for by rows that edits put   *)
(* in, those passed by and never shown by rows that edits took away.       *)
THEOREM PagesAccountedFor == Spec => [](Searched => WalkInv)
<1>1. Bookkeeping => (Searched => WalkInv)
  BY DEF Bookkeeping, WalkInv
<1> QED BY <1>1, BookkeepingHolds, PTL

(* Whatever is searched and however the pages are asked for: no row comes  *)
(* up twice but for the rows that edits put between those of the list, for *)
(* products, users and permissions alike.                                  *)
THEOREM ShownOnce == Spec => []NothingRepeated
<1>1. Bookkeeping => NothingRepeated
  <2> SUFFICES ASSUME Bookkeeping, walk # None, ~walk.mixed
               PROVE  Len(walk.shown) - Cardinality(ToSet(walk.shown)) <= walk.gained
    BY DEF NothingRepeated
  <2>1. Len(walk.shown) - Cardinality(ToSet(walk.shown))
               + Cardinality(ToSet(walk.shown) \cap Ahead) <= walk.gained
    BY DEF Bookkeeping, RepeatInv
  <2>2. ToSet(walk.shown) \subseteq DOMAIN table /\ Len(walk.shown) \in Nat /\ walk.gained \in Nat
    BY WalkFields, SeqFacts DEF Bookkeeping
  <2>3. /\ Cardinality(ToSet(walk.shown)) \in Nat
        /\ Cardinality(ToSet(walk.shown) \cap Ahead) \in Nat
    <3>1. ToSet(walk.shown) \in SUBSET DOMAIN table
          /\ ToSet(walk.shown) \cap Ahead \in SUBSET DOMAIN table
      BY <2>2
    <3> QED BY <3>1, RowsFinite DEF Bookkeeping
  <2> QED BY <2>1, <2>2, <2>3
<1> QED BY <1>1, BookkeepingHolds, PTL

(* A reader who comes to the last page has met every row that was there    *)
(* all along, but for one per row that an edit took out: with no           *)
(* assumption for users and permissions, and for products if what the code *)
(* takes for almost the word searched for is one typo away from it.        *)
THEOREM NoneMissed == Spec => [](Searched => NothingMissed)
<1>1. Bookkeeping => (Searched => NothingMissed)
  <2> SUFFICES ASSUME Bookkeeping, Searched, ~Reading, ~walk.mixed
               PROVE  Cardinality(walk.stay \ ToSet(walk.shown)) <= walk.lost
    BY DEF NothingMissed
  <2>1. walk # None /\ ~(walk.next <= walk.last)
    BY DEF Reading
  <2>2. TypeOK /\ MissInv
    BY DEF Bookkeeping
  <2>3. PICK q, s, n : /\ q = walk.query /\ s = Found(route, table, list, q) /\ n = Passed
    OBVIOUS
  <2>4. q \in QueriesOf(route) /\ Tabled(route, table, list)
    BY <2>1, <2>2, <2>3, WalkFields, TypedList
  <2>5. s \in Seq(DOMAIN table)
    BY <2>3, <2>4, FoundFacts
  <2>6. Len(s) <= n
    <3>1. walk.next > walk.last
      BY <2>1, <2>2, WalkFields
    <3> QED BY <2>1, <2>2, <2>3, <3>1 DEF MissInv
  <2>7. n \in Nat
    BY <2>1, <2>2, <2>3, PassedIs, ListingAssumption
  <2>8. ToSet(s) \subseteq Upto(s, n)
    <3>1. DOMAIN s = 1 .. Len(s) /\ Len(s) \in Nat /\ \A x \in ToSet(s) : \E i \in DOMAIN s : s[i] = x
      BY <2>5, SeqFacts
    <3>2. \A i \in DOMAIN s : i <= n
      BY <2>6, <2>7, <3>1
    <3> QED BY <3>1, <3>2 DEF Upto
  <2>9. walk.stay \subseteq ToSet(s)
    <3>1. Visible(route, table, list, q) =
            {id \in ToSet(Found(route, table, list, q)) :
                route = "users" => table[id].deleted = q.deleted}
      BY <2>4, VisibleIsFound, ListingAssumption
    <3>2. walk.stay \subseteq Visible(route, table, list, q)
      BY <2>1, <2>2, <2>3 DEF MissInv
    <3> QED BY <2>3, <3>1, <3>2
  <2>10. (walk.stay \ ToSet(walk.shown)) \cap Behind = walk.stay \ ToSet(walk.shown)
    BY <2>3, <2>8, <2>9 DEF Behind
  <2> QED BY <2>1, <2>2, <2>10 DEF MissInv
<1> QED BY <1>1, BookkeepingHolds, PTL

-----------------------------------------------------------------------------
(* What is on a page.                                                      *)

(* What a page adds to the rows shown. *)
LEMMA AddedIs ==
  ASSUME NEW T, NEW a \in Seq(T), NEW b \in Seq(T),
         NEW c, c = a \o b, NEW from, from = Len(a) + 1, NEW end, end = Len(c),
         NEW w, w = SubSeq(c, from, end)
  PROVE  w = b
<1>1. /\ Len(a) \in Nat /\ Len(b) \in Nat /\ DOMAIN b = 1 .. Len(b)
  BY SeqFacts
<1>2. /\ c \in Seq(T) /\ Len(c) = Len(a) + Len(b)
      /\ \A i \in 1 .. Len(a) + Len(b) :
            c[i] = IF i <= Len(a) THEN a[i] ELSE b[i - Len(a)]
  BY ConcatProperties
<1>3. from \in Int /\ end \in Int /\ from = Len(a) + 1 /\ end = Len(a) + Len(b)
  BY <1>1, <1>2
<1>4. /\ w \in Seq(T)
      /\ Len(w) = IF from <= end THEN end - from + 1 ELSE 0
      /\ \A i \in 1 .. end - from + 1 : w[i] = c[from + i - 1]
  <2>1. DOMAIN c = 1 .. Len(a) + Len(b) /\ \A i \in DOMAIN c : c[i] \in T
    BY <1>2, SeqFacts
  <2>2. \A i \in from .. end : i \in DOMAIN c
    BY <1>1, <1>3, <2>1
  <2>3. \A i \in from .. end : c[i] \in T
    BY <2>1, <2>2
  <2>4. /\ SubSeq(c, from, end) \in Seq(T)
        /\ Len(SubSeq(c, from, end)) = IF from <= end THEN end - from + 1 ELSE 0
        /\ \A i \in 1 .. end - from + 1 : SubSeq(c, from, end)[i] = c[from + i - 1]
    BY <1>3, <2>3, SubSeqProperties
  <2> QED BY <2>4
<1>5. Len(w) = Len(b) /\ DOMAIN w = 1 .. Len(b)
  <2>1. Len(w) = Len(b)
    BY <1>1, <1>3, <1>4
  <2> QED BY <1>4, <2>1, SeqFacts
<1>6. \A i \in 1 .. Len(b) : w[i] = b[i]
  <2> TAKE i \in 1 .. Len(b)
  <2>1. /\ i \in 1 .. end - from + 1 /\ from + i - 1 = Len(a) + i
        /\ Len(a) + i \in 1 .. Len(a) + Len(b) /\ ~(Len(a) + i <= Len(a))
        /\ (Len(a) + i) - Len(a) = i
    BY <1>1, <1>3
  <2> QED BY <1>2, <1>4, <2>1
<1> QED BY <1>1, <1>4, <1>5, <1>6, SeqEqual

LEMMA Added ==
  ASSUME NEW T, NEW a \in Seq(T), NEW b \in Seq(T)
  PROVE  SubSeq(a \o b, Len(a) + 1, Len(a \o b)) = b
<1>1. PICK c, from, end, w :
         c = a \o b /\ from = Len(a) + 1 /\ end = Len(c) /\ w = SubSeq(c, from, end)
  OBVIOUS
<1>2. w = b
  BY <1>1, AddedIs
<1> QED BY <1>1, <1>2

LEMMA PageAnswers ==
  ASSUME ListingAssumption, TypeOK, Searched, NEW l \in Lists, NEW q \in QueriesOf(route),
         NEW limit \in Limits, NEW k \in Nat \ {0}, NEW items, NEW last,
         IsPage(l, q, limit, k, items, last)
  PROVE  /\ Len(items) <= MaxAllowed
         /\ \A id \in ToSet(items) : Wanted(route, table[id], q)
<1>1. PICK s, n, m : /\ s = Found(route, table, l, q)
                     /\ n = (k - 1) * PageSize(limit) /\ m = k * PageSize(limit)
  OBVIOUS
<1>2. ToSet(items) \subseteq Upto(s, m) \ Upto(s, n) /\ Upto(s, m) \subseteq ToSet(s)
  BY <1>1, TurnedFacts
<1>3. \A id \in ToSet(items) : route = "users" => table[id].deleted = q.deleted
  BY DEF IsPage, Turned
<1>4. Visible(route, table, l, q) =
         {id \in ToSet(s) : route = "users" => table[id].deleted = q.deleted}
  BY <1>1, ListsFacts, VisibleIsFound
<1>5. \A id \in ToSet(items) : Wanted(route, table[id], q)
  BY <1>2, <1>3, <1>4 DEF Visible
<1>6. Len(items) <= MaxAllowed
  <2>1. Len(items) <= PageSize(limit) /\ Len(items) \in Nat
    BY SeqFacts DEF IsPage
  <2>2. PageSize(limit) \in Nat /\ PageSize(limit) <= MaxAllowed /\ MaxAllowed \in Nat
    BY PageSizes DEF ListingAssumption
  <2> QED BY <2>1, <2>2
<1> QED BY <1>5, <1>6

LEMMA FirstAnswers ==
  ASSUME ListingAssumption, TypeOK, Searched, FirstPage
  PROVE  Answered
<1>1. PICK q \in QueriesOf(route), limit \in Limits, l \in Lists : \E items, last :
            /\ walk = None /\ list' = l
            /\ IsPage(l, q, limit, 1, items, last)
            /\ walk' = [query |-> q, limit |-> limit, next |-> 2, last |-> last,
                        shown |-> items, stay |-> Visible(route, table, l, q),
                        gained |-> 0, lost |-> 0, mixed |-> FALSE]
            /\ UNCHANGED <<route, table, edits>>
  BY FirstFacts
<1>2. PICK items, last :
            /\ walk = None
            /\ IsPage(l, q, limit, 1, items, last)
            /\ walk'.query = q /\ walk'.shown = items
  BY <1>1
<1>3. 1 \in Nat \ {0}
  OBVIOUS
<1>4. Len(items) <= MaxAllowed /\ \A id \in ToSet(items) : Wanted(route, table[id], q)
  BY <1>2, <1>3, PageAnswers
<1> QED BY <1>2, <1>4 DEF Answered

LEMMA NextAnswers ==
  ASSUME ListingAssumption, TypeOK, Searched, NextPage
  PROVE  Answered
<1>1. PICK l \in Lists : \E items, last :
            /\ walk # None /\ list' = l
            /\ IsPage(l, walk.query, walk.limit, walk.next, items, last)
            /\ walk' = [query |-> walk.query, limit |-> walk.limit, next |-> walk.next + 1,
                        last |-> last, shown |-> walk.shown \o items, stay |-> walk.stay,
                        gained |-> walk.gained, lost |-> walk.lost,
                        mixed |-> (walk.mixed \/ l # list)]
            /\ UNCHANGED <<route, table, edits>>
  BY NextFacts
<1>2. PICK items, last :
            /\ walk # None
            /\ IsPage(l, walk.query, walk.limit, walk.next, items, last)
            /\ walk'.query = walk.query /\ walk'.shown = walk.shown \o items
  BY <1>1
<1>3. /\ walk.query \in QueriesOf(route) /\ walk.limit \in Limits /\ walk.next \in Nat \ {0}
      /\ walk.shown \in Seq(DOMAIN table)
  BY <1>2, WalkFields
<1>4. Len(items) <= MaxAllowed /\ \A id \in ToSet(items) : Wanted(route, table[id], walk.query)
  BY <1>2, <1>3, PageAnswers
<1>5. PICK page : page = SubSeq(walk'.shown, Len(walk.shown) + 1, Len(walk'.shown))
  OBVIOUS
<1>6. page = items
  <2>1. PICK a : a = walk.shown
    OBVIOUS
  <2>2. a \in Seq(DOMAIN table) /\ items \in Seq(DOMAIN table)
    BY <1>2, <1>3, <2>1 DEF IsPage
  <2>3. SubSeq(a \o items, Len(a) + 1, Len(a \o items)) = items
    BY <2>2, Added
  <2> QED BY <1>2, <1>5, <2>1, <2>3
<1>7. Len(page) <= MaxAllowed /\ \A id \in ToSet(page) : Wanted(route, table[id], walk'.query)
  BY <1>2, <1>4, <1>6
<1> QED BY <1>2, <1>5, <1>7 DEF Answered

(* Every page answers the question at the moment it is cut, and is no      *)
(* longer than the maximum, whatever limit was asked for.                  *)
THEOREM PagesAnswer == Spec /\ []Searched => PagesAreToTheQuestion
<1>1. TypeOK /\ Searched /\ [Next]_vars => [Answered]_vars
  <2> SUFFICES ASSUME TypeOK, Searched, Next PROVE Answered
    OBVIOUS
  <2>1. CASE FirstPage
    BY <2>1, FirstAnswers, ListingAssumption
  <2>2. CASE NextPage
    BY <2>2, NextAnswers, ListingAssumption
  <2>3. CASE CreateRow \/ EditRow \/ DeleteRow \/ PushEntry
    <3>1. PICK z, A : Edited(z, A) /\ Watch(A)
      BY <2>3, WritersEdit, ListingAssumption
    <3>2. walk # None => walk'.shown = walk.shown
      BY <3>1, WatchFacts
    <3>3. walk = None => walk' = None
      BY <3>1 DEF Watch
    <3> QED BY <3>2, <3>3 DEF Answered
  <2>4. CASE CacheExpires
    <3>1. walk # None => walk'.shown = walk.shown
      BY <2>4, WalkFields DEF CacheExpires
    <3>2. walk = None => walk' = None
      BY <2>4 DEF CacheExpires
    <3> QED BY <3>1, <3>2 DEF Answered
  <2> QED BY <2>1, <2>2, <2>3, <2>4 DEF Next
<1> QED BY <1>1, TypeCorrect, PTL DEF Spec, PagesAreToTheQuestion
=============================================================================
