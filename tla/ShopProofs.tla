----------------------------- MODULE ShopProofs -----------------------------
(***************************************************************************)
(* Proofs about Shop, for any number of users and products, any prices and *)
(* quantities, and without use of the bounds on them.  The sums of a cart  *)
(* and of a product's units are Total; what an operation does to them is   *)
(* what it does to one of their terms.                                     *)
(***************************************************************************)
EXTENDS Shop, FiniteSetTheorems, TLAPS

-----------------------------------------------------------------------------
(* Sums.                                                                   *)

Terms(f) == IsFiniteSet(DOMAIN f) /\ \A x \in DOMAIN f : f[x] \in Int

(* The terms of f, but for x. *)
But(f, x) == [y \in DOMAIN f \ {x} |-> f[y]]

(* A finite number of terms makes a finite pile. *)
LEMMA PileFinite ==
  ASSUME NEW f, Terms(f) PROVE IsFiniteSet(Pile(f))
<1> DEFINE D == DOMAIN f
           g == [x \in D |-> {x} \X (1 .. f[x])]
           T == {g[x] : x \in D}
<1>1. IsFiniteSet(D) /\ \A x \in D : f[x] \in Int
  BY DEF Terms
<1>2. IsFiniteSet(T)
  <2>1. g \in Surjection(D, T)
    BY DEF Surjection
  <2> HIDE DEF g, T, D
  <2> QED BY <1>1, <2>1, FS_Surjection
<1>3. \A U \in T : IsFiniteSet(U)
  <2>1. ASSUME NEW x \in D PROVE IsFiniteSet({x} \X (1 .. f[x]))
    <3>1. f[x] \in Int
      BY <1>1
    <3>2. IsFiniteSet(1 .. f[x])
      BY <3>1, FS_Interval
    <3>3. IsFiniteSet({x})
      BY FS_Singleton
    <3> QED BY <3>2, <3>3, FS_Product
  <2> QED BY <2>1
<1>4. IsFiniteSet(UNION T)
  <2> HIDE DEF T
  <2> QED BY <1>2, <1>3, FS_UNION
<1>5. Pile(f) = UNION T
  BY DEF Pile
<1> QED BY <1>4, <1>5

(* One term's part of a pile counts as the term, or not at all. *)
LEMMA PileSplit ==
  ASSUME NEW f, Terms(f), NEW x \in DOMAIN f
  PROVE  /\ Terms(But(f, x))
         /\ Cardinality(Pile(f)) = Cardinality(Pile(But(f, x)))
                                       + (IF f[x] > 0 THEN f[x] ELSE 0)
<1> DEFINE A == Pile(But(f, x))
           B == {x} \X (1 .. f[x])
<1>1. Terms(But(f, x))
  <2>1. IsFiniteSet(DOMAIN f \ {x})
    BY FS_RemoveElement DEF Terms
  <2> QED BY <2>1 DEF But, Terms
<1>2. IsFiniteSet(A)
  BY <1>1, PileFinite
<1>3. f[x] \in Int
  BY DEF Terms
<1>4. IsFiniteSet(1 .. f[x]) /\ Cardinality(1 .. f[x]) = IF f[x] > 0 THEN f[x] ELSE 0
  BY <1>3, FS_Interval
<1>5. IsFiniteSet({x}) /\ Cardinality({x}) = 1
  BY FS_Singleton
<1>6. IsFiniteSet(B) /\ Cardinality(B) = 1 * Cardinality(1 .. f[x])
  BY <1>4, <1>5, FS_Product
<1>7. Pile(f) = A \cup B
  BY DEF Pile, But
<1>8. A \cap B = {}
  BY DEF Pile, But
<1>9. Cardinality(A \cup B) = Cardinality(A) + Cardinality(B)
  <2>1. Cardinality(A \cap B) = 0
    BY <1>8, FS_EmptySet
  <2>2. Cardinality(A) \in Nat /\ Cardinality(B) \in Nat
    BY <1>2, <1>6, FS_CardinalityType
  <2> HIDE DEF A, B
  <2>3. Cardinality(A \cup B) = Cardinality(A) + Cardinality(B) - Cardinality(A \cap B)
    BY <1>2, <1>6, FS_Union
  <2> QED BY <2>1, <2>2, <2>3
<1>10. Cardinality(B) = IF f[x] > 0 THEN f[x] ELSE 0
  <2>1. Cardinality(1 .. f[x]) \in Nat
    BY <1>4, FS_CardinalityType
  <2> HIDE DEF B
  <2> QED BY <1>4, <1>6, <2>1
<1> QED BY <1>1, <1>7, <1>9, <1>10

Negative(f) == [x \in DOMAIN f |-> -f[x]]

(* A sum is a number: its other terms and the one more. *)
LEMMA TotalSplit ==
  ASSUME NEW f, Terms(f)
  PROVE  /\ Total(f) \in Int
         /\ \A x \in DOMAIN f : /\ Total(But(f, x)) \in Int
                                /\ Total(f) = Total(But(f, x)) + f[x]
<1>1. \A g : Total(g) = Cardinality(Pile(g)) - Cardinality(Pile(Negative(g)))
  BY DEF Total, Negative
<1>2. ASSUME NEW g, Terms(g)
      PROVE  /\ Terms(Negative(g)) /\ Total(g) \in Int
             /\ Cardinality(Pile(g)) \in Nat /\ Cardinality(Pile(Negative(g))) \in Nat
  <2>1. Terms(Negative(g))
    BY <1>2 DEF Terms, Negative
  <2>2. Cardinality(Pile(g)) \in Nat /\ Cardinality(Pile(Negative(g))) \in Nat
    BY <1>2, <2>1, PileFinite, FS_CardinalityType
  <2> QED BY <1>1, <2>1, <2>2
<1>3. ASSUME NEW x \in DOMAIN f
      PROVE  Total(But(f, x)) \in Int /\ Total(f) = Total(But(f, x)) + f[x]
  <2>1. Terms(But(f, x)) /\ Terms(Negative(f))
    BY <1>2, PileSplit
  <2>2. Negative(But(f, x)) = But(Negative(f), x)
    BY DEF Negative, But
  <2>3. x \in DOMAIN Negative(f) /\ Negative(f)[x] = -f[x] /\ f[x] \in Int
    BY DEF Negative, Terms
  <2>4. Cardinality(Pile(f)) = Cardinality(Pile(But(f, x))) + (IF f[x] > 0 THEN f[x] ELSE 0)
    BY PileSplit
  <2>5. Cardinality(Pile(Negative(f))) = Cardinality(Pile(Negative(But(f, x))))
                                             + (IF -f[x] > 0 THEN -f[x] ELSE 0)
    BY <2>1, <2>2, <2>3, PileSplit
  <2>6. /\ Cardinality(Pile(But(f, x))) \in Nat /\ Total(But(f, x)) \in Int
        /\ Cardinality(Pile(Negative(But(f, x)))) \in Nat
    BY <1>2, <2>1
  <2>7. /\ Total(f) = Cardinality(Pile(f)) - Cardinality(Pile(Negative(f)))
        /\ Total(But(f, x)) = Cardinality(Pile(But(f, x)))
                                  - Cardinality(Pile(Negative(But(f, x))))
    BY <1>1
  <2> QED BY <2>3, <2>4, <2>5, <2>6, <2>7
<1> QED BY <1>2, <1>3

(* A sum whose term at x changes changes as much. *)
LEMMA TotalChange ==
  ASSUME NEW f, NEW g, Terms(f), Terms(g), NEW x \in DOMAIN f, DOMAIN g = DOMAIN f,
         \A y \in DOMAIN f \ {x} : g[y] = f[y]
  PROVE  Total(g) = Total(f) + g[x] - f[x]
<1>1. But(g, x) = But(f, x)
  BY DEF But
<1>2. /\ Total(f) = Total(But(f, x)) + f[x] /\ Total(g) = Total(But(g, x)) + g[x]
      /\ Total(But(f, x)) \in Int
  BY TotalSplit
<1>3. f[x] \in Int /\ g[x] \in Int
  BY DEF Terms
<1> QED BY <1>1, <1>2, <1>3

(* A sum of zeroes. *)
LEMMA TotalZero ==
  ASSUME NEW f, \A x \in DOMAIN f : f[x] = 0 PROVE Total(f) = 0
<1>1. Pile(f) = {} /\ Pile([x \in DOMAIN f |-> -f[x]]) = {}
  BY DEF Pile
<1> QED BY <1>1, FS_EmptySet DEF Total

-----------------------------------------------------------------------------
(* What a step leaves alone, and what it adds to a sum.                    *)

(* One product's part of ListLagsOneLine. *)
ListOK(p) ==
    OrEmpty[p] # None =>
        /\ p \in OnSale
        /\ \A x, y \in Behind(p) : x = y
        /\ \A x \in Behind(p) : None \in {OrEmpty[p].lines[x[1]][x[2]], row[x[1]][p][x[2]]}

(* What the invariant says, part by part. *)
LEMMA Parts ==
  ShopInv <=> /\ TypeOK
              /\ \A u \in Users : u \notin returned => CartOK(u)
              /\ \A p \in Products : ListOK(p) /\ UnitsOK(p) /\ UncreatedOK(p)
<1>1. ListLagsOneLine <=> \A p \in Products : ListOK(p)
  BY DEF ListLagsOneLine, ListOK
<1> QED BY <1>1, Zenon DEF ShopInv

LEMMA PartsNext ==
  ASSUME TypeOK', \A u \in Users : u \notin returned' => CartOK(u)',
         \A p \in Products : ListOK(p)' /\ UnitsOK(p)' /\ UncreatedOK(p)'
  PROVE  ShopInv'
<1>1. ListLagsOneLine'
  BY DEF ListLagsOneLine, ListOK
<1> QED BY <1>1 DEF ShopInv

(* A cart and its rows stay as they are while deleted products stay so. *)
LEMMA CartKept ==
  ASSUME NEW u \in Users, CartOK(u), cart'[u] = cart[u], row'[u] = row[u],
         \A p \in Products : product[p].status = "DELETED" => product'[p].status = "DELETED"
  PROVE  CartOK(u)'
<1>1. PricesOf(u)' = PricesOf(u) /\ \A p : Has(u, p)' = Has(u, p)
  BY DEF PricesOf, Mine, Shown, Has
<1> QED BY <1>1 DEF CartOK

(* The list is of products and their lines. *)
LEMMA ListTyped ==
  ASSUME TypeOK
  PROVE  /\ OrEmpty \in [Products -> Entry \cup {None}]
         /\ \A p \in Products : Loaded(p) \in Entry /\ LinesOf(p) \in Lines
<1>1. OrEmpty \in [Products -> Entry \cup {None}]
  BY DEF TypeOK, OrEmpty
<1>2. \A p \in Products : LinesOf(p) \in Lines
  BY DEF TypeOK, LinesOf, Lines
<1>3. \A p \in Products : product[p] \in Product
  BY DEF TypeOK
<1> QED BY <1>1, <1>2, <1>3 DEF Loaded, Entry

(* A write to the list is a write to one product of it, or to none. *)
LEMMA ListWrite ==
  ASSUME TypeOK, NEW p \in Products, NEW e \in Entry \cup {None},
         Shows(p, e) \/ ShowsIfListed(p, e) \/ Updates(p, e)
  PROVE  /\ cache' \in [Products -> Entry \cup {None}] \cup {None}
         /\ OrEmpty'[p] \in {None, e}
         /\ \A q \in Products \ {p} : OrEmpty'[q] = OrEmpty[q]
         /\ Shows(p, e) => OrEmpty'[p] = e
<1>1. OrEmpty \in [Products -> Entry \cup {None}]
  BY ListTyped
<1>2. cache \in [Products -> Entry \cup {None}] \cup {None}
  BY DEF TypeOK
<1>3. None \notin [Products -> Entry \cup {None}]
  BY ShopAssumption DEF ShopAssumption
<1>4. ASSUME NEW f \in [Products -> Entry \cup {None}], cache' = [f EXCEPT ![p] = e],
             f = OrEmpty
      PROVE  /\ cache' \in [Products -> Entry \cup {None}] /\ OrEmpty'[p] = e
             /\ \A q \in Products \ {p} : OrEmpty'[q] = OrEmpty[q]
  <2>1. /\ cache' \in [Products -> Entry \cup {None}] /\ cache'[p] = e
        /\ \A q \in Products \ {p} : cache'[q] = OrEmpty[q]
    BY <1>4
  <2>2. OrEmpty' = cache'
    BY <1>3, <2>1 DEF OrEmpty
  <2> QED BY <2>1, <2>2
<1>5. CASE Shows(p, e)
  BY <1>1, <1>4, <1>5 DEF Shows
<1>6. CASE cache # None /\ (ShowsIfListed(p, e) \/ (Updates(p, e) /\ OrEmpty[p] # None))
  BY <1>1, <1>4, <1>6 DEF ShowsIfListed, Updates, OrEmpty
<1>7. ASSUME cache' = cache, OrEmpty[p] = None
      PROVE  /\ cache' \in [Products -> Entry \cup {None}] \cup {None}
             /\ OrEmpty' = OrEmpty
  BY <1>2, <1>7 DEF OrEmpty
<1>8. CASE ShowsIfListed(p, e) /\ cache = None
  BY <1>7, <1>8, <1>5 DEF ShowsIfListed, OrEmpty
<1>9. CASE Updates(p, e) /\ OrEmpty[p] = None
  BY <1>7, <1>9, <1>5 DEF Updates
<1>10. cache = None => OrEmpty[p] = None
  BY DEF OrEmpty
<1> QED BY <1>5, <1>6, <1>8, <1>9, <1>10

(* A product of the list that stays, with its lines and its status. *)
LEMMA ListKept ==
  ASSUME NEW p \in Products, ListOK(p), OrEmpty'[p] \in {None, OrEmpty[p]},
         \A u \in Users : row'[u][p] = row[u][p], product'[p].status = product[p].status
  PROVE  ListOK(p)'
<1>1. CASE OrEmpty'[p] = None
  BY <1>1 DEF ListOK
<1>2. CASE OrEmpty'[p] = OrEmpty[p]
  <2>1. Behind(p)' = Behind(p)
    BY <1>2 DEF Behind
  <2>2. \A x \in Behind(p) : row'[x[1]][p][x[2]] = row[x[1]][p][x[2]]
    BY DEF Behind
  <2> QED BY <1>2, <2>1, <2>2 DEF ListOK, OnSale
<1> QED BY <1>1, <1>2

(* A product of the list as the table has it, but for one line at most. *)
LEMMA ListShown ==
  ASSUME NEW p \in Products, OrEmpty'[p] # None => product'[p].status = "ON_SALE",
         NEW u \in Users, NEW i \in LineIds,
         OrEmpty'[p] # None => \A x \in Users \X LineIds :
             x # <<u, i>> => OrEmpty'[p].lines[x[1]][x[2]] = row'[x[1]][p][x[2]],
         OrEmpty'[p] # None => \/ OrEmpty'[p].lines[u][i] = row'[u][p][i]
                               \/ None \in {OrEmpty'[p].lines[u][i], row'[u][p][i]}
  PROVE  ListOK(p)'
<1>1. ASSUME OrEmpty'[p] # None
      PROVE  \A x \in Behind(p)' :
                x = <<u, i>> /\ None \in {OrEmpty'[p].lines[x[1]][x[2]], row'[x[1]][p][x[2]]}
  BY <1>1 DEF Behind
<1>2. OrEmpty'[p] # None => p \in OnSale'
  BY DEF OnSale
<1> QED BY <1>1, <1>2 DEF ListOK

(* A product of the list as the table has it. *)
LEMMA ListSame ==
  ASSUME NEW p \in Products, OrEmpty'[p] # None => product'[p].status = "ON_SALE",
         OrEmpty'[p] # None => \A x \in Users \X LineIds :
             OrEmpty'[p].lines[x[1]][x[2]] = row'[x[1]][p][x[2]]
  PROVE  ListOK(p)'
<1>1. OrEmpty'[p] # None => Behind(p)' = {}
  BY DEF Behind
<1> QED BY <1>1 DEF ListOK, OnSale

-----------------------------------------------------------------------------
(* Units and prices. *)

Places == Users \X LineIds

(* The terms of Units(p). *)
UnitsOf(p) == [x \in Places |-> UnitsIn(row[x[1]][p][x[2]])]

(* The units of a product are a number. *)
LEMMA UnitsTerms ==
  ASSUME TypeOK, NEW p \in Products
  PROVE  Terms(UnitsOf(p)) /\ Units(p) = Total(UnitsOf(p)) /\ Units(p) \in Int
<1>1. \A x \in Places : UnitsIn(row[x[1]][p][x[2]]) \in Int
  BY DEF Places, TypeOK, UnitsIn, LineRow
<1>2. IsFiniteSet(Places)
  BY ShopAssumption, FS_Product DEF Places, ShopAssumption
<1>3. Terms(UnitsOf(p)) /\ Units(p) = Total(UnitsOf(p))
  BY <1>1, <1>2 DEF Terms, UnitsOf, Units, Places
<1> QED BY <1>3, TotalSplit

(* The units of a product change as one line does. *)
LEMMA UnitsChange ==
  ASSUME TypeOK, TypeOK', NEW u \in Users, NEW p \in Products, NEW i \in LineIds,
         \A x \in Places : x # <<u, i>> => row'[x[1]][p][x[2]] = row[x[1]][p][x[2]]
  PROVE  /\ Units(p) \in Int
         /\ UnitsIn(row[u][p][i]) \in Int /\ UnitsIn(row'[u][p][i]) \in Int
         /\ Units(p)' = Units(p) + UnitsIn(row'[u][p][i]) - UnitsIn(row[u][p][i])
<1>1. PICK f : f = UnitsOf(p)
  OBVIOUS
<1>2. PICK g : g = UnitsOf(p)'
  OBVIOUS
<1>3. Terms(f) /\ Terms(g)
  <2>1. \A x \in Places : UnitsIn(row'[x[1]][p][x[2]]) \in Int
    BY DEF Places, TypeOK, UnitsIn, LineRow
  <2>2. IsFiniteSet(Places)
    BY ShopAssumption, FS_Product DEF Places, ShopAssumption
  <2>3. Terms(g)
    BY <1>2, <2>1, <2>2 DEF Terms, UnitsOf
  <2> QED BY <1>1, <2>3, UnitsTerms
<1>a. Total(f) = Units(p)
  BY <1>1, UnitsTerms
<1>b. Total(g) = Units(p)'
  BY <1>2 DEF UnitsOf, Places, Units, Total, Pile
<1>4. /\ <<u, i>> \in Places /\ DOMAIN f = Places /\ DOMAIN g = Places
      /\ f[<<u, i>>] = UnitsIn(row[u][p][i]) /\ g[<<u, i>>] = UnitsIn(row'[u][p][i])
      /\ \A y \in Places \ {<<u, i>>} : g[y] = f[y]
  BY <1>1, <1>2 DEF UnitsOf, Places
<1>5. Total(g) = Total(f) + g[<<u, i>>] - f[<<u, i>>]
  BY <1>3, <1>4, TotalChange
<1>6. Total(f) \in Int /\ f[<<u, i>>] \in Int /\ g[<<u, i>>] \in Int
  BY <1>3, <1>4, TotalSplit DEF Terms
<1> QED BY <1>a, <1>b, <1>4, <1>5, <1>6

(* Lines that stay count the same. *)
LEMMA UnitsSame ==
  ASSUME NEW p, \A v \in Users : row'[v][p] = row[v][p]
  PROVE  Units(p)' = Units(p)
<1>1. \A x \in Users \X LineIds : row'[x[1]][p][x[2]] = row[x[1]][p][x[2]]
  OBVIOUS
<1>2. PICK f : f = UnitsOf(p)
  OBVIOUS
<1>3. f = UnitsOf(p)'
  BY <1>1, <1>2 DEF UnitsOf, Places, UnitsIn
<1>4. Units(p) = Total(f)
  BY <1>2 DEF UnitsOf, Places, Units
<1>5. Units(p)' = Total(f)
  BY <1>3 DEF UnitsOf, Places, Units, Total, Pile
<1> QED BY <1>4, <1>5

(* The prices of a cart are terms of a sum. *)
LEMMA PricesTerms ==
  ASSUME TypeOK, NEW u \in Users
  PROVE  Terms(PricesOf(u)) /\ Mine(u) \subseteq Products \X LineIds
<1>1. Mine(u) \subseteq Products \X LineIds
  BY DEF Mine, Shown
<1>2. IsFiniteSet(Mine(u))
  BY <1>1, ShopAssumption, FS_Product, FS_Subset DEF ShopAssumption
<1>3. \A x \in Mine(u) : row[u][x[1]][x[2]].price \in Int
  BY DEF Mine, Shown, TypeOK, LineRow
<1> QED BY <1>1, <1>2, <1>3 DEF PricesOf, Terms

(* Counts are numbers, of any sign. *)
LEMMA Counts == Nat \cup Quantities \subseteq Int /\ Nat \cup Pairs \subseteq Int
<1>1. Quantities \subseteq Int /\ Pairs \subseteq Int
  BY ShopAssumption DEF ShopAssumption
<1>2. Nat \subseteq Int
  OBVIOUS
<1> QED BY <1>1, <1>2, Zenon

(* The price of a product is a number, and so is its stock. *)
LEMMA ProductFacts ==
  ASSUME TypeOK, NEW p \in Products
  PROVE  /\ product[p] \in Product /\ product[p].price \in Nat
         /\ Stock(product[p]) \in Int /\ owed[p] \in Int
<1>1. product[p] \in Product /\ owed[p] \in Int
  BY DEF TypeOK
<1>2. /\ product[p].price \in Prices \cup {0} /\ product[p].quantity \in Nat \cup Quantities
      /\ product[p].pair \in Nat \cup Pairs
  BY <1>1 DEF Product
<1>3. Prices \cup {0} \subseteq Nat
  BY ShopAssumption DEF ShopAssumption
<1>4. product[p].price \in Nat
  BY <1>2, <1>3, Zenon
<1>5. product[p].quantity \in Int /\ product[p].pair \in Int
  BY <1>2, Counts, Zenon
<1> QED BY <1>1, <1>4, <1>5 DEF Stock

(* What the stock operations do to a row.  The clamp at zero only adds. *)
LEMMA StockFacts ==
  ASSUME NEW r \in Product
  PROVE  /\ Stock(r) \in Int
         /\ TakeOne(r) \in Product /\ TakeOne(r).status = r.status
         /\ Stock(TakeOne(r)) >= Stock(r) - 1
         /\ ReturnOne(r) \in Product /\ ReturnOne(r).status = r.status
         /\ Stock(ReturnOne(r)) >= Stock(r) + 1
         /\ \A n \in Int : /\ ReturnMany(r, n) \in Product
                            /\ ReturnMany(r, n).status = r.status
                            /\ Stock(ReturnMany(r, n)) >= Stock(r) + n
<1>1. r.quantity \in Int /\ r.pair \in Int
  <2>1. r.quantity \in Nat \cup Quantities /\ r.pair \in Nat \cup Pairs
    BY DEF Product
  <2> QED BY <2>1, Counts, Zenon
<1>2. \A k \in Int : AtLeast0(k) \in Nat /\ AtLeast0(k) >= k
  BY DEF AtLeast0
<1>a. ASSUME NEW k \in Nat
      PROVE  /\ [r EXCEPT !.quantity = k] \in Product
             /\ [r EXCEPT !.pair = k] \in Product
  BY DEF Product
<1>b. ASSUME NEW k
      PROVE  /\ [r EXCEPT !.quantity = k].status = r.status
             /\ [r EXCEPT !.pair = k].status = r.status
             /\ Stock([r EXCEPT !.quantity = k]) = k + r.pair
             /\ Stock([r EXCEPT !.pair = k]) = r.quantity + k
  BY DEF Product, Stock
<1>c. ASSUME NEW k \in Nat, NEW b \in BOOLEAN, NEW t,
             t = [r EXCEPT !.quantity = k, !.inStock = b]
      PROVE  t \in Product /\ t.status = r.status /\ Stock(t) = k + r.pair
  BY <1>c DEF Product, Stock
<1>3. /\ TakeOne(r) \in Product /\ TakeOne(r).status = r.status
      /\ Stock(TakeOne(r)) >= Stock(r) - 1
  <2>1. CASE r.inStock
    <3>1. PICK k : k = AtLeast0(r.quantity - 1)
      OBVIOUS
    <3>2. (r.quantity - 1 > 0) \in BOOLEAN
      OBVIOUS
    <3>3. PICK b \in BOOLEAN : TakeOne(r) = [r EXCEPT !.quantity = k, !.inStock = b]
      BY <2>1, <3>1, <3>2, Zenon DEF TakeOne
    <3>4. k \in Nat /\ k >= r.quantity - 1
      BY <1>1, <1>2, <3>1
    <3>5. Stock(r) = r.quantity + r.pair
      BY DEF Stock
    <3>6. /\ TakeOne(r) \in Product /\ TakeOne(r).status = r.status
          /\ Stock(TakeOne(r)) = k + r.pair
      BY <1>c, <3>3, <3>4, Zenon
    <3> QED BY <1>1, <3>4, <3>5, <3>6
  <2>2. CASE ~r.inStock
    <3>1. PICK k : k = AtLeast0(r.pair - 1)
      OBVIOUS
    <3>2. TakeOne(r) = [r EXCEPT !.pair = k]
      BY <2>2, <3>1, Zenon DEF TakeOne
    <3>3. k \in Nat /\ k >= r.pair - 1
      BY <1>1, <1>2, <3>1
    <3>4. Stock(r) = r.quantity + r.pair
      BY DEF Stock
    <3>5. /\ TakeOne(r) \in Product /\ TakeOne(r).status = r.status
          /\ Stock(TakeOne(r)) = r.quantity + k
      BY <1>a, <1>b, <3>2, <3>3, Zenon
    <3> QED BY <1>1, <3>3, <3>4, <3>5
  <2> QED BY <2>1, <2>2
<1>4. ASSUME NEW n \in Int
      PROVE  /\ ReturnMany(r, n) \in Product /\ ReturnMany(r, n).status = r.status
             /\ Stock(ReturnMany(r, n)) >= Stock(r) + n
  <2>1. PICK k : k = AtLeast0(r.quantity + n)
    OBVIOUS
  <2>2. PICK m : m = AtLeast0(r.pair + n)
    OBVIOUS
  <2>3. /\ k \in Nat /\ k >= r.quantity + n /\ m \in Nat /\ m >= r.pair + n
    BY <1>1, <1>2, <2>1, <2>2
  <2>4. \/ ReturnMany(r, n) = [r EXCEPT !.quantity = k]
        \/ ReturnMany(r, n) = [r EXCEPT !.pair = m]
    BY <2>1, <2>2 DEF ReturnMany
  <2>5. Stock(r) = r.quantity + r.pair
    BY DEF Stock
  <2>6. /\ ReturnMany(r, n) \in Product /\ ReturnMany(r, n).status = r.status
        /\ Stock(ReturnMany(r, n)) \in {k + r.pair, r.quantity + m}
    BY <1>a, <1>b, <2>3, <2>4, Zenon
  <2> QED BY <1>1, <2>3, <2>5, <2>6
<1>5. ReturnOne(r) = ReturnMany(r, 1)
  BY DEF ReturnOne, ReturnMany
<1>6. Stock(r) \in Int
  BY <1>1 DEF Stock
<1> QED BY <1>3, <1>4, <1>5, <1>6

-----------------------------------------------------------------------------
(* The handlers.  A cart handler changes one cart, one line and the row of *)
(* one product; a product handler changes the row of one product.          *)

(* What is left to show of a handler: the cart and the product it is about. *)
LEMMA CartHandlerRest ==
  ASSUME ShopInv, TypeOK', NEW u \in Users, NEW p \in Products,
         \A v \in Users \ {u} : cart'[v] = cart[v] /\ row'[v] = row[v],
         \A q \in Products \ {p} : row'[u][q] = row[u][q] /\ product'[q] = product[q],
         \A q \in Products \ {p} : OrEmpty'[q] = OrEmpty[q],
         product[p].status # "absent", product'[p].status = product[p].status,
         owed' = owed, returned' = returned,
         u \notin returned => CartOK(u)', UnitsOK(p)', ListOK(p)'
  PROVE  ShopInv'
<1>1. /\ TypeOK /\ \A v \in Users : v \notin returned => CartOK(v)
      /\ \A q \in Products : ListOK(q) /\ UnitsOK(q) /\ UncreatedOK(q)
  BY Parts
<1>a. \A v \in Users, q \in Products \ {p} : row'[v][q] = row[v][q]
  OBVIOUS
<1>2. \A v \in Users : v \notin returned' => CartOK(v)'
  BY <1>1, CartKept
<1>3. ASSUME NEW q \in Products \ {p} PROVE UnitsOK(q)' /\ UncreatedOK(q)'
  <2>1. Units(q)' = Units(q)
    BY <1>a, UnitsSame
  <2>2. \A v \in Users : Has(v, q)' = Has(v, q)
    BY <1>a DEF Has
  <2> QED BY <1>1, <2>1, <2>2 DEF UnitsOK, OnSale, UncreatedOK
<1>4. ASSUME NEW q \in Products \ {p} PROVE ListOK(q)'
  BY <1>1, <1>a, ListKept
<1>5. UncreatedOK(p)'
  BY DEF UncreatedOK
<1> QED BY <1>2, <1>3, <1>4, <1>5, PartsNext

(* The same of a product handler. *)
LEMMA ProductHandlerRest ==
  ASSUME ShopInv, TypeOK', NEW p \in Products, UNCHANGED cart,
         \A v \in Users, q \in Products \ {p} : row'[v][q] = row[v][q],
         \A v \in Users : v \notin returned' => v \notin returned /\ row'[v] = row[v],
         \A q \in Products \ {p} : product'[q] = product[q] /\ owed'[q] = owed[q],
         \A q \in Products \ {p} : OrEmpty'[q] = OrEmpty[q],
         product[p].status # "DELETED", UnitsOK(p)', UncreatedOK(p)', ListOK(p)'
  PROVE  ShopInv'
<1>1. /\ TypeOK /\ \A v \in Users : v \notin returned => CartOK(v)
      /\ \A q \in Products : ListOK(q) /\ UnitsOK(q) /\ UncreatedOK(q)
  BY Parts
<1>2. \A v \in Users : v \notin returned' => CartOK(v)'
  BY <1>1, CartKept
<1>3. ASSUME NEW q \in Products \ {p} PROVE UnitsOK(q)' /\ UncreatedOK(q)'
  <2>1. Units(q)' = Units(q)
    BY UnitsSame
  <2>2. \A v \in Users : Has(v, q)' = Has(v, q)
    BY DEF Has
  <2> QED BY <1>1, <2>1, <2>2 DEF UnitsOK, OnSale, UncreatedOK
<1>4. ASSUME NEW q \in Products \ {p} PROVE ListOK(q)'
  BY <1>1, ListKept
<1> QED BY <1>2, <1>3, <1>4, PartsNext

(* The table with a line saved or removed. *)
WithLine(u, p, i, x) == [row EXCEPT ![u][p][i] = x]

(* A line changes, the others stay. *)
LEMMA LineUpdate ==
  ASSUME TypeOK, NEW u \in Users, NEW p \in Products, NEW i \in LineIds,
         NEW x \in LineRow \cup {None}, row' = WithLine(u, p, i, x)
  PROVE  /\ row' \in [Users -> [Products -> [LineIds -> LineRow \cup {None}]]]
         /\ row'[u][p][i] = x
         /\ \A v \in Users \ {u} : row'[v] = row[v]
         /\ \A q \in Products \ {p} : row'[u][q] = row[u][q]
         /\ \A j \in LineIds \ {i} : row'[u][p][j] = row[u][p][j]
         /\ \A y \in Places : y # <<u, i>> => row'[y[1]][p][y[2]] = row[y[1]][p][y[2]]
<1>1. /\ row' \in [Users -> [Products -> [LineIds -> LineRow \cup {None}]]]
      /\ row'[u][p][i] = x
      /\ \A v \in Users \ {u} : row'[v] = row[v]
      /\ \A q \in Products \ {p} : row'[u][q] = row[u][q]
      /\ \A j \in LineIds \ {i} : row'[u][p][j] = row[u][p][j]
  BY DEF TypeOK, WithLine
<1>2. ASSUME NEW y \in Places, y # <<u, i>> PROVE row'[y[1]][p][y[2]] = row[y[1]][p][y[2]]
  <2>1. y[1] \in Users /\ y[2] \in LineIds /\ (y[1] # u \/ y[2] # i)
    BY <1>2 DEF Places
  <2> QED BY <1>1, <2>1
<1> QED BY <1>1, <1>2

(* A saved cart. *)
LEMMA CartUpdate ==
  ASSUME TypeOK, NEW u \in Users, NEW S \in SUBSET Products, NEW n \in Int,
         cart' = [cart EXCEPT ![u] = [products |-> S, subTotal |-> n]]
  PROVE  /\ cart' \in [Users -> [products : SUBSET Products, subTotal : Int]]
         /\ cart'[u].products = S /\ cart'[u].subTotal = n
         /\ \A v \in Users \ {u} : cart'[v] = cart[v]
  BY DEF TypeOK

(* A saved row of a product. *)
LEMMA ProductUpdate ==
  ASSUME TypeOK, NEW p \in Products, NEW r \in Product,
         product' = [product EXCEPT ![p] = r]
  PROVE  /\ product' \in [Products -> Product] /\ product'[p] = r
         /\ \A q \in Products \ {p} : product'[q] = product[q]
  BY DEF TypeOK

(* What a handler loads again, after it wrote. *)
LEMMA LoadedNext ==
  ASSUME NEW p \in Products, product' \in [Products -> Product],
         row' \in [Users -> [Products -> [LineIds -> LineRow \cup {None}]]]
  PROVE  /\ Loaded(p)' \in Entry
         /\ \A x \in Users \X LineIds : Loaded(p)'.lines[x[1]][x[2]] = row'[x[1]][p][x[2]]
<1>1. LinesOf(p)' \in Lines
  BY DEF LinesOf, Lines
<1> QED BY <1>1 DEF Loaded, LinesOf, Entry

(* addToCart: the new line adds its price and its unit. *)
LEMMA AddToCartStep ==
  ASSUME ShopInv, NEW u \in Users, NEW p \in Products, AddToCart(u, p) PROVE ShopInv'
<1> DEFINE x == [quantity |-> 1, price |-> product[p].price]
<1>1. /\ u \notin returned => CartOK(u)
      /\ TypeOK /\ UnitsOK(p) /\ ListOK(p)
      /\ product[p].status = "ON_SALE" /\ p \in OnSale /\ p \notin cart[u].products
      /\ product[p] \in Product /\ product[p].price \in Nat
      /\ cart[u].products \in SUBSET Products /\ cart[u].subTotal \in Int
  BY Parts, ProductFacts DEF AddToCart, OnSale, TypeOK
<1>2. PICK i \in Unused(u, p) : row' = [row EXCEPT ![u][p][i] = x]
  BY DEF AddToCart
<1>a. i \in LineIds /\ row[u][p][i] = None
  BY <1>2 DEF Unused, Has
<1>3. /\ x \in LineRow /\ x # None
      /\ x.quantity = 1 /\ x.price = product[p].price
  BY <1>1, ShopAssumption DEF LineRow, ShopAssumption
<1> HIDE DEF x
<1>4. /\ row' \in [Users -> [Products -> [LineIds -> LineRow \cup {None}]]]
      /\ row'[u][p][i] = x
      /\ \A v \in Users \ {u} : row'[v] = row[v]
      /\ \A q \in Products \ {p} : row'[u][q] = row[u][q]
      /\ \A j \in LineIds \ {i} : row'[u][p][j] = row[u][p][j]
      /\ \A y \in Places : y # <<u, i>> => row'[y[1]][p][y[2]] = row[y[1]][p][y[2]]
  <2>1. TypeOK /\ i \in LineIds /\ x \in LineRow \cup {None}
    BY <1>1, <1>3, <1>a
  <2>2. row' = WithLine(u, p, i, x)
    BY <1>2 DEF WithLine
  <2> QED BY <2>1, <2>2, LineUpdate
<1>5. /\ cart' \in [Users -> [products : SUBSET Products, subTotal : Int]]
      /\ cart'[u].products = cart[u].products \cup {p}
      /\ cart'[u].subTotal = cart[u].subTotal + product[p].price
      /\ \A v \in Users \ {u} : cart'[v] = cart[v]
  <2>1. cart' = [cart EXCEPT ![u] = [products |-> cart[u].products \cup {p},
                                     subTotal |-> cart[u].subTotal + product[p].price]]
    BY DEF AddToCart
  <2>2. /\ cart[u].products \cup {p} \in SUBSET Products
        /\ cart[u].subTotal + product[p].price \in Int
    BY <1>1
  <2> QED BY <1>1, <2>1, <2>2, CartUpdate
<1>6. /\ product' \in [Products -> Product] /\ product'[p] = TakeOne(product[p])
      /\ \A q \in Products \ {p} : product'[q] = product[q]
      /\ TakeOne(product[p]).status = product[p].status
      /\ Stock(TakeOne(product[p])) >= Stock(product[p]) - 1
      /\ owed' = owed /\ returned' = returned
  <2>1. TakeOne(product[p]) \in Product
    BY <1>1, StockFacts
  <2> QED BY <1>1, <2>1, StockFacts, ProductUpdate DEF AddToCart
<1>7. PICK e \in Entry :
        /\ Shows(p, e)
        /\ \/ \A y \in Places : e.lines[y[1]][y[2]] = row[y[1]][p][y[2]]
           \/ \A y \in Places : e.lines[y[1]][y[2]] = row'[y[1]][p][y[2]]
  <2>1. /\ Loaded(p)' \in Entry
        /\ \A y \in Places : Loaded(p)'.lines[y[1]][y[2]] = row'[y[1]][p][y[2]]
    BY <1>4, <1>6, LoadedNext DEF Places
  <2>2. /\ Loaded(p) \in Entry
        /\ \A y \in Places : Loaded(p).lines[y[1]][y[2]] = row[y[1]][p][y[2]]
    BY <1>1, ListTyped DEF Loaded, LinesOf, Places
  <2>3. Shows(p, IF OrEmpty[p] = None THEN Loaded(p) ELSE Loaded(p)')
    BY DEF AddToCart
  <2>4. CASE OrEmpty[p] = None
    BY <2>2, <2>3, <2>4
  <2>5. CASE OrEmpty[p] # None
    BY <2>1, <2>3, <2>5
  <2> QED BY <2>4, <2>5
<1>8. /\ cache' \in [Products -> Entry \cup {None}] \cup {None} /\ OrEmpty'[p] = e
      /\ \A q \in Products \ {p} : OrEmpty'[q] = OrEmpty[q]
  BY <1>1, <1>7, ListWrite
<1>9. TypeOK'
  BY <1>1, <1>4, <1>5, <1>6, <1>8 DEF TypeOK
<1>10. ListOK(p)'
  <2>1. product'[p].status = "ON_SALE"
    BY <1>1, <1>6
  <2>2. \A y \in Places : y # <<u, i>> => e.lines[y[1]][y[2]] = row'[y[1]][p][y[2]]
    BY <1>4, <1>7
  <2>3. e.lines[u][i] = row'[u][p][i] \/ e.lines[u][i] = None
    <3>1. <<u, i>> \in Places /\ <<u, i>>[1] = u /\ <<u, i>>[2] = i
      BY <1>a DEF Places
    <3> QED BY <1>7, <1>a, <3>1
  <2> QED BY <1>8, <1>a, <2>1, <2>2, <2>3, ListShown DEF Places
<1>11. ASSUME u \notin returned PROVE CartOK(u)'
  <2> DEFINE y == <<p, i>>
  <2>1. CartOK(u) /\ Has(u, p) = {}
    BY <1>1, <1>11 DEF CartOK
  <2>2. /\ Has(u, p)' = {i}
        /\ \A q \in Products \ {p} : Has(u, q)' = Has(u, q)
    <3>1. \A j \in LineIds : row[u][p][j] = None
      BY <2>1 DEF Has
    <3>2. \A j \in LineIds : row'[u][p][j] # None <=> j = i
      BY <1>3, <1>4, <1>a, <3>1
    <3>3. Has(u, p)' = {i}
      BY <1>a, <3>2 DEF Has
    <3> QED BY <1>4, <3>3 DEF Has
  <2>3. Mine(u)' = Mine(u) \cup {y} /\ y \notin Mine(u)
    <3>1. y \notin Mine(u)
      BY <1>1 DEF Mine
    <3>2. y \in Mine(u)'
      BY <1>3, <1>4, <1>5, <1>a DEF Mine, Shown
    <3>3. ASSUME NEW z \in Products \X LineIds, z # y PROVE z \in Mine(u)' <=> z \in Mine(u)
      <4>1. z[1] \in Products /\ z[2] \in LineIds /\ (z[1] # p \/ z[2] # i)
        BY <3>3
      <4>2. row'[u][z[1]][z[2]] = row[u][z[1]][z[2]]
        BY <1>4, <4>1
      <4>3. CASE z[1] # p
        BY <1>5, <4>2, <4>3 DEF Mine, Shown
      <4>4. CASE z[1] = p
        <5>1. row[u][z[1]][z[2]] = None
          BY <2>1, <4>1, <4>4 DEF Has
        <5> QED BY <4>2, <5>1 DEF Mine, Shown
      <4> QED BY <4>3, <4>4
    <3>4. Mine(u) \subseteq Products \X LineIds /\ Mine(u)' \subseteq Products \X LineIds
      BY DEF Mine, Shown
    <3> QED BY <3>1, <3>2, <3>3, <3>4
  <2>4. PICK g : g = PricesOf(u)'
    OBVIOUS
  <2>5. /\ DOMAIN g = Mine(u) \cup {y} /\ g[y] = product[p].price
        /\ But(g, y) = PricesOf(u)
    <3>1. \A z \in Mine(u) : z # y /\ row'[u][z[1]][z[2]] = row[u][z[1]][z[2]]
      BY <1>1, <1>4, <2>3 DEF Mine, Shown
    <3>2. g = [z \in Mine(u) \cup {y} |-> row'[u][z[1]][z[2]].price]
      BY <2>3, <2>4 DEF PricesOf
    <3>3. g[y] = product[p].price
      BY <1>3, <1>4, <3>2
    <3>4. DOMAIN g \ {y} = Mine(u)
      BY <2>3, <3>2
    <3>5. \A z \in Mine(u) : g[z] = row[u][z[1]][z[2]].price
      BY <3>1, <3>2
    <3> QED BY <3>2, <3>3, <3>4, <3>5 DEF PricesOf, But
  <2>6. Terms(g)
    <3>1. Terms(PricesOf(u)) /\ DOMAIN PricesOf(u) = Mine(u)
      BY <1>1, PricesTerms DEF PricesOf
    <3>2. \A z \in Mine(u) : g[z] = PricesOf(u)[z]
      BY <2>3, <2>5 DEF But
    <3>3. IsFiniteSet(Mine(u) \cup {y})
      BY <3>1, FS_AddElement DEF Terms
    <3> QED BY <1>1, <2>5, <3>1, <3>2, <3>3 DEF Terms
  <2>7. Total(g) = Total(PricesOf(u)) + product[p].price
    BY <2>5, <2>6, TotalSplit
  <2>8. cart'[u].subTotal = Total(g)
    BY <1>5, <2>1, <2>7 DEF CartOK
  <2>9. Total(g) = Total(PricesOf(u))'
    BY <2>4 DEF Total, Pile
  <2>10. \A q \in cart'[u].products : \E j \in LineIds : Has(u, q)' = {j}
    BY <1>1, <1>5, <1>a, <2>1, <2>2 DEF CartOK
  <2>11. \A q \in Products \ cart'[u].products :
           Has(u, q)' # {} => product'[q].status = "DELETED"
    BY <1>5, <1>6, <2>1, <2>2 DEF CartOK
  <2> QED BY <2>8, <2>9, <2>10, <2>11 DEF CartOK
<1>12. UnitsOK(p)'
  <2>1. UnitsIn(row[u][p][i]) = 0 /\ UnitsIn(row'[u][p][i]) = 1
    BY <1>3, <1>4, <1>a DEF UnitsIn
  <2>2. Units(p)' = Units(p) + 1 /\ Units(p) \in Int
    BY <1>1, <1>4, <1>9, <1>a, <2>1, UnitsChange
  <2>3. Stock(product[p]) \in Int /\ Stock(product'[p]) \in Int /\ owed[p] \in Int
    BY <1>1, <1>6, ProductFacts, StockFacts
  <2> QED BY <1>1, <1>6, <2>2, <2>3 DEF UnitsOK
<1>13. /\ \A v \in Users \ {u} : cart'[v] = cart[v] /\ row'[v] = row[v]
       /\ \A q \in Products \ {p} : row'[u][q] = row[u][q] /\ product'[q] = product[q]
  BY <1>4, <1>5, <1>6
<1>14. product[p].status # "absent" /\ product'[p].status = product[p].status
  BY <1>1, <1>6
<1> QED BY <1>6, <1>8, <1>9, <1>10, <1>11, <1>12, <1>13, <1>14, CartHandlerRest, Zenon

(* removeProductFromCart: the line's price leaves the sub_total, and its   *)
(* units go back, or stay on a line that nobody can reach.  The list is    *)
(* left with the line.                                                     *)
LEMMA RemoveStep ==
  ASSUME ShopInv, NEW u \in Users, NEW p \in Products, RemoveProductFromCart(u, p)
  PROVE  ShopInv'
<1>1. /\ u \notin returned => CartOK(u)
      /\ TypeOK /\ UnitsOK(p) /\ UncreatedOK(p) /\ ListOK(p)
      /\ p \in cart[u].products
      /\ product[p] \in Product
      /\ cart[u].products \in SUBSET Products /\ cart[u].subTotal \in Int
  BY Parts, ProductFacts DEF RemoveProductFromCart, TypeOK
<1>2. PICK i \in Has(u, p) :
         /\ cart' = [cart EXCEPT ![u] = RemoveLine(@, p, row[u][p][i].price)]
         /\ IF p \in OnSale
            THEN /\ product' = [product EXCEPT ![p] = ReturnMany(@, row[u][p][i].quantity)]
                 /\ row' = [row EXCEPT ![u][p][i] = None]
                 /\ Shows(p, [row |-> product'[p], lines |-> LinesOf(p)])
            ELSE UNCHANGED <<product, row, cache>>
  BY DEF RemoveProductFromCart
<1>a. i \in LineIds /\ row[u][p][i] # None /\ owed' = owed /\ returned' = returned
  BY <1>2 DEF Has, RemoveProductFromCart
<1>b. product[p].status # "absent"
  BY <1>1, <1>2 DEF UncreatedOK
<1>c. /\ row[u][p][i] \in LineRow /\ row[u][p][i].price \in Int
      /\ row[u][p][i].quantity \in Int
  BY <1>1, <1>a DEF TypeOK, LineRow
<1>3. /\ cart' \in [Users -> [products : SUBSET Products, subTotal : Int]]
      /\ cart'[u].products = cart[u].products \ {p}
      /\ cart'[u].subTotal = cart[u].subTotal - row[u][p][i].price
      /\ \A v \in Users \ {u} : cart'[v] = cart[v]
  <2>1. cart' = [cart EXCEPT ![u] = [products |-> cart[u].products \ {p},
                                     subTotal |-> cart[u].subTotal - row[u][p][i].price]]
    BY <1>2 DEF RemoveLine
  <2>2. /\ cart[u].products \ {p} \in SUBSET Products
        /\ cart[u].subTotal - row[u][p][i].price \in Int
    BY <1>1, <1>c
  <2> QED BY <1>1, <2>1, <2>2, CartUpdate
<1>4. /\ row' \in [Users -> [Products -> [LineIds -> LineRow \cup {None}]]]
      /\ row'[u][p][i] = IF p \in OnSale THEN None ELSE row[u][p][i]
      /\ \A v \in Users \ {u} : row'[v] = row[v]
      /\ \A q \in Products \ {p} : row'[u][q] = row[u][q]
      /\ \A j \in LineIds \ {i} : row'[u][p][j] = row[u][p][j]
      /\ \A y \in Places : y # <<u, i>> => row'[y[1]][p][y[2]] = row[y[1]][p][y[2]]
  <2>1. CASE p \in OnSale
    <3>1. row' = WithLine(u, p, i, None)
      BY <1>2, <2>1 DEF WithLine
    <3>2. None \in LineRow \cup {None}
      OBVIOUS
    <3> QED BY <1>1, <1>a, <2>1, <3>1, <3>2, LineUpdate
  <2>2. CASE p \notin OnSale
    BY <1>1, <1>2, <2>2 DEF TypeOK
  <2> QED BY <2>1, <2>2
<1>5. /\ product' \in [Products -> Product]
      /\ p \in OnSale => product'[p] = ReturnMany(product[p], row[u][p][i].quantity)
      /\ p \notin OnSale => product'[p] = product[p]
      /\ \A q \in Products \ {p} : product'[q] = product[q]
      /\ product'[p].status = product[p].status
  <2>1. CASE p \in OnSale
    <3>1. /\ ReturnMany(product[p], row[u][p][i].quantity) \in Product
          /\ ReturnMany(product[p], row[u][p][i].quantity).status = product[p].status
      BY <1>1, <1>c, StockFacts
    <3> QED BY <1>1, <1>2, <2>1, <3>1, ProductUpdate
  <2>2. CASE p \notin OnSale
    BY <1>1, <1>2, <2>2 DEF TypeOK
  <2> QED BY <2>1, <2>2
<1>6. /\ cache' \in [Products -> Entry \cup {None}] \cup {None}
      /\ p \in OnSale => OrEmpty'[p].lines = LinesOf(p)
      /\ p \notin OnSale => OrEmpty'[p] = None
      /\ \A q \in Products \ {p} : OrEmpty'[q] = OrEmpty[q]
  <2>1. CASE p \in OnSale
    <3>1. PICK e : e = [row |-> product'[p], lines |-> LinesOf(p)]
      OBVIOUS
    <3>2. product'[p] \in Product
      BY <1>5
    <3>3. e \in Entry /\ e.lines = LinesOf(p)
      BY <1>1, <3>1, <3>2, ListTyped DEF Entry
    <3>4. Shows(p, e)
      BY <1>2, <2>1, <3>1
    <3> QED BY <1>1, <2>1, <3>3, <3>4, ListWrite
  <2>2. CASE p \notin OnSale
    <3>1. cache' = cache
      BY <1>2, <2>2
    <3> QED BY <1>1, <2>2, <3>1 DEF TypeOK, ListOK, OrEmpty
  <2> QED BY <2>1, <2>2
<1>7. TypeOK'
  BY <1>1, <1>3, <1>4, <1>5, <1>6, <1>a DEF TypeOK
<1>8. ListOK(p)'
  <2>1. CASE p \in OnSale
    <3>1. product'[p].status = "ON_SALE"
      BY <1>5, <2>1 DEF OnSale
    <3>2. \A y \in Places : OrEmpty'[p].lines[y[1]][y[2]] = row[y[1]][p][y[2]]
      BY <1>6, <2>1 DEF LinesOf, Places
    <3>3. row'[u][p][i] = None
      BY <1>4, <2>1
    <3> QED BY <1>4, <1>a, <3>1, <3>2, <3>3, ListShown DEF Places
  <2>2. CASE p \notin OnSale
    BY <1>6, <2>2 DEF ListOK
  <2> QED BY <2>1, <2>2
<1>9. ASSUME u \notin returned PROVE CartOK(u)'
  <2> DEFINE y == <<p, i>>
  <2>1. CartOK(u) /\ Has(u, p) = {i}
    BY <1>1, <1>2, <1>9 DEF CartOK
  <2>2. \A q \in Products \ {p} : Has(u, q)' = Has(u, q)
    BY <1>4 DEF Has
  <2>3. y \in Mine(u)
    BY <1>1, <1>a DEF Mine, Shown
  <2>4. \A z \in Mine(u) \ {y} : z[1] \in Products \ {p} /\ z[2] \in LineIds
    <3>1. ASSUME NEW z \in Mine(u), z[1] = p PROVE z = y
      <4>1. z \in Products \X LineIds /\ z[2] \in Has(u, p)
        BY <3>1 DEF Mine, Shown, Has
      <4> QED BY <2>1, <3>1, <4>1
    <3> QED BY <3>1 DEF Mine, Shown
  <2>5. Mine(u)' = Mine(u) \ {y}
    <3>1. ASSUME NEW z \in Mine(u)' PROVE z \in Mine(u) \ {y}
      <4>1. /\ z \in Products \X LineIds /\ z[1] \in cart[u].products \ {p}
            /\ row'[u][z[1]][z[2]] # None
        BY <1>3 DEF Mine, Shown
      <4>2. row'[u][z[1]] = row[u][z[1]]
        BY <1>4, <4>1
      <4> QED BY <4>1, <4>2 DEF Mine, Shown
    <3>2. ASSUME NEW z \in Mine(u) \ {y} PROVE z \in Mine(u)'
      <4>1. row'[u][z[1]] = row[u][z[1]]
        BY <1>4, <2>4
      <4>2. z[1] \in cart'[u].products
        BY <1>3, <2>4 DEF Mine
      <4> QED BY <4>1, <4>2 DEF Mine, Shown
    <3> QED BY <3>1, <3>2
  <2>6. PICK f : f = PricesOf(u)
    OBVIOUS
  <2>7. Terms(f) /\ y \in DOMAIN f /\ f[y] = row[u][p][i].price
    BY <1>1, <2>3, <2>6, PricesTerms DEF PricesOf
  <2>8. PricesOf(u)' = But(f, y)
    <3>1. \A z \in Mine(u) \ {y} : row'[u][z[1]] = row[u][z[1]]
      BY <1>4, <2>4
    <3> QED BY <2>5, <2>6, <3>1 DEF PricesOf, But
  <2>9. Total(f) = Total(But(f, y)) + f[y] /\ Total(But(f, y)) \in Int
    BY <2>7, TotalSplit
  <2>10. cart'[u].subTotal = Total(But(f, y))
    BY <1>3, <1>c, <2>1, <2>6, <2>7, <2>9 DEF CartOK
  <2>11. Total(But(f, y)) = Total(PricesOf(u))'
    BY <2>8 DEF Total, Pile
  <2>12. \A q \in cart'[u].products : \E j \in LineIds : Has(u, q)' = {j}
    BY <1>1, <1>3, <2>1, <2>2 DEF CartOK
  <2>13. \A q \in Products \ cart'[u].products :
            Has(u, q)' # {} => product'[q].status = "DELETED"
    <3>1. CASE p \in OnSale
      <4>1. Has(u, p)' = {}
        <5>1. \A j \in LineIds : row'[u][p][j] = None
          BY <1>4, <2>1, <3>1 DEF Has
        <5> QED BY <5>1 DEF Has
      <4> QED BY <1>3, <1>5, <2>1, <2>2, <4>1 DEF CartOK
    <3>2. CASE p \notin OnSale
      <4>1. product'[p].status = "DELETED"
        BY <1>1, <1>5, <1>b, <3>2 DEF OnSale, Product
      <4> QED BY <1>3, <1>5, <2>1, <2>2, <4>1 DEF CartOK
    <3> QED BY <3>1, <3>2
  <2> QED BY <2>10, <2>11, <2>12, <2>13 DEF CartOK
<1>10. UnitsOK(p)'
  <2>1. CASE p \in OnSale
    <3>1. UnitsIn(row[u][p][i]) = row[u][p][i].quantity /\ UnitsIn(row'[u][p][i]) = 0
      BY <1>4, <1>a, <2>1 DEF UnitsIn
    <3>2. Units(p)' = Units(p) - row[u][p][i].quantity /\ Units(p) \in Int
      BY <1>1, <1>4, <1>7, <1>a, <1>c, <3>1, UnitsChange
    <3>3. Stock(product'[p]) >= Stock(product[p]) + row[u][p][i].quantity
      BY <1>1, <1>c, <1>5, <2>1, StockFacts
    <3>4. Stock(product[p]) \in Int /\ Stock(product'[p]) \in Int /\ owed[p] \in Int
      BY <1>1, <1>5, ProductFacts, StockFacts
    <3> QED BY <1>1, <1>5, <1>a, <1>c, <2>1, <3>2, <3>3, <3>4 DEF UnitsOK
  <2>2. CASE p \notin OnSale
    BY <1>5, <2>2 DEF UnitsOK, OnSale
  <2> QED BY <2>1, <2>2
<1>11. /\ \A v \in Users \ {u} : cart'[v] = cart[v] /\ row'[v] = row[v]
       /\ \A q \in Products \ {p} : row'[u][q] = row[u][q] /\ product'[q] = product[q]
  BY <1>3, <1>4, <1>5
<1> QED BY <1>5, <1>6, <1>7, <1>8, <1>9, <1>10, <1>11, <1>a, <1>b, CartHandlerRest, Zenon

(* The quantity handlers: a unit more on the line is at most one less in   *)
(* stock, and the line and the sub_total take the same price.              *)
LEMMA QuantityStep ==
  ASSUME ShopInv, NEW u \in Users, NEW p \in Products, NEW n \in Int, NEW r \in Product,
         r.status = product[p].status, Stock(r) >= Stock(product[p]) - n,
         ChangeQuantity(u, p, n, r)
  PROVE  ShopInv'
<1>1. /\ u \notin returned => CartOK(u)
      /\ TypeOK /\ UnitsOK(p) /\ UncreatedOK(p) /\ ListOK(p)
      /\ p \in cart[u].products
      /\ product[p] \in Product /\ product[p].price \in Nat
      /\ cart[u].products \in SUBSET Products /\ cart[u].subTotal \in Int
  BY Parts, ProductFacts DEF ChangeQuantity, TypeOK
<1>2. PICK i \in Has(u, p) :
         row' = [row EXCEPT ![u][p][i] = [quantity |-> @.quantity + n,
                                          price |-> @.price + n * product[p].price]]
  BY DEF ChangeQuantity
<1>a. i \in LineIds /\ row[u][p][i] # None /\ owed' = owed /\ returned' = returned
  BY <1>2 DEF Has, ChangeQuantity
<1>b. product[p].status # "absent"
  BY <1>1, <1>2 DEF UncreatedOK
<1>c. /\ row[u][p][i] \in LineRow /\ row[u][p][i].price \in Int
      /\ row[u][p][i].quantity \in Int
  BY <1>1, <1>a DEF TypeOK, LineRow
<1>d. PICK m \in Int : m = n * product[p].price
  BY <1>1
<1>3. PICK x : x = [quantity |-> row[u][p][i].quantity + n,
                    price |-> row[u][p][i].price + m]
  OBVIOUS
<1>e. /\ x \in LineRow /\ x # None
      /\ x.quantity = row[u][p][i].quantity + n /\ x.price = row[u][p][i].price + m
  BY <1>3, <1>c, ShopAssumption DEF LineRow, ShopAssumption
<1>4. /\ row' \in [Users -> [Products -> [LineIds -> LineRow \cup {None}]]]
      /\ row'[u][p][i] = x
      /\ \A v \in Users \ {u} : row'[v] = row[v]
      /\ \A q \in Products \ {p} : row'[u][q] = row[u][q]
      /\ \A j \in LineIds \ {i} : row'[u][p][j] = row[u][p][j]
      /\ \A y \in Places : y # <<u, i>> => row'[y[1]][p][y[2]] = row[y[1]][p][y[2]]
  <2>1. row' = WithLine(u, p, i, x)
    BY <1>2, <1>3, <1>d DEF WithLine
  <2>2. x \in LineRow \cup {None}
    BY <1>e
  <2> QED BY <1>1, <1>a, <2>1, <2>2, LineUpdate
<1>5. /\ cart' \in [Users -> [products : SUBSET Products, subTotal : Int]]
      /\ cart'[u].products = cart[u].products
      /\ cart'[u].subTotal = cart[u].subTotal + m
      /\ \A v \in Users \ {u} : cart'[v] = cart[v]
  <2>1. cart' = [cart EXCEPT ![u] = [cart[u] EXCEPT !.subTotal = cart[u].subTotal + m]]
    BY <1>d DEF ChangeQuantity
  <2>2. [cart[u] EXCEPT !.subTotal = cart[u].subTotal + m] =
           [products |-> cart[u].products, subTotal |-> cart[u].subTotal + m]
    BY <1>1 DEF TypeOK
  <2>3. cart' = [cart EXCEPT ![u] = [products |-> cart[u].products,
                                     subTotal |-> cart[u].subTotal + m]]
    BY <2>1, <2>2
  <2>4. cart[u].subTotal + m \in Int
    BY <1>1
  <2> QED BY <1>1, <2>3, <2>4, CartUpdate
<1>6. /\ product' \in [Products -> Product]
      /\ p \in OnSale => product'[p] = r
      /\ p \notin OnSale => product'[p] = product[p]
      /\ \A q \in Products \ {p} : product'[q] = product[q]
      /\ product'[p].status = product[p].status
  <2>1. CASE p \in OnSale
    BY <1>1, <2>1, ProductUpdate DEF ChangeQuantity
  <2>2. CASE p \notin OnSale
    BY <1>1, <2>2 DEF ChangeQuantity, TypeOK
  <2> QED BY <2>1, <2>2
<1>7. /\ cache' \in [Products -> Entry \cup {None}] \cup {None}
      /\ OrEmpty'[p] # None => /\ p \in OnSale
                               /\ \A y \in Places : OrEmpty'[p].lines[y[1]][y[2]]
                                                       = row'[y[1]][p][y[2]]
      /\ \A q \in Products \ {p} : OrEmpty'[q] = OrEmpty[q]
  <2>1. CASE p \in OnSale
    <3>1. PICK e : e = Loaded(p)'
      OBVIOUS
    <3>2. e \in Entry /\ \A y \in Places : e.lines[y[1]][y[2]] = row'[y[1]][p][y[2]]
      BY <1>4, <1>6, <3>1, LoadedNext DEF Places
    <3>3. ShowsIfListed(p, e)
      BY <2>1, <3>1 DEF ChangeQuantity
    <3> QED BY <1>1, <2>1, <3>2, <3>3, ListWrite
  <2>2. CASE p \notin OnSale
    <3>1. cache' = cache
      BY <2>2 DEF ChangeQuantity
    <3> QED BY <1>1, <2>2, <3>1 DEF TypeOK, ListOK, OrEmpty
  <2> QED BY <2>1, <2>2
<1>8. TypeOK'
  BY <1>1, <1>4, <1>5, <1>6, <1>7, <1>a DEF TypeOK
<1>9. ListOK(p)'
  <2>1. OrEmpty'[p] # None => product'[p].status = "ON_SALE"
    BY <1>6, <1>7 DEF OnSale
  <2>2. <<u, i>> \in Places /\ <<u, i>>[1] = u /\ <<u, i>>[2] = i
    BY <1>a DEF Places
  <2> QED BY <1>7, <1>a, <2>1, <2>2, ListShown DEF Places
<1>10. ASSUME u \notin returned PROVE CartOK(u)'
  <2> DEFINE y == <<p, i>>
  <2>1. CartOK(u)
    BY <1>1, <1>10
  <2>2. \A q \in Products : Has(u, q)' = Has(u, q)
    <3>1. \A j \in LineIds : row'[u][p][j] # None <=> row[u][p][j] # None
      BY <1>4, <1>a, <1>e
    <3> QED BY <1>4, <3>1 DEF Has
  <2>3. Mine(u)' = Mine(u)
    <3>1. ASSUME NEW z \in Products \X LineIds
          PROVE  row'[u][z[1]][z[2]] # None <=> row[u][z[1]][z[2]] # None
      <4>1. z[1] \in Products /\ z[2] \in LineIds
        OBVIOUS
      <4> QED BY <2>2, <4>1 DEF Has
    <3> QED BY <1>5, <3>1 DEF Mine, Shown
  <2>4. y \in Mine(u)
    BY <1>1, <1>a DEF Mine, Shown
  <2>5. PICK f : f = PricesOf(u)
    OBVIOUS
  <2>6. PICK g : g = PricesOf(u)'
    OBVIOUS
  <2>7. /\ Terms(f) /\ DOMAIN f = Mine(u) /\ f[y] = row[u][p][i].price
    BY <1>1, <2>4, <2>5, PricesTerms DEF PricesOf
  <2>8. \A z \in Mine(u) \ {y} : row'[u][z[1]][z[2]] = row[u][z[1]][z[2]]
    <3>1. ASSUME NEW z \in Mine(u), z # y
          PROVE  row'[u][z[1]][z[2]] = row[u][z[1]][z[2]]
      <4>1. z[1] \in Products /\ z[2] \in LineIds /\ (z[1] # p \/ z[2] # i)
        BY <3>1 DEF Mine, Shown
      <4> QED BY <1>4, <4>1
    <3> QED BY <3>1
  <2>9. /\ DOMAIN g = Mine(u) /\ g[y] = row[u][p][i].price + m
        /\ \A z \in Mine(u) \ {y} : g[z] = f[z]
    <3>1. g = [z \in Mine(u) |-> row'[u][z[1]][z[2]].price]
      BY <2>3, <2>6 DEF PricesOf
    <3>2. g[y] = row[u][p][i].price + m
      BY <1>4, <1>e, <2>4, <3>1
    <3> QED BY <2>5, <2>8, <3>1, <3>2 DEF PricesOf
  <2>10. Terms(g)
    BY <1>c, <2>7, <2>9 DEF Terms
  <2>11. Total(g) = Total(f) + g[y] - f[y]
    BY <2>4, <2>7, <2>9, <2>10, TotalChange
  <2>12. Total(f) = cart[u].subTotal
    BY <2>1, <2>5 DEF CartOK
  <2>13. cart'[u].subTotal = Total(g)
    BY <1>1, <1>5, <1>c, <2>7, <2>9, <2>11, <2>12
  <2>14. Total(g) = Total(PricesOf(u))'
    BY <2>6 DEF Total, Pile
  <2>15. /\ \A q \in cart'[u].products : \E j \in LineIds : Has(u, q)' = {j}
         /\ \A q \in Products \ cart'[u].products :
               Has(u, q)' # {} => product'[q].status = "DELETED"
    BY <1>1, <1>5, <1>6, <2>1, <2>2 DEF CartOK
  <2> QED BY <2>13, <2>14, <2>15 DEF CartOK
<1>11. UnitsOK(p)'
  <2>1. CASE p \in OnSale
    <3>1. /\ UnitsIn(row[u][p][i]) = row[u][p][i].quantity
          /\ UnitsIn(row'[u][p][i]) = row[u][p][i].quantity + n
      BY <1>4, <1>a, <1>e DEF UnitsIn
    <3>2. Units(p)' = Units(p) + n /\ Units(p) \in Int
      BY <1>1, <1>4, <1>8, <1>a, <1>c, <3>1, UnitsChange
    <3>3. Stock(product[p]) \in Int /\ Stock(product'[p]) \in Int /\ owed[p] \in Int
      BY <1>1, <1>6, <2>1, ProductFacts, StockFacts
    <3> QED BY <1>1, <1>6, <1>a, <2>1, <3>2, <3>3 DEF UnitsOK
  <2>2. CASE p \notin OnSale
    BY <1>6, <2>2 DEF UnitsOK, OnSale
  <2> QED BY <2>1, <2>2
<1>12. /\ \A v \in Users \ {u} : cart'[v] = cart[v] /\ row'[v] = row[v]
       /\ \A q \in Products \ {p} : row'[u][q] = row[u][q] /\ product'[q] = product[q]
  BY <1>4, <1>5, <1>6
<1> QED BY <1>6, <1>7, <1>8, <1>9, <1>10, <1>11, <1>12, <1>a, <1>b, CartHandlerRest, Zenon

(* createProduct: a new product has no stock, no lines, and nothing is     *)
(* owed for it.                                                            *)
LEMMA CreateStep ==
  ASSUME ShopInv, NEW p \in Products, CreateProduct(p) PROVE ShopInv'
<1>1. PICK price \in Prices, inStock \in BOOLEAN :
         product' = [product EXCEPT ![p] = [Absent EXCEPT !.status = "ON_SALE",
                                              !.price = price, !.inStock = inStock]]
  BY DEF CreateProduct
<1> DEFINE r == [Absent EXCEPT !.status = "ON_SALE", !.price = price, !.inStock = inStock]
<1>2. /\ TypeOK /\ UncreatedOK(p) /\ product[p].status = "absent"
      /\ owed[p] = 0 /\ \A u \in Users : Has(u, p) = {}
      /\ UNCHANGED <<cart, row, owed, returned>>
  BY Parts DEF CreateProduct, Absent, UncreatedOK
<1>3. r \in Product /\ r.status = "ON_SALE" /\ Stock(r) = 0
  <2>1. Absent \in Product /\ Absent.quantity = 0 /\ Absent.pair = 0
    BY DEF Absent, Product
  <2>2. \A x \in Product :
           LET e == [x EXCEPT !.status = "ON_SALE", !.price = price, !.inStock = inStock] IN
           /\ e \in Product /\ e.status = "ON_SALE"
           /\ e.quantity = x.quantity /\ e.pair = x.pair
    BY DEF Product
  <2>3. r \in Product /\ r.status = "ON_SALE" /\ r.quantity = 0 /\ r.pair = 0
    BY <2>1, <2>2, Zenon
  <2> HIDE DEF r
  <2> QED BY <2>3 DEF Stock
<1> HIDE DEF r
<1>4. /\ product' \in [Products -> Product] /\ product'[p] = r
      /\ \A q \in Products \ {p} : product'[q] = product[q]
  BY <1>1, <1>2, <1>3, ProductUpdate DEF r
<1>5. PICK e \in Entry : /\ Shows(p, e)
                         /\ \A y \in Places : e.lines[y[1]][y[2]] = row'[y[1]][p][y[2]]
  <2>1. row' \in [Users -> [Products -> [LineIds -> LineRow \cup {None}]]]
    BY <1>2 DEF TypeOK
  <2> QED BY <1>4, <2>1, LoadedNext DEF CreateProduct, Places
<1>6. /\ cache' \in [Products -> Entry \cup {None}] \cup {None} /\ OrEmpty'[p] = e
      /\ \A q \in Products \ {p} : OrEmpty'[q] = OrEmpty[q]
  BY <1>2, <1>5, ListWrite
<1>7. TypeOK'
  BY <1>2, <1>4, <1>6 DEF TypeOK
<1>8. Units(p)' = 0
  <2>1. \A x \in Places : UnitsIn(row[x[1]][p][x[2]]) = 0
    BY <1>2 DEF Has, UnitsIn, Places
  <2>2. Total(UnitsOf(p)) = 0
    BY <2>1, TotalZero DEF UnitsOf
  <2>3. Units(p) = 0
    BY <1>2, <2>2, UnitsTerms
  <2> QED BY <1>2, <2>3, UnitsSame
<1>9. UnitsOK(p)' /\ UncreatedOK(p)'
  BY <1>2, <1>3, <1>4, <1>8 DEF UnitsOK, UncreatedOK
<1>10. ListOK(p)'
  BY <1>3, <1>4, <1>5, <1>6, ListSame DEF Places
<1> QED BY <1>2, <1>4, <1>6, <1>7, <1>9, <1>10, ProductHandlerRest

(* Both edits: a restated quantity restates what is owed. *)
LEMMA RestockStep ==
  ASSUME ShopInv, NEW p \in OnSale, NEW r \in Product, r.status = product[p].status,
         r.pair = product[p].pair, Restock(p, r)
  PROVE  ShopInv'
<1>1. /\ TypeOK /\ UnitsOK(p) /\ ListOK(p) /\ p \in Products
      /\ product[p].status = "ON_SALE"
      /\ product[p] \in Product /\ UNCHANGED <<cart, row, returned>>
  BY Parts DEF OnSale, Restock, TypeOK
<1>2. /\ product' \in [Products -> Product] /\ product'[p] = r
      /\ \A q \in Products \ {p} : product'[q] = product[q]
  BY <1>1, ProductUpdate DEF Restock
<1>3. Units(p)' = Units(p) /\ Units(p) \in Int
  BY <1>1, UnitsSame, UnitsTerms
<1>4. Stock(r) \in Int /\ Stock(product[p]) \in Int /\ owed[p] \in Int
  BY <1>1, StockFacts, ProductFacts
<1>5. PICK w \in Int : w = IF r.quantity = product[p].quantity THEN owed[p]
                           ELSE Stock(r) + Units(p)
  BY <1>3, <1>4
<1>6. owed' = [owed EXCEPT ![p] = w]
  BY <1>5 DEF Restock
<1>7. /\ owed' \in [Products -> Int] /\ owed'[p] = w
      /\ \A q \in Products \ {p} : owed'[q] = owed[q]
  BY <1>1, <1>6 DEF TypeOK
<1>a. PICK e \in Entry : /\ Updates(p, e)
                         /\ \A y \in Places : e.lines[y[1]][y[2]] = row'[y[1]][p][y[2]]
  <2>1. row' \in [Users -> [Products -> [LineIds -> LineRow \cup {None}]]]
    BY <1>1 DEF TypeOK
  <2> QED BY <1>1, <1>2, <2>1, LoadedNext DEF Restock, Places
<1>b. /\ cache' \in [Products -> Entry \cup {None}] \cup {None}
      /\ OrEmpty'[p] \in {None, e}
      /\ \A q \in Products \ {p} : OrEmpty'[q] = OrEmpty[q]
  BY <1>1, <1>a, ListWrite
<1>8. TypeOK'
  BY <1>1, <1>2, <1>7, <1>b DEF TypeOK
<1>9. UnitsOK(p)'
  <2>1. Stock(r) + Units(p) >= w
    <3>1. CASE r.quantity = product[p].quantity
      <4>1. Stock(r) = Stock(product[p])
        BY <3>1 DEF Stock
      <4> QED BY <1>1, <1>5, <3>1, <4>1 DEF UnitsOK
    <3>2. CASE r.quantity # product[p].quantity
      BY <1>3, <1>4, <1>5, <3>2
    <3> QED BY <3>1, <3>2
  <2> QED BY <1>2, <1>3, <1>7, <2>1 DEF UnitsOK
<1>10. UncreatedOK(p)'
  BY <1>1, <1>2 DEF UncreatedOK
<1>11. ListOK(p)'
  BY <1>1, <1>2, <1>a, <1>b, ListSame DEF Places
<1> QED BY <1>1, <1>2, <1>7, <1>8, <1>9, <1>10, <1>11, <1>b, ProductHandlerRest

(* deleteProduct: nothing is owed for a deleted product, and the list does *)
(* not have it.                                                            *)
LEMMA DeleteStep ==
  ASSUME ShopInv, NEW p \in Products, DeleteProduct(p) PROVE ShopInv'
<1> DEFINE r == [product[p] EXCEPT !.status = "DELETED"]
<1>1. /\ TypeOK /\ product[p].status = "ON_SALE" /\ product[p] \in Product
      /\ UNCHANGED <<cart, row, returned>>
  BY Parts DEF DeleteProduct, OnSale, TypeOK
<1>2. r \in Product /\ r.status = "DELETED"
  BY <1>1 DEF Product
<1>3. product' = [product EXCEPT ![p] = r]
  BY DEF DeleteProduct
<1> HIDE DEF r
<1>4. /\ product' \in [Products -> Product] /\ product'[p] = r
      /\ \A q \in Products \ {p} : product'[q] = product[q]
  BY <1>1, <1>2, <1>3, ProductUpdate
<1>5. /\ owed' \in [Products -> Int]
      /\ \A q \in Products \ {p} : owed'[q] = owed[q]
  BY <1>1 DEF DeleteProduct, TypeOK
<1>6. /\ cache' \in [Products -> Entry \cup {None}] \cup {None} /\ OrEmpty'[p] = None
      /\ \A q \in Products \ {p} : OrEmpty'[q] = OrEmpty[q]
  <2>1. CASE cache = None
    BY <2>1 DEF DeleteProduct, OrEmpty
  <2>2. CASE cache # None
    <3>1. Shows(p, None)
      BY <2>2 DEF DeleteProduct, Shows, OrEmpty
    <3> QED BY <1>1, <3>1, ListWrite
  <2> QED BY <2>1, <2>2
<1>7. TypeOK'
  BY <1>1, <1>4, <1>5, <1>6 DEF TypeOK
<1>8. UnitsOK(p)' /\ UncreatedOK(p)' /\ ListOK(p)'
  BY <1>2, <1>4, <1>6 DEF UnitsOK, UncreatedOK, OnSale, ListOK
<1> QED BY <1>1, <1>4, <1>5, <1>6, <1>7, <1>8, ProductHandlerRest

(* What the entity of a pair edit is: a product on sale whose lines are    *)
(* those of the table, but for one that the table no longer has.           *)
LEMMA TakenFacts ==
  ASSUME TypeOK, NEW p \in Products, ListOK(p), Taken(p).row.status = "ON_SALE",
         \A u \in Users : \A i \in Has(u, p) : Taken(p).lines[u][i] # None
  PROVE  /\ Taken(p) \in Entry /\ product[p].status = "ON_SALE"
         /\ \A u \in Users : \A i \in Has(u, p) : Taken(p).lines[u][i] = row[u][p][i]
<1>1. CASE OrEmpty[p] = None
  <2>1. Taken(p) = Loaded(p) /\ Loaded(p) \in Entry
    BY <1>1, ListTyped DEF Taken
  <2> QED BY <2>1 DEF Loaded, LinesOf, Has
<1>2. CASE OrEmpty[p] # None
  <2>1. Taken(p) = OrEmpty[p] /\ OrEmpty[p] \in Entry /\ p \in OnSale
    BY <1>2, ListTyped DEF Taken, ListOK
  <2>2. ASSUME NEW u \in Users, NEW i \in Has(u, p), OrEmpty[p].lines[u][i] # row[u][p][i]
        PROVE  FALSE
    <3>1. /\ <<u, i>> \in Behind(p) /\ <<u, i>>[1] = u /\ <<u, i>>[2] = i
          /\ row[u][p][i] # None
      BY <2>2 DEF Behind, Has
    <3>2. OrEmpty[p].lines[u][i] # None
      BY <2>1
    <3> QED BY <1>2, <3>1, <3>2 DEF ListOK
  <2> QED BY <2>1, <2>2 DEF OnSale
<1> QED BY <1>1, <1>2

(* updatePairQuantity: the lines of the entity are those of the table, and *)
(* what is owed is restated.  A line it brings back marks the cart.        *)
LEMMA PairStep ==
  ASSUME ShopInv, NEW p \in Products, UpdatePairQuantity(p) PROVE ShopInv'
<1> DEFINE e == Taken(p)
<1>1. /\ TypeOK /\ ListOK(p) /\ e.row.status = "ON_SALE"
      /\ \A u \in Users : \A i \in Has(u, p) : e.lines[u][i] # None
      /\ row' = [u \in Users |-> [row[u] EXCEPT ![p] = e.lines[u]]]
      /\ returned' = returned \cup
            {u \in Users : \E i \in LineIds \ Has(u, p) : e.lines[u][i] # None}
      /\ UNCHANGED <<cart, cache>>
  BY Parts DEF UpdatePairQuantity
<1>2. PICK n \in Pairs : \E r \in PairEdits(e.row, n) :
         /\ product' = [product EXCEPT ![p] = r]
         /\ owed' = [owed EXCEPT ![p] = Stock(r) + Units(p)']
  BY DEF UpdatePairQuantity
<1>a. PICK r \in PairEdits(e.row, n) :
         /\ product' = [product EXCEPT ![p] = r]
         /\ owed' = [owed EXCEPT ![p] = Stock(r) + Units(p)']
  BY <1>2
<1>3. /\ e \in Entry /\ product[p].status = "ON_SALE"
      /\ \A u \in Users : \A i \in Has(u, p) : e.lines[u][i] = row[u][p][i]
  BY <1>1, TakenFacts
<1> HIDE DEF e
<1>4. e.row \in Product /\ e.lines \in Lines
  BY <1>3 DEF Entry
<1>5. r \in Product /\ r.status = "ON_SALE"
  <2>1. n \in Nat \cup Pairs /\ 0 \in Nat \cup Pairs /\ 0 \in Nat \cup Quantities
    OBVIOUS
  <2>2. ASSUME NEW s \in Product, NEW m \in Nat \cup Pairs, s.status = "ON_SALE"
        PROVE  /\ [s EXCEPT !.pair = m] \in Product
               /\ [s EXCEPT !.pair = m].status = "ON_SALE"
               /\ [s EXCEPT !.pair = m, !.quantity = 0] \in Product
               /\ [s EXCEPT !.pair = m, !.quantity = 0].status = "ON_SALE"
    BY <2>1, <2>2 DEF Product
  <2>3. \E m \in Nat \cup Pairs : \/ r = [e.row EXCEPT !.pair = m]
                                  \/ r = [e.row EXCEPT !.pair = m, !.quantity = 0]
    BY <1>a, <2>1 DEF PairEdits
  <2> QED BY <1>1, <1>4, <2>2, <2>3
<1>6. /\ product' \in [Products -> Product] /\ product'[p] = r
      /\ \A q \in Products \ {p} : product'[q] = product[q]
  BY <1>1, <1>5, <1>a, ProductUpdate
<1>7. /\ row' \in [Users -> [Products -> [LineIds -> LineRow \cup {None}]]]
      /\ \A u \in Users : row'[u][p] = e.lines[u]
      /\ \A u \in Users, q \in Products \ {p} : row'[u][q] = row[u][q]
  BY <1>1, <1>4 DEF TypeOK, Lines
<1>8. Units(p)' \in Int
  <2>1. PICK g : g = UnitsOf(p)'
    OBVIOUS
  <2>2. \A x \in Places : UnitsIn(row'[x[1]][p][x[2]]) \in Int
    BY <1>7 DEF Places, UnitsIn, LineRow
  <2>3. IsFiniteSet(Places)
    BY ShopAssumption, FS_Product DEF Places, ShopAssumption
  <2>4. Terms(g)
    BY <2>1, <2>2, <2>3 DEF Terms, UnitsOf
  <2>5. Total(g) = Units(p)'
    BY <2>1 DEF UnitsOf, Places, Units, Total, Pile
  <2> QED BY <2>4, <2>5, TotalSplit
<1>9. Stock(r) \in Int
  BY <1>5, StockFacts
<1>10. /\ owed' \in [Products -> Int] /\ owed'[p] = Stock(r) + Units(p)'
       /\ \A q \in Products \ {p} : owed'[q] = owed[q]
  <2>1. PICK w \in Int : w = Stock(r) + Units(p)'
    BY <1>8, <1>9
  <2>2. owed' = [owed EXCEPT ![p] = w]
    BY <1>a, <2>1
  <2> QED BY <1>1, <2>1, <2>2 DEF TypeOK
<1>11. TypeOK'
  BY <1>1, <1>6, <1>7, <1>10 DEF TypeOK
<1>12. ASSUME NEW u \in Users, u \notin returned' PROVE u \notin returned /\ row'[u] = row[u]
  <2>1. u \notin returned /\ \A i \in LineIds \ Has(u, p) : e.lines[u][i] = None
    BY <1>1, <1>12
  <2>2. \A i \in LineIds : e.lines[u][i] = row[u][p][i]
    BY <1>3, <2>1 DEF Has
  <2>3. row'[u][p] = row[u][p]
    BY <1>1, <1>4, <1>7, <2>2 DEF TypeOK, Lines
  <2> QED BY <1>1, <1>7, <2>1, <2>3 DEF TypeOK
<1>13. UnitsOK(p)' /\ UncreatedOK(p)'
  BY <1>5, <1>6, <1>8, <1>9, <1>10 DEF UnitsOK, UncreatedOK
<1>14. OrEmpty' = OrEmpty
  BY <1>1 DEF OrEmpty
<1>15. ListOK(p)'
  <2>1. OrEmpty[p] # None => e = OrEmpty[p]
    BY DEF e, Taken
  <2>2. OrEmpty'[p] # None => \A x \in Users \X LineIds :
           OrEmpty'[p].lines[x[1]][x[2]] = row'[x[1]][p][x[2]]
    BY <1>7, <1>14, <2>1
  <2> QED BY <1>5, <1>6, <2>2, ListSame
<1> QED BY <1>1, <1>3, <1>6, <1>7, <1>10, <1>11, <1>12, <1>13, <1>14, <1>15,
           ProductHandlerRest

(* The steps of the list alone: it is loaded, or expires. *)
LEMMA ListStep ==
  ASSUME ShopInv, GetAllProducts \/ CacheExpires PROVE ShopInv'
<1>1. /\ TypeOK /\ \A u \in Users : u \notin returned => CartOK(u)
      /\ \A p \in Products : ListOK(p) /\ UnitsOK(p) /\ UncreatedOK(p)
      /\ UNCHANGED <<product, cart, row, owed, returned>>
  BY Parts DEF GetAllProducts, CacheExpires
<1>2. cache' \in [Products -> Entry \cup {None}] \cup {None}
  <2>1. \A p \in Products : (IF p \in OnSale THEN Loaded(p) ELSE None) \in Entry \cup {None}
    BY <1>1, ListTyped
  <2> QED BY <2>1 DEF GetAllProducts, CacheExpires
<1>3. TypeOK'
  BY <1>1, <1>2 DEF TypeOK
<1>4. ASSUME NEW p \in Products PROVE ListOK(p)'
  <2>1. OrEmpty'[p] # None => p \in OnSale /\ OrEmpty'[p] = Loaded(p)
    <3>1. CASE GetAllProducts
      BY <3>1 DEF GetAllProducts, OrEmpty
    <3>2. CASE CacheExpires
      BY <3>2 DEF CacheExpires, OrEmpty
    <3> QED BY <3>1, <3>2
  <2>2. OrEmpty'[p] # None => \A x \in Users \X LineIds :
           OrEmpty'[p].lines[x[1]][x[2]] = row'[x[1]][p][x[2]]
    BY <1>1, <2>1 DEF Loaded, LinesOf
  <2> QED BY <1>1, <2>1, <2>2, ListSame DEF OnSale
<1>5. ASSUME NEW p \in Products PROVE UnitsOK(p)' /\ UncreatedOK(p)'
  <2>1. Units(p)' = Units(p)
    BY <1>1, UnitsSame
  <2>2. \A u \in Users : Has(u, p)' = Has(u, p)
    BY <1>1 DEF Has
  <2> QED BY <1>1, <2>1, <2>2 DEF UnitsOK, OnSale, UncreatedOK
<1>6. \A u \in Users : u \notin returned' => CartOK(u)'
  BY <1>1, CartKept
<1> QED BY <1>3, <1>4, <1>5, <1>6, PartsNext

(* No handler leaves the invariant. *)
LEMMA HandlerStep ==
  ASSUME ShopInv, Handler \/ CacheExpires PROVE ShopInv'
<1>1. ASSUME NEW u \in Users, NEW p \in Products, CartHandler(u, p) PROVE ShopInv'
  <2>1. product[p] \in Product
    BY ProductFacts DEF ShopInv
  <2>2. CASE AddToCart(u, p)
    BY <2>2, AddToCartStep
  <2>3. CASE RemoveProductFromCart(u, p)
    BY <2>3, RemoveStep
  <2>4. CASE UpdateCartQuantity(u, p)
    <3>1. /\ TakeOne(product[p]) \in Product
          /\ TakeOne(product[p]).status = product[p].status
          /\ Stock(TakeOne(product[p])) >= Stock(product[p]) - 1
      BY <2>1, StockFacts
    <3> QED BY <2>4, <3>1, QuantityStep DEF UpdateCartQuantity
  <2>5. CASE UpdateCartQuantityDecrease(u, p)
    <3>1. /\ ReturnOne(product[p]) \in Product
          /\ ReturnOne(product[p]).status = product[p].status
          /\ Stock(ReturnOne(product[p])) >= Stock(product[p]) + 1
      BY <2>1, StockFacts
    <3>2. Stock(product[p]) \in Int /\ -1 \in Int
      BY <2>1, StockFacts
    <3>3. Stock(ReturnOne(product[p])) >= Stock(product[p]) - (-1)
      BY <3>1, <3>2
    <3> QED BY <2>5, <3>1, <3>2, <3>3, QuantityStep DEF UpdateCartQuantityDecrease
  <2> QED BY <1>1, <2>2, <2>3, <2>4, <2>5 DEF CartHandler
<1>2. ASSUME NEW p \in Products, ProductHandler(p) PROVE ShopInv'
  <2>1. product[p] \in Product /\ TypeOK
    BY ProductFacts DEF ShopInv
  <2>2. CASE CreateProduct(p)
    BY <2>2, CreateStep
  <2>3. CASE UpdateProductInventory(p)
    <3>1. PICK q \in Quantities \cup {product[p].quantity}, inStock \in BOOLEAN :
             Restock(p, [product[p] EXCEPT !.quantity = q, !.inStock = inStock])
      BY <2>3 DEF UpdateProductInventory
    <3>2. q \in Nat \cup Quantities
      BY <2>1, <3>1 DEF Product
    <3>3. PICK r : r = [product[p] EXCEPT !.quantity = q, !.inStock = inStock]
      OBVIOUS
    <3>4. r \in Product /\ r.status = product[p].status /\ r.pair = product[p].pair
      BY <2>1, <3>2, <3>3 DEF Product
    <3> QED BY <2>3, <3>1, <3>3, <3>4, RestockStep DEF UpdateProductInventory
  <2>4. CASE UpdateProductGeneral(p)
    <3>1. PICK price \in Prices, q \in Quantities \cup {product[p].quantity},
               inStock \in BOOLEAN :
             Restock(p, [product[p] EXCEPT !.price = price, !.quantity = q,
                           !.inStock = inStock])
      BY <2>4 DEF UpdateProductGeneral
    <3>2. q \in Nat \cup Quantities
      BY <2>1, <3>1 DEF Product
    <3>3. PICK r : r = [product[p] EXCEPT !.price = price, !.quantity = q,
                          !.inStock = inStock]
      OBVIOUS
    <3>4. r \in Product /\ r.status = product[p].status /\ r.pair = product[p].pair
      BY <2>1, <3>2, <3>3 DEF Product
    <3> QED BY <2>4, <3>1, <3>3, <3>4, RestockStep DEF UpdateProductGeneral
  <2>5. CASE DeleteProduct(p)
    BY <2>5, DeleteStep
  <2>6. CASE UpdatePairQuantity(p)
    BY <2>6, PairStep
  <2> QED BY <1>2, <2>2, <2>3, <2>4, <2>5, <2>6 DEF ProductHandler
<1> QED BY <1>1, <1>2, ListStep DEF Handler

(* The empty shop owes nothing. *)
LEMMA InitShop == Init => ShopInv
<1> SUFFICES ASSUME Init PROVE ShopInv
  OBVIOUS
<1>1. TypeOK
  BY DEF Init, TypeOK, Absent, EmptyCart, Product
<1>2. ASSUME NEW u \in Users PROVE CartOK(u)
  <2>1. /\ cart[u].products = {} /\ cart[u].subTotal = 0
        /\ \A p \in Products : Has(u, p) = {}
    BY DEF Init, EmptyCart, Has
  <2>2. Total(PricesOf(u)) = 0
    <3>1. DOMAIN PricesOf(u) = {}
      BY <2>1 DEF PricesOf, Mine
    <3> QED BY <3>1, TotalZero
  <2> QED BY <2>1, <2>2 DEF CartOK
<1>3. \A p \in Products : UnitsOK(p) /\ UncreatedOK(p) /\ ListOK(p)
  BY DEF Init, Absent, UnitsOK, UncreatedOK, OnSale, Has, ListOK, OrEmpty
<1> QED BY <1>1, <1>2, <1>3, Parts

-----------------------------------------------------------------------------
(* The types, the sums of the carts, the units, and what the list may have *)
(* of a product, after any sequence of cart and product operations.        *)
THEOREM ShopInvariant == Spec => []ShopInv
<1>1. ShopInv /\ [Next]_vars => ShopInv'
  <2> SUFFICES ASSUME ShopInv, [Next]_vars PROVE ShopInv'
    OBVIOUS
  <2>1. CASE Next
    BY <2>1, HandlerStep DEF Next
  <2>2. CASE UNCHANGED vars
    <3>1. TypeOK'
      BY <2>2, Parts DEF vars, TypeOK
    <3>2. \A u \in Users : u \notin returned' => CartOK(u)'
      BY <2>2, CartKept, Parts DEF vars
    <3>3. ASSUME NEW p \in Products PROVE ListOK(p)' /\ UnitsOK(p)' /\ UncreatedOK(p)'
      <4>1. ListOK(p)'
        BY <2>2, ListKept, Parts DEF vars, OrEmpty
      <4>2. Units(p)' = Units(p) /\ \A u \in Users : Has(u, p)' = Has(u, p)
        BY <2>2, UnitsSame DEF vars, Has
      <4> QED BY <2>2, <4>1, <4>2, Parts DEF vars, UnitsOK, UncreatedOK, OnSale
    <3> QED BY <3>1, <3>2, <3>3, PartsNext
  <2> QED BY <2>1, <2>2
<1> QED BY <1>1, InitShop, PTL DEF Spec

(* Stock, prices, lines and the list keep their types: no handler of a     *)
(* cart makes the stock negative.                                          *)
THEOREM TypeCorrect == Spec => []TypeOK
<1>1. ShopInv => TypeOK
  BY DEF ShopInv
<1> QED BY <1>1, ShopInvariant, PTL

(* Until a pair edit puts a removed line back, the sub_total a user sees   *)
(* is the sum of the lines of the cart, whatever prices were edited or     *)
(* products deleted in between.                                            *)
THEOREM CartsAddUp == Spec => []CartTotals
<1>1. ShopInv => CartTotals
  <2> SUFFICES ASSUME ShopInv, NEW u \in Users \ returned
               PROVE  LET lines == ViewCart(u).lines
                          mine  == {x \in DOMAIN lines : x[1] \in cart[u].products}
                      IN  /\ \A p \in cart[u].products : \E i \in LineIds :
                                 {x \in mine : x[1] = p} = {<<p, i>>}
                          /\ ViewCart(u).subTotal = Total([x \in mine |-> lines[x].price])
                          /\ \A x \in DOMAIN lines \ mine : product[x[1]].status = "DELETED"
    BY Zenon DEF CartTotals
  <2>1. /\ ViewCart(u).lines = [x \in Shown(u) |-> row[u][x[1]][x[2]]]
        /\ DOMAIN ViewCart(u).lines = Shown(u)
        /\ ViewCart(u).subTotal = cart[u].subTotal
    BY DEF ViewCart
  <2>2. {x \in Shown(u) : x[1] \in cart[u].products} = Mine(u)
    BY DEF Mine
  <2>3. CartOK(u) /\ cart[u].products \subseteq Products
    BY DEF ShopInv, TypeOK
  <2>4. [x \in Mine(u) |-> ViewCart(u).lines[x].price] = PricesOf(u)
    BY <2>1 DEF PricesOf, Mine
  <2>5. \A p \in cart[u].products : \E i \in LineIds : {x \in Mine(u) : x[1] = p} = {<<p, i>>}
    <3>1. ASSUME NEW p \in cart[u].products, NEW i \in LineIds, Has(u, p) = {i}
          PROVE  {x \in Mine(u) : x[1] = p} = {<<p, i>>}
      <4>1. <<p, i>> \in Mine(u)
        BY <2>3, <3>1 DEF Mine, Shown, Has
      <4>2. ASSUME NEW x \in Mine(u), x[1] = p PROVE x = <<p, i>>
        <5>1. x \in Products \X LineIds /\ x[2] \in Has(u, p)
          BY <4>2 DEF Mine, Shown, Has
        <5> QED BY <3>1, <4>2, <5>1
      <4> QED BY <4>1, <4>2
    <3> QED BY <2>3, <3>1 DEF CartOK
  <2>6. \A x \in Shown(u) \ Mine(u) : product[x[1]].status = "DELETED"
    <3>1. ASSUME NEW x \in Shown(u) \ Mine(u) PROVE product[x[1]].status = "DELETED"
      <4>1. /\ x[1] \in Products \ cart[u].products /\ x[2] \in Has(u, x[1])
        BY DEF Shown, Mine, Has
      <4> QED BY <2>3, <4>1 DEF CartOK
    <3> QED BY <3>1
  <2> QED BY <2>1, <2>2, <2>3, <2>4, <2>5, <2>6 DEF CartOK
<1> QED BY <1>1, ShopInvariant, PTL

(* No sequence of cart operations makes a unit of a product on sale vanish. *)
THEOREM UnitsAreKept == Spec => []UnitsNeverVanish
<1>1. ShopInv => UnitsNeverVanish
  BY DEF ShopInv, UnitsNeverVanish, UnitsOK, OnSale
<1> QED BY <1>1, ShopInvariant, PTL

(* What a pair edit saves has the lines of the table, but for one that was *)
(* removed, whatever handlers and expiries came before.                    *)
THEOREM ListLagsBehind == Spec => []ListLagsOneLine
<1>1. ShopInv => ListLagsOneLine
  BY DEF ShopInv
<1> QED BY <1>1, ShopInvariant, PTL
=============================================================================
