--------------------------- MODULE CatalogueProofs ---------------------------
(***************************************************************************)
(* Proofs about Catalogue, for any products, prices, users, requests in    *)
(* flight and failing queries, and lists of any length.  CopiesInv is      *)
(* inductive; the properties are conjuncts of it.                          *)
(***************************************************************************)
EXTENDS Catalogue, FilterProofs

-----------------------------------------------------------------------------
(* The cached list: what find, findIndex, the push, the merge and the      *)
(* filter do to the entry that a search finds.                             *)

Product == [id : Products, row : Row]

(* None is no row and no entry. *)
LEMMA NoneIsNothing ==
  ASSUME CatalogueAssumption
  PROVE  None \notin Row /\ None \notin Product /\ None \notin Products /\ None \notin Users
  BY DEF CatalogueAssumption, Product

(* Entries are rows of products, and null. *)
LEMMA EntriesOf == Entries = Product \cup {None}
  BY DEF Entries, Product

(* find stops at the first hit. *)
LEMMA FirstIsLeast ==
  ASSUME NEW S \in SUBSET Nat, S # {}
  PROVE  First(S) \in S /\ \A j \in S : First(S) <= j
  BY Least DEF First

(* And there is one first hit. *)
LEMMA FirstIsUnique ==
  ASSUME NEW S \in SUBSET Nat, NEW i \in S, \A j \in S : i <= j
  PROVE  First(S) = i
<1>1. First(S) \in S /\ First(S) <= i
  BY FirstIsLeast
<1>2. i <= First(S) /\ i \in Nat /\ First(S) \in Nat
  BY <1>1
<1> QED BY <1>1, <1>2

-----------------------------------------------------------------------------
(* What a search of the list finds.                                        *)

LEMMA ListFacts ==
  ASSUME CatalogueAssumption, NEW l \in Seq(Entries)
  PROVE  /\ Len(l) \in Nat
         /\ DOMAIN l = 1 .. Len(l)
         /\ \A i \in DOMAIN l : l[i] \in Entries
         /\ \A i \in DOMAIN l : l[i] # None =>
               l[i].id \in Products /\ l[i].row \in Row /\ l[i] = [id |-> l[i].id, row |-> l[i].row]
<1>1. Len(l) \in Nat /\ DOMAIN l = 1 .. Len(l) /\ \A i \in DOMAIN l : l[i] \in Entries
  BY LenProperties
<1>2. \A e \in Product : e.id \in Products /\ e.row \in Row /\ e = [id |-> e.id, row |-> e.row]
  BY DEF Product
<1> QED BY <1>1, <1>2, EntriesOf

LEMMA HitFacts ==
  ASSUME CatalogueAssumption, NEW l \in Seq(Entries), NEW p
  PROVE  /\ ById(l, p) \in SUBSET Nat
         /\ ById(l, p) \subseteq DOMAIN l
         /\ OnSaleById(l, p) \in SUBSET Nat
         /\ OnSaleById(l, p) \subseteq ById(l, p)
         /\ \A i \in ById(l, p) : p \in Products /\ l[i].row \in Row /\ l[i] # None /\ l[i].id = p
  BY ListFacts DEF ById, OnSaleById

(* The row of the first hit is found. *)
LEMMA FoundAt ==
  ASSUME CatalogueAssumption, NEW l \in Seq(Entries), NEW p,
         NEW i \in OnSaleById(l, p), \A j \in OnSaleById(l, p) : i <= j
  PROVE  FoundIn(l, p) = l[i].row /\ l[i].row \in Row /\ FoundIn(l, p) # None
<1>1. First(OnSaleById(l, p)) = i
  BY HitFacts, FirstIsUnique
<1> QED BY <1>1, HitFacts, NoneIsNothing DEF FoundIn

(* Nothing is found when no entry of the product is on sale. *)
LEMMA FoundNowhere ==
  ASSUME NEW l, NEW p, OnSaleById(l, p) = {}
  PROVE  FoundIn(l, p) = None
  BY DEF FoundIn

LEMMA FoundFacts ==
  ASSUME CatalogueAssumption, NEW l \in Seq(Entries), NEW p
  PROVE  \/ FoundIn(l, p) = None /\ OnSaleById(l, p) = {}
         \/ /\ FoundIn(l, p) \in Row /\ FoundIn(l, p) # None
            /\ FoundIn(l, p).status = "ON_SALE"
            /\ p \in Products
            /\ \E i \in OnSaleById(l, p) :
                  FoundIn(l, p) = l[i].row /\ \A j \in OnSaleById(l, p) : i <= j
<1>1. CASE OnSaleById(l, p) = {}
  BY <1>1, FoundNowhere
<1>2. CASE OnSaleById(l, p) # {}
  <2>1. PICK i \in OnSaleById(l, p) : \A j \in OnSaleById(l, p) : i <= j
    BY <1>2, Least, HitFacts
  <2>2. FoundIn(l, p) = l[i].row /\ l[i].row \in Row /\ FoundIn(l, p) # None
    BY <2>1, FoundAt
  <2>3. l[i].row.status = "ON_SALE" /\ p \in Products
    BY HitFacts DEF OnSaleById
  <2> QED BY <2>1, <2>2, <2>3
<1> QED BY <1>1, <1>2

(* An id is listed when some entry has it. *)
LEMMA IdsFacts ==
  ASSUME CatalogueAssumption, NEW l \in Seq(Entries), NEW p
  PROVE  p \in Ids(l) <=> ById(l, p) # {}
  BY DEF Ids, ById

LEMMA FoundIsListed ==
  ASSUME CatalogueAssumption, NEW l \in Seq(Entries), NEW p, FoundIn(l, p) # None
  PROVE  p \in Ids(l)
  BY FoundFacts, HitFacts, IdsFacts

LEMMA EmptyList ==
  ASSUME CatalogueAssumption
  PROVE  /\ <<>> \in Seq(Entries)
         /\ DOMAIN <<>> = {}
         /\ Ids(<<>>) = {}
         /\ \A p : ById(<<>>, p) = {} /\ FoundIn(<<>>, p) = None
<1>1. <<>> \in Seq(Entries) /\ DOMAIN <<>> = {}
  BY EmptySeq
<1>2. Ids(<<>>) = {}
  BY <1>1 DEF Ids
<1>3. \A p : ById(<<>>, p) = {}
  BY <1>1 DEF ById
<1>4. \A p : OnSaleById(<<>>, p) = {}
  BY <1>3 DEF OnSaleById
<1> QED BY <1>1, <1>2, <1>3, <1>4, FoundNowhere

(* When two lists have the same first entry on sale for p, or have none,   *)
(* the same is found in both.                                              *)
LEMMA SameHit ==
  ASSUME CatalogueAssumption, NEW k \in Seq(Entries), NEW l \in Seq(Entries), NEW p,
         NEW i \in OnSaleById(k, p), NEW j \in OnSaleById(l, p),
         \A x \in OnSaleById(k, p) : i <= x, \A x \in OnSaleById(l, p) : j <= x,
         k[i] = l[j]
  PROVE  FoundIn(k, p) = FoundIn(l, p)
<1>1. FoundIn(k, p) = k[i].row
  BY FoundAt
<1>2. FoundIn(l, p) = l[j].row
  BY FoundAt
<1> QED BY <1>1, <1>2

-----------------------------------------------------------------------------
(* A push is found only when nothing else was.                             *)
LEMMA PushFacts ==
  ASSUME CatalogueAssumption, NEW l \in Seq(Entries), NEW e \in Entries
  PROVE  /\ Append(l, e) \in Seq(Entries)
         /\ Len(Append(l, e)) = Len(l) + 1
         /\ \A i \in 1 .. Len(l) : Append(l, e)[i] = l[i]
         /\ Append(l, e)[Len(l) + 1] = e
         /\ DOMAIN Append(l, e) = (DOMAIN l) \cup {Len(l) + 1}
         /\ DOMAIN l = 1 .. Len(l)
         /\ Len(l) \in Nat
<1>1. /\ Append(l, e) \in Seq(Entries)
      /\ Len(Append(l, e)) = Len(l) + 1
      /\ \A i \in 1 .. Len(l) : Append(l, e)[i] = l[i]
      /\ Append(l, e)[Len(l) + 1] = e
  BY AppendProperties
<1>2. /\ Len(l) \in Nat /\ DOMAIN l = 1 .. Len(l)
      /\ DOMAIN Append(l, e) = 1 .. (Len(l) + 1)
  BY <1>1, LenProperties
<1>3. 1 .. (Len(l) + 1) = (1 .. Len(l)) \cup {Len(l) + 1}
  BY <1>2
<1> QED BY <1>1, <1>2, <1>3

LEMMA FoundAfterPush ==
  ASSUME CatalogueAssumption, NEW l \in Seq(Entries), NEW e \in Entries, NEW p
  PROVE  /\ FoundIn(l, p) # None => FoundIn(Append(l, e), p) = FoundIn(l, p)
         /\ FoundIn(l, p) = None /\ (e = None \/ e.id # p) => FoundIn(Append(l, e), p) = None
         /\ FoundIn(l, p) = None =>
               FoundIn(Append(l, e), p) = None \/ (e # None /\ FoundIn(Append(l, e), p) = e.row)
<1> DEFINE k == Append(l, e)
           last == Len(l) + 1
<1>1. /\ k \in Seq(Entries) /\ DOMAIN k = (DOMAIN l) \cup {last}
      /\ \A i \in DOMAIN l : k[i] = l[i] /\ i < last
      /\ k[last] = e /\ last \notin DOMAIN l /\ last \in Nat
  <2> HIDE DEF k
  <2>1. /\ k \in Seq(Entries) /\ DOMAIN k = (DOMAIN l) \cup {last} /\ DOMAIN l = 1 .. Len(l)
        /\ \A i \in 1 .. Len(l) : k[i] = l[i]
        /\ k[last] = e /\ Len(l) \in Nat
    BY PushFacts DEF k
  <2>2. \A i \in 1 .. Len(l) : i < last
    BY <2>1
  <2>3. last \notin 1 .. Len(l)
    BY <2>1
  <2> QED BY <2>1, <2>2, <2>3
<1> HIDE DEF k, last
<1>2. /\ OnSaleById(k, p) \cap DOMAIN l = OnSaleById(l, p)
      /\ OnSaleById(k, p) \subseteq DOMAIN l \cup {last}
  BY <1>1 DEF OnSaleById, ById
<1>3. ASSUME FoundIn(l, p) # None PROVE FoundIn(k, p) = FoundIn(l, p)
  <2>1. PICK i \in OnSaleById(l, p) : \A j \in OnSaleById(l, p) : i <= j
    BY <1>3, FoundFacts
  <2>2. i \in DOMAIN l /\ i \in OnSaleById(k, p) /\ i < last /\ k[i] = l[i]
    BY <1>1, <1>2, <2>1
  <2>3. \A j \in OnSaleById(k, p) : i <= j
    <3>1. \A j \in OnSaleById(k, p) : j \in OnSaleById(l, p) \/ j = last
      BY <1>2
    <3>2. i \in Nat
      BY HitFacts
    <3> QED BY <1>1, <2>1, <2>2, <3>1, <3>2
  <2> QED BY <1>1, <2>1, <2>2, <2>3, SameHit
<1>4. ASSUME FoundIn(l, p) = None, e = None \/ e.id # p PROVE FoundIn(k, p) = None
  <2>1. OnSaleById(l, p) = {}
    BY <1>4, FoundFacts
  <2>2. OnSaleById(k, p) = {}
    BY <1>1, <1>2, <1>4, <2>1 DEF OnSaleById, ById
  <2> QED BY <2>2, FoundNowhere
<1>5. ASSUME FoundIn(l, p) = None
      PROVE  FoundIn(k, p) = None \/ (e # None /\ FoundIn(k, p) = e.row)
  <2>1. OnSaleById(l, p) = {}
    BY <1>5, FoundFacts
  <2>2. CASE FoundIn(k, p) # None
    <3>1. PICK i \in OnSaleById(k, p) : FoundIn(k, p) = k[i].row
      BY <1>1, <2>2, FoundFacts
    <3>2. i = last
      BY <1>2, <2>1, <3>1
    <3>3. k[i] = e /\ k[i] # None
      BY <1>1, <3>1, <3>2, HitFacts
    <3> QED BY <3>1, <3>3
  <2> QED BY <2>2
<1> QED BY <1>3, <1>4, <1>5 DEF k

-----------------------------------------------------------------------------
(* A merge changes the first entry of the product and no other.            *)
LEMMA MergeFacts ==
  ASSUME CatalogueAssumption, NEW l \in Seq(Entries), NEW p, NEW r \in Row, ById(l, p) # {}
  PROVE  /\ First(ById(l, p)) \in ById(l, p)
         /\ \A j \in ById(l, p) : First(ById(l, p)) <= j
         /\ Merged(l, p, r) \in Seq(Entries)
         /\ DOMAIN Merged(l, p, r) = DOMAIN l
         /\ \A j \in DOMAIN l :
               Merged(l, p, r)[j] = IF j = First(ById(l, p)) THEN [id |-> p, row |-> r] ELSE l[j]
<1> DEFINE f == First(ById(l, p))
           e == [id |-> p, row |-> r]
<1>1. f \in ById(l, p) /\ \A j \in ById(l, p) : f <= j
  BY HitFacts, FirstIsLeast
<1>2. f \in 1 .. Len(l) /\ p \in Products /\ DOMAIN l = 1 .. Len(l)
  BY <1>1, HitFacts, ListFacts
<1>3. e \in Entries
  BY <1>2, EntriesOf DEF Product
<1>4. r # None
  BY NoneIsNothing
<1>5. Merged(l, p, r) = [l EXCEPT ![f] = e]
  BY <1>4 DEF Merged, Entry
<1> HIDE DEF f, e
<1>6. /\ [l EXCEPT ![f] = e] \in Seq(Entries)
      /\ DOMAIN [l EXCEPT ![f] = e] = DOMAIN l
      /\ \A j \in 1 .. Len(l) : [l EXCEPT ![f] = e][j] = IF j = f THEN e ELSE l[j]
  BY <1>2, <1>3, ExceptSeq
<1> QED BY <1>1, <1>2, <1>5, <1>6 DEF f, e

(* What is found of the other products stays, of the product itself it is  *)
(* the row that was merged or, when that is not on sale, nothing new.      *)
LEMMA FoundAfterMerge ==
  ASSUME CatalogueAssumption, NEW l \in Seq(Entries), NEW p, NEW r \in Row, ById(l, p) # {}
  PROVE  /\ \A x : x # p => FoundIn(Merged(l, p, r), x) = FoundIn(l, x)
         /\ r.status = "ON_SALE" => FoundIn(Merged(l, p, r), p) = r
         /\ r.status # "ON_SALE" /\ FoundIn(l, p) = None => FoundIn(Merged(l, p, r), p) = None
         /\ Ids(Merged(l, p, r)) = Ids(l)
<1> DEFINE k == Merged(l, p, r)
           f == First(ById(l, p))
           e == [id |-> p, row |-> r]
<1>1. /\ f \in ById(l, p) /\ f \in DOMAIN l /\ f \in Nat
      /\ \A j \in ById(l, p) : f <= j
      /\ k \in Seq(Entries) /\ DOMAIN k = DOMAIN l
      /\ \A j \in DOMAIN l : k[j] = IF j = f THEN e ELSE l[j]
  BY MergeFacts, HitFacts
<1>2. e # None /\ e.id = p /\ e.row = r
  BY <1>1, HitFacts, NoneIsNothing DEF Product
<1>3. l[f].id = p /\ l[f] # None
  BY <1>1, HitFacts
<1> HIDE DEF k, f, e
<1>4. \A x : ById(k, x) = ById(l, x)
  BY <1>1, <1>2, <1>3 DEF ById
<1>5. ASSUME NEW x, x # p PROVE FoundIn(k, x) = FoundIn(l, x)
  <2>1. f \notin ById(l, x)
    BY <1>3, <1>5 DEF ById
  <2>2. OnSaleById(k, x) = OnSaleById(l, x) /\ \A j \in OnSaleById(l, x) : k[j] = l[j]
    BY <1>1, <1>4, <2>1, HitFacts DEF OnSaleById
  <2>3. CASE OnSaleById(l, x) = {}
    BY <2>2, <2>3, FoundNowhere
  <2>4. CASE OnSaleById(l, x) # {}
    <3>1. PICK i \in OnSaleById(l, x) : \A j \in OnSaleById(l, x) : i <= j
      BY <2>4, Least, HitFacts
    <3> QED BY <1>1, <2>2, <3>1, SameHit
  <2> QED BY <2>3, <2>4
<1>6. ASSUME r.status = "ON_SALE" PROVE FoundIn(k, p) = r
  <2>1. f \in OnSaleById(k, p)
    BY <1>1, <1>2, <1>4, <1>6 DEF OnSaleById
  <2>2. \A j \in OnSaleById(k, p) : f <= j
    BY <1>1, <1>4, HitFacts
  <2>3. FoundIn(k, p) = k[f].row
    BY <1>1, <2>1, <2>2, FoundAt
  <2> QED BY <1>1, <1>2, <2>3
<1>7. ASSUME r.status # "ON_SALE", FoundIn(l, p) = None PROVE FoundIn(k, p) = None
  <2>1. OnSaleById(l, p) = {}
    BY <1>7, FoundFacts
  <2>2. OnSaleById(k, p) = {}
    BY <1>1, <1>2, <1>4, <1>7, <2>1, HitFacts DEF OnSaleById
  <2> QED BY <2>2, FoundNowhere
<1>8. Ids(k) = Ids(l)
  <2>1. \A x : x \in Ids(k) <=> x \in Ids(l)
    BY <1>1, <1>4, IdsFacts
  <2> QED BY <2>1
<1> QED BY <1>5, <1>6, <1>7, <1>8 DEF k

-----------------------------------------------------------------------------
(* The filter keeps the entries of the other products in their order.      *)
Kept(l, p) == {i \in DOMAIN l : l[i].id # p}

LEMMA FilterFacts ==
  ASSUME CatalogueAssumption, NEW l \in Seq(Entries), NEW p
  PROVE  /\ Cardinality(Kept(l, p)) \in Nat
         /\ Ascending(Kept(l, p)) \in [1 .. Cardinality(Kept(l, p)) -> Kept(l, p)]
         /\ Without(l, p) =
               [i \in 1 .. Cardinality(Kept(l, p)) |-> l[Ascending(Kept(l, p))[i]]]
         /\ \A j, k \in 1 .. Cardinality(Kept(l, p)) :
               j < k => Ascending(Kept(l, p))[j] < Ascending(Kept(l, p))[k]
         /\ \A i \in Kept(l, p) :
               \E j \in 1 .. Cardinality(Kept(l, p)) : Ascending(Kept(l, p))[j] = i
<1>1. Kept(l, p) \in SUBSET DOMAIN l /\ Without(l, p) = Selected(l, Kept(l, p))
  BY DEF Without, Kept
<1> QED BY <1>1, SelectedIs

(* The product is gone from the list, and of the others is found what was. *)
LEMMA FoundAfterFilter ==
  ASSUME CatalogueAssumption, NEW l \in Seq(Entries), NEW p, \A i \in DOMAIN l : l[i] # None
  PROVE  /\ Without(l, p) \in Seq(Entries)
         /\ \A i \in DOMAIN Without(l, p) : Without(l, p)[i] # None
         /\ FoundIn(Without(l, p), p) = None
         /\ \A x : x # p => FoundIn(Without(l, p), x) = FoundIn(l, x)
         /\ Ids(Without(l, p)) \subseteq Ids(l)
<1> DEFINE w == Without(l, p)
           n == Cardinality(Kept(l, p))
           g == Ascending(Kept(l, p))
<1>1. /\ n \in Nat /\ g \in [1 .. n -> Kept(l, p)]
      /\ w = [i \in 1 .. n |-> l[g[i]]]
      /\ \A j, k \in 1 .. n : j < k => g[j] < g[k]
      /\ \A i \in Kept(l, p) : \E j \in 1 .. n : g[j] = i
  BY FilterFacts
<1> HIDE DEF w, n, g
<1>2. \A i \in 1 .. n : g[i] \in DOMAIN l /\ l[g[i]].id # p /\ w[i] = l[g[i]]
  BY <1>1 DEF Kept
<1>3. DOMAIN w = 1 .. n
  BY <1>1
<1>4. w \in Seq(Entries)
  <2>1. \A i \in 1 .. n : l[g[i]] \in Entries
    BY <1>2, ListFacts
  <2>2. w \in [1 .. n -> Entries]
    BY <1>1, <2>1
  <2>3. w \in UNION {[1 .. m -> Entries] : m \in Nat}
    BY <1>1, <2>2
  <2> QED BY <2>3, SeqDef, Zenon
<1>5. \A i \in DOMAIN w : w[i] # None /\ w[i].id # p
  BY <1>2, <1>3
<1>6. FoundIn(w, p) = None
  <2>1. OnSaleById(w, p) = {}
    BY <1>5 DEF OnSaleById, ById
  <2> QED BY <2>1, FoundNowhere
<1>7. \A x : \A i \in OnSaleById(w, x) : g[i] \in OnSaleById(l, x)
  BY <1>2, <1>3 DEF OnSaleById, ById
<1>8. ASSUME NEW x, x # p PROVE FoundIn(w, x) = FoundIn(l, x)
  <2>1. CASE OnSaleById(l, x) = {}
    BY <1>7, <2>1, FoundNowhere
  <2>2. CASE OnSaleById(l, x) # {}
    <3>1. PICK j \in OnSaleById(l, x) : \A i \in OnSaleById(l, x) : j <= i
      BY <2>2, Least, HitFacts
    <3>2. j \in DOMAIN l /\ l[j].id # p /\ l[j].id = x /\ l[j] # None /\ j \in Nat
      BY <1>8, <3>1, HitFacts
    <3>3. PICK i \in 1 .. n : g[i] = j
      BY <1>1, <3>2 DEF Kept
    <3>4. i \in OnSaleById(w, x) /\ w[i] = l[j]
      BY <1>2, <1>3, <3>1, <3>2, <3>3 DEF OnSaleById, ById
    <3>5. ASSUME NEW k \in OnSaleById(w, x) PROVE i <= k
      <4>1. k \in 1 .. n /\ j <= g[k]
        BY <1>3, <1>7, <3>1, HitFacts, <1>4
      <4>2. g[k] \in Nat
        BY <1>4, <1>7, HitFacts
      <4>3. ~(g[k] < g[i])
        BY <3>2, <3>3, <4>1, <4>2
      <4>4. ~(k < i)
        BY <1>1, <4>1, <4>3
      <4> QED BY <4>1, <4>4
    <3> QED BY <1>4, <3>1, <3>4, <3>5, SameHit
  <2> QED BY <2>1, <2>2
<1>9. Ids(w) \subseteq Ids(l)
  BY <1>2, <1>3 DEF Ids
<1> QED BY <1>4, <1>5, <1>6, <1>8, <1>9 DEF w

USE DEF At

-----------------------------------------------------------------------------
(* Rows and requests.                                                      *)

(* The parts of a request. *)
LEMMA CallFields ==
  ASSUME NEW op, NEW at, NEW p, NEW u, NEW rows, NEW held, NEW fresh, NEW l
  PROVE  /\ Call(op, at, p, u, rows, held, fresh, l).op = op
         /\ Call(op, at, p, u, rows, held, fresh, l).at = at
         /\ Call(op, at, p, u, rows, held, fresh, l).id = p
         /\ Call(op, at, p, u, rows, held, fresh, l).user = u
         /\ Call(op, at, p, u, rows, held, fresh, l).rows = rows
         /\ Call(op, at, p, u, rows, held, fresh, l).held = held
         /\ Call(op, at, p, u, rows, held, fresh, l).fresh = fresh
         /\ Call(op, at, p, u, rows, held, fresh, l).list = l
  BY DEF Call

(* A request made of typed parts is a request. *)
LEMMA CallType ==
  ASSUME NEW op \in Ops, NEW at \in Queries, NEW p \in Products \cup {None},
         NEW u \in Users \cup {None}, NEW rows \in CartRows \cup {None},
         NEW held \in Row \cup {None}, NEW fresh \in Row \cup {None}, NEW l \in Seq(Entries)
  PROVE  Call(op, at, p, u, rows, held, fresh, l) \in Request
  BY DEF Call, Request

(* The parts of a typed request. *)
LEMMA RequestFields ==
  ASSUME NEW q \in Request
  PROVE  /\ q.op \in Ops /\ q.at \in Queries /\ q.id \in Products \cup {None}
         /\ q.user \in Users \cup {None} /\ q.rows \in CartRows \cup {None}
         /\ q.held \in Row \cup {None} /\ q.fresh \in Row \cup {None}
         /\ q.list \in Seq(Entries)
  BY DEF Request

LEMMA IdleFields ==
  ASSUME CatalogueAssumption
  PROVE  /\ Idle \in Request /\ Idle.op = "none" /\ Idle.at = "none" /\ Idle.id = None
         /\ Idle.rows = None /\ Idle.held = None /\ Idle.fresh = None /\ Idle.list = <<>>
<1>1. "none" \in Ops /\ "none" \in Queries /\ <<>> \in Seq(Entries)
  BY EmptyList DEF Ops, Queries
<1>2. Idle \in Request
  BY <1>1, CallType DEF Idle
<1> QED BY <1>2, CallFields DEF Idle

(* The rows of a cart in memory are rows of products. *)
LEMMA RowsFacts ==
  ASSUME NEW q \in Request
  PROVE  /\ DOMAIN RowsIn(q) \subseteq Products
         /\ \A x \in DOMAIN RowsIn(q) : RowsIn(q)[x] \in Row
<1>1. CASE q.rows = None
  BY <1>1 DEF RowsIn, NoRows
<1>2. CASE q.rows # None
  <2>1. RowsIn(q) \in CartRows
    BY <1>2, RequestFields DEF RowsIn
  <2> QED BY <2>1 DEF CartRows
<1> QED BY <1>1, <1>2

LEMMA MemoryFacts ==
  ASSUME CatalogueAssumption, NEW q \in Request, NEW p
  PROVE  /\ InMemory(q, p) \subseteq Row
         /\ p \in DOMAIN RowsIn(q) => RowsIn(q)[p] \in InMemory(q, p)
         /\ q.id = p /\ q.held # None => q.held \in InMemory(q, p)
         /\ q.id = p /\ q.fresh # None => q.fresh \in InMemory(q, p)
  BY RowsFacts, RequestFields, NoneIsNothing DEF InMemory

(* A request that has no other copies of p than another has no more to     *)
(* agree with.                                                             *)
LEMMA MemoryOf ==
  ASSUME NEW q, NEW p, NEW r \in InMemory(q, p)
  PROVE  /\ r # None
         /\ (q.id = p /\ r \in {q.held, q.fresh}) \/ (p \in DOMAIN RowsIn(q) /\ r = RowsIn(q)[p])
  BY DEF InMemory

(* Products on sale, and the others. *)
LEMMA RowFacts ==
  ASSUME CatalogueAssumption, TypeOK, NEW p \in Products
  PROVE  /\ product[p] \in Row \cup {Absent}
         /\ p \in Present <=> product[p] \in Row
         /\ p \in Present => product[p] # None
         /\ p \in OnSale => p \in Present
         /\ p \notin Present => product[p] = Absent
         /\ Found(p) \in Row \cup {None}
         /\ Found(p) # None => p \in OnSale /\ Found(p) = product[p] /\ Found(p).status = "ON_SALE"
<1>1. product[p] \in Row \cup {Absent}
  BY DEF TypeOK
<1>2. Absent.status = "absent" /\ Absent \notin Row
  BY DEF Absent, Row
<1>3. \A r \in Row : r.status \in {"ON_SALE", "DELETED"}
  BY DEF Row
<1>4. None \notin Row
  BY NoneIsNothing
<1>5. p \in Present <=> product[p] \in Row
  BY <1>1, <1>2, <1>3 DEF Present
<1>6. p \in OnSale <=> product[p].status = "ON_SALE"
  BY DEF OnSale
<1>7. p \in OnSale => p \in Present
  BY <1>6 DEF Present
<1> QED BY <1>1, <1>4, <1>5, <1>6, <1>7 DEF Found

(* The list as it is read. *)
LEMMA CacheFacts ==
  ASSUME CatalogueAssumption, TypeOK
  PROVE  OrEmpty(cache) \in Seq(Entries)
  BY EmptyList DEF TypeOK, OrEmpty

-----------------------------------------------------------------------------
(* What a step does to the requests and to the history variables.          *)

(* One slot is given q. *)
Frame(s, q) ==
    /\ q \in Request
    /\ req' \in [Slots -> Request]
    /\ req'[s] = q
    /\ \A t \in Slots \ {s} : req'[t] = req[t]

(* A request that starts is alone when nothing else runs, and one that     *)
(* goes on is alone if it was.                                             *)
Turn(s) ==
    /\ disturbed \subseteq disturbed'
    /\ \/ /\ req[s] = Idle
          /\ (Quiet /\ alone' = s) \/ (alone' = None /\ "overlap" \in disturbed')
       \/ req[s] # Idle /\ alone' \in {alone, None}

(* Nothing more is settled or counted. *)
Shrinks ==
    \A p \in Products : settled'[p] \in {None, settled[p]} /\ counted'[p] \in {None, counted[p]}

Settled == [status : {"ON_SALE", "DELETED"}, price : Prices]

HistoryType ==
    /\ alone \in Slots \cup {None}
    /\ disturbed \subseteq Disturbances
    /\ settled \in [Products -> Settled \cup {None}]
    /\ counted \in [Products -> Int \cup {None}]
    /\ faults \in 0 .. MaxFaults

LEMMA TypeParts ==
  TypeOK <=> /\ product \in [Products -> Row \cup {Absent}]
             /\ cart \in [Users -> (SUBSET Products) \cup {None}]
             /\ cache \in Seq(Entries) \cup {None}
             /\ req \in [Slots -> Request]
             /\ HistoryType
  BY DEF TypeOK, HistoryType, Settled

LEMMA TypePartsNext ==
  TypeOK' <=> /\ product' \in [Products -> Row \cup {Absent}]
              /\ cart' \in [Users -> (SUBSET Products) \cup {None}]
              /\ cache' \in Seq(Entries) \cup {None}
              /\ req' \in [Slots -> Request]
              /\ HistoryType'
  BY DEF TypeOK, HistoryType, Settled

LEMMA GoesFrame ==
  ASSUME req \in [Slots -> Request], NEW s \in Slots, NEW q \in Request, Goes(s, q)
  PROVE  Frame(s, q)
  BY DEF Goes, Frame

LEMMA StartsFacts ==
  ASSUME CatalogueAssumption, TypeOK, NEW s \in Slots, NEW q \in Request, Starts(s, q)
  PROVE  /\ Frame(s, q) /\ Turn(s) /\ Shrinks /\ HistoryType'
         /\ \A p \in Products : q.op \in EditOps /\ q.id = p => settled'[p] = None
         /\ \A p \in Products : q.op \in UnitOps /\ q.id = p => counted'[p] = None
         /\ "overlap" \notin disturbed' => Quiet
<1>1. Frame(s, q)
  BY GoesFrame DEF Starts, TypeOK
<1>2. /\ \A p \in Products : settled'[p] \in {None, settled[p]}
      /\ \A p \in Products : counted'[p] \in {None, counted[p]}
      /\ \A p \in Products : q.op \in EditOps /\ q.id = p => settled'[p] = None
      /\ \A p \in Products : q.op \in UnitOps /\ q.id = p => counted'[p] = None
  BY DEF Starts
<1>3. HistoryType'
  <2>1. settled' \in [Products -> Settled \cup {None}]
    BY DEF Starts, TypeOK, Settled
  <2>2. counted' \in [Products -> Int \cup {None}]
    BY DEF Starts, TypeOK
  <2>3. alone' \in Slots \cup {None} /\ disturbed' \subseteq Disturbances /\ faults' \in 0 .. MaxFaults
    BY DEF Starts, TypeOK, Disturbances
  <2> QED BY <2>1, <2>2, <2>3 DEF HistoryType
<1>4. Turn(s)
  BY DEF Turn, Starts
<1>5. "overlap" \notin disturbed' => Quiet
  BY DEF Starts
<1> QED BY <1>1, <1>2, <1>3, <1>4, <1>5 DEF Shrinks

LEMMA ContinuesFacts ==
  ASSUME CatalogueAssumption, TypeOK, NEW s \in Slots, NEW q \in Request, req[s] # Idle,
         Continues(s, q)
  PROVE  /\ Frame(s, q) /\ Turn(s) /\ Shrinks /\ HistoryType'
         /\ settled' = settled /\ counted' = counted /\ alone' = alone /\ disturbed' = disturbed
<1>1. Frame(s, q)
  BY GoesFrame DEF Continues, TypeOK
<1>2. HistoryType'
  BY DEF Continues, history, TypeOK, HistoryType, Settled
<1> QED BY <1>1, <1>2 DEF Continues, history, Turn, Shrinks

LEMMA ThrowsFacts ==
  ASSUME CatalogueAssumption, TypeOK, NEW s \in Slots, req[s] # Idle, Throws(s)
  PROVE  Frame(s, Idle) /\ Turn(s) /\ Shrinks /\ HistoryType'
<1>1. Frame(s, Idle)
  BY GoesFrame, IdleFields DEF Throws, TypeOK
<1>2. HistoryType'
  BY DEF Throws, TypeOK, HistoryType, Settled
<1> QED BY <1>1, <1>2 DEF Throws, Turn, Shrinks

LEMMA FailsFacts ==
  ASSUME CatalogueAssumption, TypeOK, NEW s \in Slots, QueryFails(s)
  PROVE  Frame(s, Idle) /\ Turn(s) /\ Shrinks /\ HistoryType'
<1>1. Frame(s, Idle)
  BY GoesFrame, IdleFields DEF QueryFails, TypeOK
<1>2. faults' \in 0 .. MaxFaults
  BY DEF QueryFails, TypeOK, CatalogueAssumption
<1>3. HistoryType'
  BY <1>2 DEF QueryFails, TypeOK, HistoryType, Settled, Disturbances
<1> QED BY <1>1, <1>3 DEF QueryFails, Turn, Shrinks

(* A handler that comes to its end settles what it wrote. *)
LEMMA AnswersFacts ==
  ASSUME CatalogueAssumption, TypeOK, NEW s \in Slots, req[s] # Idle, Answers(s),
         req[s].op \in EditOps \cup UnitOps => req[s].id \in Present
  PROVE  /\ Frame(s, Idle) /\ Turn(s) /\ HistoryType'
         /\ Shrinks \/ alone = s
         /\ disturbed' = disturbed
         /\ \A p \in Products :
               \/ settled'[p] = settled[p]
               \/ /\ alone = s /\ req[s].op \in EditOps /\ p = req[s].id
                  /\ settled'[p] = Known(product[p])
         /\ \A p \in Products :
               \/ counted'[p] = counted[p]
               \/ counted'[p] = product[p].pair
<1> DEFINE p == req[s].id
<1>1. Frame(s, Idle)
  BY GoesFrame, IdleFields DEF Answers, TypeOK
<1>2. Turn(s) /\ disturbed' = disturbed /\ (Shrinks \/ alone = s)
  BY DEF Answers, Turn, Shrinks
<1>3. p \in Present => p \in Products /\ product[p] \in Row
  BY RowFacts DEF Present
<1>4. \A r \in Row : Known(r) \in Settled /\ r.pair \in Int
  BY DEF Row, Known, Settled, CatalogueAssumption
<1>5. /\ settled' \in [Products -> Settled \cup {None}]
      /\ \A x \in Products :
            \/ settled'[x] = settled[x]
            \/ /\ alone = s /\ req[s].op \in EditOps /\ x = req[s].id
               /\ settled'[x] = Known(product[x])
  <2>1. CASE alone = s /\ req[s].op \in EditOps
    BY <1>3, <1>4, <2>1 DEF Answers, TypeOK, Settled
  <2>2. CASE ~(alone = s /\ req[s].op \in EditOps)
    BY <2>2 DEF Answers, TypeOK, Settled
  <2> QED BY <2>1, <2>2
<1>6. /\ counted' \in [Products -> Int \cup {None}]
      /\ \A x \in Products : counted'[x] = counted[x] \/ counted'[x] = product[x].pair
  <2>1. CASE alone = s /\ req[s].op \in UnitOps
    BY <1>3, <1>4, <2>1 DEF Answers, TypeOK
  <2>2. CASE ~(alone = s /\ req[s].op \in UnitOps)
    BY <2>2 DEF Answers, TypeOK
  <2> QED BY <2>1, <2>2
<1>7. alone' \in Slots \cup {None} /\ disturbed' \subseteq Disturbances /\ faults' \in 0 .. MaxFaults
  BY DEF Answers, TypeOK
<1> QED BY <1>1, <1>2, <1>5, <1>6, <1>7 DEF HistoryType

-----------------------------------------------------------------------------
(* What the steps leave alone.                                             *)

(* What is asked of the request q that a step of s leaves in its slot. *)
GoodFor(s, q) ==
    /\ LocalsOK(q)
    /\ CopiesOK(q)
    /\ alone = s => AloneOK(q)
    /\ "overlap" \notin disturbed => UndisturbedOK(q)

TablesOK == EditsStay /\ UnitsStay /\ NullNeedsOverlap /\ NamesOK

LEMMA InvParts ==
  CopiesInv <=> TypeOK /\ TablesOK /\ InFlightOK /\ \A s \in Slots : GoodFor(s, req[s])
  BY DEF CopiesInv, TablesOK, GoodFor, SlotOK

(* A free slot asks for nothing. *)
LEMMA IdleIsGood ==
  ASSUME CatalogueAssumption, NEW s
  PROVE  GoodFor(s, Idle) /\ GoodFor(s, Idle)'
<1>1. /\ RowsIn(Idle) = NoRows /\ DOMAIN NoRows = {} /\ Ids(Idle.list) = {} /\ DOMAIN Idle.list = {}
      /\ \A p : FoundIn(Idle.list, p) = None
  BY IdleFields, EmptyList DEF RowsIn, NoRows
<1>2. \A p \in Products : InMemory(Idle, p) = {}
  BY <1>1, IdleFields DEF InMemory
<1>3. /\ Idle.op \notin CartOps \cup EditOps \cup UnitOps \cup {"edit", "delete", "create", "add"}
      /\ Idle.at \notin {"save", "set"}
  BY IdleFields DEF CartOps, QuantityOps, EditOps, UnitOps
<1>4. LocalsOK(Idle) /\ LocalsOK(Idle)'
  BY <1>1, <1>3, IdleFields DEF LocalsOK
<1>5. CopiesOK(Idle) /\ CopiesOK(Idle)'
  BY <1>1, <1>2, <1>3 DEF CopiesOK
<1>6. AloneOK(Idle) /\ AloneOK(Idle)'
  BY <1>3, IdleFields DEF AloneOK
<1>7. UndisturbedOK(Idle) /\ UndisturbedOK(Idle)'
  BY <1>1, <1>3 DEF UndisturbedOK
<1> QED BY <1>4, <1>5, <1>6, <1>7 DEF GoodFor

(* A request keeps good locals while products do not vanish. *)
LEMMA LocalsKept ==
  ASSUME NEW q, LocalsOK(q), Present \subseteq Present'
  PROVE  LocalsOK(q)'
  BY DEF LocalsOK

(* Its copies agree with what is left to agree with. *)
LEMMA CopiesKept ==
  ASSUME NEW q, CopiesOK(q), Shrinks
  PROVE  CopiesOK(q)'
  BY DEF CopiesOK, Shrinks

(* The requests of the other slots. *)
LEMMA OthersKept ==
  ASSUME CatalogueAssumption, CopiesInv, NEW s \in Slots, NEW q \in Request,
         Frame(s, q), Turn(s), Present \subseteq Present', Shrinks \/ alone = s
  PROVE  InFlightOK' /\ \A t \in Slots \ {s} : GoodFor(t, req[t])'
<1>1. None \notin Slots
  BY DEF CatalogueAssumption
<1>2. /\ \A t \in Slots : alone # None /\ t # alone => req[t] = Idle
      /\ "overlap" \notin disturbed => \A r, t \in Slots : r # t => Idle \in {req[r], req[t]}
  BY DEF CopiesInv, InFlightOK
<1>3. ASSUME NEW t \in Slots \ {s}, alone' # None \/ "overlap" \notin disturbed' \/ alone = s
      PROVE  req[t] = Idle /\ req'[t] = Idle
  <2>1. req[t] = Idle
    BY <1>1, <1>2, <1>3 DEF Turn, Quiet
  <2> QED BY <2>1 DEF Frame
<1>4. InFlightOK'
  <2>1. ASSUME NEW t \in Slots, alone' # None, t # alone' PROVE req'[t] = Idle
    <3>1. CASE t = s
      BY <1>2, <2>1, <3>1 DEF Turn
    <3>2. CASE t # s
      BY <1>3, <2>1, <3>2
    <3> QED BY <3>1, <3>2
  <2>2. ASSUME "overlap" \notin disturbed', NEW r \in Slots, NEW t \in Slots, r # t
        PROVE  Idle \in {req'[r], req'[t]}
    BY <1>3, <2>2
  <2> QED BY <2>1, <2>2 DEF InFlightOK
<1>5. ASSUME NEW t \in Slots \ {s} PROVE GoodFor(t, req[t])'
  <2>1. PICK x \in Request : x = req[t]
    BY DEF CopiesInv, TypeOK
  <2>2. req'[t] = x
    BY <2>1 DEF Frame
  <2>3. GoodFor(t, x)'
    <3>1. CASE alone' # None \/ "overlap" \notin disturbed' \/ alone = s
      <4>1. x = Idle
        BY <1>3, <2>2, <3>1
      <4> QED BY <4>1, IdleIsGood
    <3>2. CASE ~(alone' # None \/ "overlap" \notin disturbed' \/ alone = s)
      <4>1. LocalsOK(x) /\ CopiesOK(x)
        BY <2>1, InvParts DEF GoodFor
      <4>2. LocalsOK(x)' /\ CopiesOK(x)'
        BY <3>2, <4>1, LocalsKept, CopiesKept
      <4> QED BY <1>1, <3>2, <4>2 DEF GoodFor
    <3> QED BY <3>1, <3>2
  <2> QED BY <2>2, <2>3
<1> QED BY <1>4, <1>5

(* A step is good when what it writes is, and the request it leaves. *)
LEMMA Assemble ==
  ASSUME CatalogueAssumption, CopiesInv, NEW s \in Slots, NEW q \in Request,
         Frame(s, q), Turn(s), Shrinks \/ alone = s, HistoryType',
         product' \in [Products -> Row \cup {Absent}],
         cart' \in [Users -> (SUBSET Products) \cup {None}],
         cache' \in Seq(Entries) \cup {None},
         Present \subseteq Present', TablesOK', GoodFor(s, q)'
  PROVE  CopiesInv'
<1>1. TypeOK'
  BY TypePartsNext DEF Frame
<1>2. InFlightOK' /\ \A t \in Slots \ {s} : GoodFor(t, req[t])'
  BY OthersKept
<1>3. GoodFor(s, req[s])'
  BY DEF Frame
<1>4. \A t \in Slots : GoodFor(t, req[t])'
  BY <1>2, <1>3
<1> QED BY <1>1, <1>2, <1>4 DEF CopiesInv, TablesOK, GoodFor, SlotOK

(* The tables and the cache stay good when nothing is written. *)
LEMMA TablesKept ==
  ASSUME TablesOK, Shrinks, disturbed \subseteq disturbed', UNCHANGED <<product, cart, cache>>
  PROVE  TablesOK' /\ Present' = Present
<1>1. Present' = Present
  BY DEF Present
<1>2. NamesOK'
  BY <1>1 DEF TablesOK, NamesOK
<1>3. EditsStay'
  BY DEF TablesOK, EditsStay, Shrinks, Listed
<1>4. UnitsStay'
  BY DEF TablesOK, UnitsStay, Shrinks
<1>5. NullNeedsOverlap'
  BY DEF TablesOK, NullNeedsOverlap
<1> QED BY <1>1, <1>2, <1>3, <1>4, <1>5 DEF TablesOK

(* A step that writes nothing needs a good request. *)
LEMMA ReadStep ==
  ASSUME CatalogueAssumption, CopiesInv, NEW s \in Slots, NEW q \in Request,
         Frame(s, q), Turn(s), Shrinks, HistoryType',
         UNCHANGED <<product, cart, cache>>, GoodFor(s, q)'
  PROVE  CopiesInv'
<1>1. TablesOK' /\ Present' = Present
  BY TablesKept, InvParts DEF Turn
<1>2. /\ product' \in [Products -> Row \cup {Absent}]
      /\ cart' \in [Users -> (SUBSET Products) \cup {None}]
      /\ cache' \in Seq(Entries) \cup {None}
  BY DEF CopiesInv, TypeOK
<1> QED BY <1>1, <1>2, Assemble

(* A request that throws, or fails, leaves all as it is. *)
LEMMA ThrowStep ==
  ASSUME CatalogueAssumption, CopiesInv, NEW s \in Slots,
         (req[s] # Idle /\ Throws(s)) \/ QueryFails(s), UNCHANGED <<product, cart, cache>>
  PROVE  CopiesInv'
<1>1. Frame(s, Idle) /\ Turn(s) /\ Shrinks /\ HistoryType'
  BY ThrowsFacts, FailsFacts DEF CopiesInv
<1>2. GoodFor(s, Idle)'
  BY IdleIsGood
<1> QED BY <1>1, <1>2, IdleFields, ReadStep

-----------------------------------------------------------------------------
(* Requests that come.                                                     *)

LEMMA OpFacts ==
  /\ CartOps = {"increase", "decrease", "add", "remove"}
  /\ EditOps = {"create", "edit", "delete"}
  /\ UnitOps = {"increase", "decrease", "add", "remove", "pair"}
  /\ Ops = {"increase", "decrease", "add", "remove", "create", "edit", "delete", "none", "pair", "list"}
  BY DEF CartOps, QuantityOps, EditOps, UnitOps, Ops

(* What the table and the list hold agrees with what is settled. *)
LEMMA TableAgrees ==
  ASSUME CatalogueAssumption, CopiesInv, NEW p \in Products
  PROVE  /\ settled[p] # None => Known(product[p]) = settled[p]
         /\ settled[p] # None /\ Listed(p) # None => Known(Listed(p)) = settled[p]
         /\ counted[p] # None => product[p].pair = counted[p]
         /\ Listed(p) = FoundIn(OrEmpty(cache), p)
  BY DEF CopiesInv, EditsStay, UnitsStay, Listed

(* What it asks of a request that starts to have loaded no older copy.     *)
Agrees(q) ==
    \A p \in Products :
        /\ settled[p] # None =>
              \/ q.op \in EditOps /\ q.id = p
              \/ /\ \A r \in InMemory(q, p) : Known(r) = settled[p]
                 /\ FoundIn(q.list, p) # None => Known(FoundIn(q.list, p)) = settled[p]
        /\ counted[p] # None =>
              (q.op \in UnitOps /\ q.id = p) \/ \A r \in InMemory(q, p) : r.pair = counted[p]

LEMMA StartStep ==
  ASSUME CatalogueAssumption, CopiesInv, NEW s \in Slots, NEW q \in Request,
         Starts(s, q), UNCHANGED <<product, cart, cache>>,
         LocalsOK(q), Agrees(q), q.at \notin {"get", "set"},
         "overlap" \notin disturbed => UndisturbedOK(q)
  PROVE  CopiesInv'
<1>1. TypeOK
  BY DEF CopiesInv
<1>2. /\ Frame(s, q) /\ Turn(s) /\ Shrinks /\ HistoryType'
      /\ \A p \in Products : q.op \in EditOps /\ q.id = p => settled'[p] = None
      /\ \A p \in Products : q.op \in UnitOps /\ q.id = p => counted'[p] = None
  BY <1>1, StartsFacts
<1>3. Present' = Present /\ OnSale' = OnSale
  BY DEF Present, OnSale
<1>4. LocalsOK(q)'
  BY <1>3, LocalsKept
<1>5. CopiesOK(q)'
  BY <1>2 DEF Agrees, CopiesOK, Shrinks
<1>6. AloneOK(q)'
  BY DEF AloneOK
<1>7. "overlap" \notin disturbed' => UndisturbedOK(q)'
  BY <1>2, <1>3 DEF UndisturbedOK, Turn
<1>8. GoodFor(s, q)'
  BY <1>4, <1>5, <1>6, <1>7 DEF GoodFor
<1> QED BY <1>2, <1>8, ReadStep

(* A request with nothing loaded agrees with everything. *)
LEMMA EmptyAgrees ==
  ASSUME CatalogueAssumption, NEW q, q.rows = None, q.held = None, q.fresh = None,
         q.list = <<>>
  PROVE  /\ Agrees(q) /\ DOMAIN RowsIn(q) = {} /\ Ids(q.list) = {} /\ DOMAIN q.list = {}
         /\ \A p : InMemory(q, p) = {}
<1>1. RowsIn(q) = NoRows /\ DOMAIN NoRows = {}
  BY DEF RowsIn, NoRows
<1>2. \A p : InMemory(q, p) = {}
  BY <1>1 DEF InMemory
<1>3. Ids(q.list) = {} /\ DOMAIN q.list = {} /\ \A p : FoundIn(q.list, p) = None
  BY EmptyList
<1> QED BY <1>1, <1>2, <1>3 DEF Agrees

LEMMA ReadForListKeeps ==
  ASSUME CatalogueAssumption, CopiesInv, NEW s \in Slots, ReadForList(s)
  PROVE  CopiesInv'
<1> DEFINE q == Call("list", "find", None, None, None, None, None, <<>>)
<1>1. q.op = "list" /\ q.at = "find" /\ q.id = None /\ q.rows = None /\ q.held = None
      /\ q.fresh = None /\ q.list = <<>>
  BY CallFields
<1>2. q \in Request
  <2>1. "list" \in Ops /\ "find" \in Queries
    BY DEF Ops, Queries
  <2> QED BY <2>1, CallType, EmptyList
<1>3. Starts(s, q) /\ UNCHANGED <<product, cart, cache>>
  BY DEF ReadForList
<1> HIDE DEF q
<1>4. Agrees(q) /\ DOMAIN RowsIn(q) = {} /\ Ids(q.list) = {} /\ DOMAIN q.list = {}
  BY <1>1, EmptyAgrees
<1>5. LocalsOK(q) /\ UndisturbedOK(q)
  BY <1>1, <1>4, OpFacts DEF LocalsOK, UndisturbedOK
<1> QED BY <1>1, <1>2, <1>3, <1>4, <1>5, StartStep

LEMMA LoadForDeleteKeeps ==
  ASSUME CatalogueAssumption, CopiesInv, NEW s \in Slots, NEW p \in Products, LoadForDelete(s, p)
  PROVE  CopiesInv'
<1> DEFINE q == Call("delete", "status", p, None, None, None, None, <<>>)
<1>1. q.op = "delete" /\ q.at = "status" /\ q.id = p /\ q.rows = None /\ q.held = None
      /\ q.fresh = None /\ q.list = <<>>
  BY CallFields
<1>2. q \in Request
  <2>1. "delete" \in Ops /\ "status" \in Queries
    BY DEF Ops, Queries, EditOps
  <2> QED BY <2>1, CallType, EmptyList
<1>3. Starts(s, q) /\ UNCHANGED <<product, cart, cache>> /\ p \in Present
  BY RowFacts DEF LoadForDelete, CopiesInv
<1> HIDE DEF q
<1>4. Agrees(q) /\ DOMAIN RowsIn(q) = {} /\ Ids(q.list) = {} /\ DOMAIN q.list = {}
  BY <1>1, EmptyAgrees
<1>5. LocalsOK(q) /\ UndisturbedOK(q)
  BY <1>1, <1>3, <1>4, OpFacts DEF LocalsOK, UndisturbedOK
<1> QED BY <1>1, <1>2, <1>3, <1>4, <1>5, StartStep

LEMMA LoadForEditKeeps ==
  ASSUME CatalogueAssumption, CopiesInv, NEW s \in Slots, NEW p \in Products, LoadForEdit(s, p)
  PROVE  CopiesInv'
<1> DEFINE q == Call("edit", "save", p, None, None, product[p], None, <<>>)
<1>1. q.op = "edit" /\ q.at = "save" /\ q.id = p /\ q.rows = None /\ q.held = product[p]
      /\ q.fresh = None /\ q.list = <<>>
  BY CallFields
<1>2. p \in OnSale /\ p \in Present /\ product[p] \in Row /\ product[p] # None
      /\ product[p].status = "ON_SALE"
  BY RowFacts DEF LoadForEdit, CopiesInv, OnSale
<1>3. q \in Request
  <2>1. "edit" \in Ops /\ "save" \in Queries
    BY DEF Ops, Queries, EditOps
  <2> QED BY <1>2, <2>1, CallType, EmptyList
<1>4. Starts(s, q) /\ UNCHANGED <<product, cart, cache>>
  BY DEF LoadForEdit
<1> HIDE DEF q
<1>5. RowsIn(q) = NoRows /\ DOMAIN NoRows = {} /\ Ids(q.list) = {} /\ DOMAIN q.list = {}
      /\ \A x : FoundIn(q.list, x) = None
  BY <1>1, EmptyList DEF RowsIn, NoRows
<1>6. \A x \in Products : \A r \in InMemory(q, x) : x = p /\ r = product[p]
  BY <1>1, <1>5 DEF InMemory
<1>7. Agrees(q)
  BY <1>5, <1>6, TableAgrees DEF Agrees
<1>8. LocalsOK(q) /\ UndisturbedOK(q)
  BY <1>1, <1>2, <1>5, OpFacts DEF LocalsOK, UndisturbedOK
<1> QED BY <1>1, <1>3, <1>4, <1>7, <1>8, StartStep

LEMMA ReadForCreateKeeps ==
  ASSUME CatalogueAssumption, CopiesInv, NEW s \in Slots, ReadForCreate(s)
  PROVE  CopiesInv'
<1> DEFINE q == Call("create", "save", None, None, None, None, None, OrEmpty(cache))
<1>1. q.op = "create" /\ q.at = "save" /\ q.id = None /\ q.rows = None /\ q.held = None
      /\ q.fresh = None /\ q.list = OrEmpty(cache)
  BY CallFields
<1>2. q \in Request
  <2>1. "create" \in Ops /\ "save" \in Queries
    BY DEF Ops, Queries, EditOps
  <2>2. OrEmpty(cache) \in Seq(Entries)
    BY CacheFacts DEF CopiesInv
  <2> QED BY <2>1, <2>2, CallType
<1>3. Starts(s, q) /\ UNCHANGED <<product, cart, cache>>
  BY DEF ReadForCreate
<1> HIDE DEF q
<1>4. RowsIn(q) = NoRows /\ DOMAIN NoRows = {}
  BY <1>1 DEF RowsIn, NoRows
<1>5. \A x \in Products : InMemory(q, x) = {}
  BY <1>1, <1>4 DEF InMemory
<1>6. Agrees(q)
  BY <1>1, <1>5, TableAgrees DEF Agrees
<1>7. LocalsOK(q)
  <2>1. Ids(q.list) \subseteq Present
    BY <1>1 DEF CopiesInv, NamesOK
  <2> QED BY <1>1, <1>4, <2>1, OpFacts DEF LocalsOK
<1>8. "overlap" \notin disturbed => UndisturbedOK(q)
  BY <1>1, OpFacts DEF UndisturbedOK, CopiesInv, NullNeedsOverlap, OrEmpty
<1> QED BY <1>1, <1>2, <1>3, <1>6, <1>7, <1>8, StartStep

(* The cart is loaded with the rows of its products as they are. *)
LEMMA LoadCartKeeps ==
  ASSUME CatalogueAssumption, CopiesInv, NEW s \in Slots, NEW op \in CartOps, NEW u \in Users,
         NEW p \in Products, LoadCart(s, op, u, p)
  PROVE  CopiesInv'
<1> DEFINE rows == RowsOf(u)
           q == Call(op, "product", p, u, rows, None, None, <<>>)
<1>1. q.op = op /\ q.at = "product" /\ q.id = p /\ q.rows = rows /\ q.held = None
      /\ q.fresh = None /\ q.list = <<>>
  BY CallFields
<1>2. Starts(s, q) /\ UNCHANGED <<product, cart, cache>> /\ (op # "add" => p \in cart[u] /\ cart[u] # None)
  BY DEF LoadCart
<1> HIDE DEF q
<1>3. cart[u] # None => cart[u] \subseteq Present
  BY DEF CopiesInv, NamesOK
<1>4. cart[u] # None => rows \in CartRows /\ DOMAIN rows \subseteq Present
                        /\ \A x \in DOMAIN rows : rows[x] = product[x]
  <2>1. ASSUME cart[u] # None
        PROVE  rows \in [cart[u] -> Row] /\ \A x \in DOMAIN rows : rows[x] = product[x]
    <3>1. \A x \in Present : product[x] \in Row
      BY RowFacts DEF CopiesInv, Present
    <3>2. rows = [x \in cart[u] |-> product[x]]
      BY <2>1 DEF RowsOf
    <3> QED BY <1>3, <2>1, <3>1, <3>2
  <2>2. Present \subseteq Products
    BY DEF Present
  <2> QED BY <1>3, <2>1, <2>2 DEF CartRows
<1>5. q \in Request
  <2>1. op \in Ops /\ "product" \in Queries /\ rows \in CartRows \cup {None}
    BY <1>4 DEF Ops, Queries, RowsOf
  <2> QED BY <2>1, CallType, EmptyList DEF q
<1>6. /\ DOMAIN RowsIn(q) \subseteq Present
      /\ \A x \in DOMAIN RowsIn(q) : RowsIn(q)[x] = product[x]
  <2>1. CASE rows = None
    BY <1>1, <2>1 DEF RowsIn, NoRows
  <2>2. CASE rows # None
    BY <1>1, <1>4, <2>2 DEF RowsIn, RowsOf
  <2> QED BY <2>1, <2>2
<1> HIDE DEF rows
<1>7. \A x \in Products : \A r \in InMemory(q, x) : r = product[x]
  BY <1>1, <1>6 DEF InMemory
<1>8. /\ Ids(q.list) = {} /\ DOMAIN q.list = {} /\ \A x : FoundIn(q.list, x) = None
  BY <1>1, EmptyList
<1>9. Agrees(q)
  BY <1>7, <1>8, TableAgrees DEF Agrees
<1>10. LocalsOK(q)
  BY <1>1, <1>2, <1>3, <1>6, <1>8, OpFacts DEF LocalsOK
<1>11. UndisturbedOK(q)
  BY <1>1, <1>7, <1>8 DEF UndisturbedOK
<1> QED BY <1>1, <1>2, <1>5, <1>9, <1>10, <1>11, StartStep

(* A pair edit starts from what it finds in the list, or from nothing. *)
LEMMA ReadForPairKeeps ==
  ASSUME CatalogueAssumption, CopiesInv, NEW s \in Slots, NEW p \in Products, ReadForPair(s, p)
  PROVE  CopiesInv'
<1> DEFINE l == OrEmpty(cache)
           hits == OnSaleById(l, p)
<1>1. UNCHANGED <<product, cart, cache>> /\ l \in Seq(Entries)
  BY CacheFacts DEF ReadForPair, CopiesInv
<1>2. "pair" \in Ops /\ "product" \in Queries /\ "save" \in Queries
  BY DEF Ops, Queries
<1>3. CASE hits = {}
  <2> DEFINE q == Call("pair", "product", p, None, None, None, None, <<>>)
  <2>1. q.op = "pair" /\ q.at = "product" /\ q.id = p /\ q.rows = None /\ q.held = None
        /\ q.fresh = None /\ q.list = <<>>
    BY CallFields
  <2>2. q \in Request
    BY <1>2, CallType, EmptyList
  <2>3. Starts(s, q)
    BY <1>3 DEF ReadForPair
  <2> HIDE DEF q
  <2>4. Agrees(q) /\ DOMAIN RowsIn(q) = {} /\ Ids(q.list) = {} /\ DOMAIN q.list = {}
    BY <2>1, EmptyAgrees
  <2>5. LocalsOK(q) /\ UndisturbedOK(q)
    BY <2>1, <2>4, OpFacts DEF LocalsOK, UndisturbedOK
  <2> QED BY <1>1, <2>1, <2>2, <2>3, <2>4, <2>5, StartStep
<1>4. CASE hits # {}
  <2> DEFINE r == l[First(hits)].row
             q == Call("pair", "save", p, None, None, r, None, <<>>)
  <2>1. q.op = "pair" /\ q.at = "save" /\ q.id = p /\ q.rows = None /\ q.held = r
        /\ q.fresh = None /\ q.list = <<>>
    BY CallFields
  <2>2. r = FoundIn(l, p)
    BY <1>4 DEF FoundIn
  <2>3. r \in Row /\ r # None /\ p \in Present
    <3>1. FoundIn(l, p) \in Row /\ FoundIn(l, p) # None
      BY <1>1, <1>4, FoundFacts
    <3>2. p \in Ids(l)
      BY <1>1, <3>1, FoundIsListed
    <3> QED BY <2>2, <3>1, <3>2 DEF CopiesInv, NamesOK
  <2>4. q \in Request
    BY <1>2, <2>3, CallType, EmptyList
  <2>5. Starts(s, q)
    BY <1>4 DEF ReadForPair
  <2> HIDE DEF q, r
  <2>6. RowsIn(q) = NoRows /\ DOMAIN NoRows = {} /\ Ids(q.list) = {} /\ DOMAIN q.list = {}
        /\ \A x : FoundIn(q.list, x) = None
    BY <2>1, EmptyList DEF RowsIn, NoRows
  <2>7. \A x \in Products : \A m \in InMemory(q, x) : x = p /\ m = r
    BY <2>1, <2>6 DEF InMemory
  <2>8. Agrees(q)
    BY <2>1, <2>2, <2>3, <2>6, <2>7, TableAgrees, OpFacts DEF Agrees
  <2>9. LocalsOK(q) /\ UndisturbedOK(q)
    BY <2>1, <2>3, <2>6, OpFacts DEF LocalsOK, UndisturbedOK
  <2> QED BY <1>1, <2>1, <2>4, <2>5, <2>8, <2>9, StartStep
<1> QED BY <1>3, <1>4

-----------------------------------------------------------------------------
(* Queries that write nothing.                                             *)

LEMMA ContinueStep ==
  ASSUME CatalogueAssumption, CopiesInv, NEW s \in Slots, NEW q \in Request, req[s] # Idle,
         Continues(s, q), UNCHANGED <<product, cart, cache>>, GoodFor(s, q)
  PROVE  CopiesInv'
<1>1. TypeOK
  BY DEF CopiesInv
<1>2. /\ Frame(s, q) /\ Turn(s) /\ Shrinks /\ HistoryType'
      /\ alone' = alone /\ disturbed' = disturbed
  BY <1>1, ContinuesFacts
<1>3. Present' = Present /\ OnSale' = OnSale
  BY DEF Present, OnSale
<1>4. LocalsOK(q)' /\ CopiesOK(q)'
  BY <1>2, <1>3, LocalsKept, CopiesKept DEF GoodFor
<1>5. alone' = s => AloneOK(q)'
  BY <1>2, <1>3 DEF GoodFor, AloneOK
<1>6. "overlap" \notin disturbed' => UndisturbedOK(q)'
  BY <1>2, <1>3 DEF GoodFor, UndisturbedOK
<1>7. GoodFor(s, q)'
  BY <1>4, <1>5, <1>6 DEF GoodFor
<1> QED BY <1>2, <1>7, ReadStep

(* An answer that writes nothing: what it settles is in the table, and the *)
(* list agrees with it when nothing of the product is found there.         *)
LEMMA AnswerStep ==
  ASSUME CatalogueAssumption, CopiesInv, NEW s \in Slots, req[s] # Idle, Answers(s),
         UNCHANGED <<product, cart, cache>>,
         req[s].op \in EditOps \cup UnitOps => req[s].id \in Present,
         req[s].op \in EditOps => Listed(req[s].id) = None
  PROVE  CopiesInv'
<1>1. /\ TypeOK /\ TablesOK
      /\ product' \in [Products -> Row \cup {Absent}]
      /\ cart' \in [Users -> (SUBSET Products) \cup {None}]
      /\ cache' \in Seq(Entries) \cup {None}
  BY InvParts DEF TypeOK
<1>2. /\ Frame(s, Idle) /\ Turn(s) /\ HistoryType' /\ (Shrinks \/ alone = s)
      /\ disturbed' = disturbed
      /\ \A p \in Products :
            \/ settled'[p] = settled[p]
            \/ /\ req[s].op \in EditOps /\ p = req[s].id
               /\ settled'[p] = Known(product[p])
      /\ \A p \in Products : counted'[p] = counted[p] \/ counted'[p] = product[p].pair
  BY <1>1, AnswersFacts
<1>3. Present' = Present
  BY DEF Present
<1>4. EditsStay'
  <2>1. \A p \in Products : Listed(p)' = Listed(p)
    BY DEF Listed
  <2> QED BY <1>1, <1>2, <2>1 DEF TablesOK, EditsStay
<1>5. UnitsStay'
  BY <1>1, <1>2 DEF TablesOK, UnitsStay
<1>6. NullNeedsOverlap' /\ NamesOK'
  BY <1>1, <1>2, <1>3 DEF TablesOK, NullNeedsOverlap, NamesOK
<1>7. TablesOK'
  BY <1>4, <1>5, <1>6 DEF TablesOK
<1>8. GoodFor(s, Idle)'
  BY IdleIsGood
<1> QED BY <1>1, <1>2, <1>3, <1>7, <1>8, IdleFields, Assemble

(* What the invariant says of the request that goes on. *)
LEMMA SlotFacts ==
  ASSUME CatalogueAssumption, CopiesInv, NEW s \in Slots
  PROVE  /\ TypeOK /\ TablesOK /\ req[s] \in Request
         /\ LocalsOK(req[s]) /\ CopiesOK(req[s]) /\ GoodFor(s, req[s])
         /\ req[s].at # "none" => req[s] # Idle
  BY InvParts, IdleFields DEF GoodFor, TypeOK

LEMMA LoadForCartKeeps ==
  ASSUME CatalogueAssumption, CopiesInv, NEW s \in Slots, LoadForCart(s)
  PROVE  CopiesInv'
<1> DEFINE r == Loaded(req[s].id)
           q == [req[s] EXCEPT !.at = "cart", !.held = r]
<1>1. /\ TypeOK /\ req[s] \in Request /\ req[s] # Idle /\ LocalsOK(req[s]) /\ CopiesOK(req[s])
      /\ "overlap" \notin disturbed => UndisturbedOK(req[s])
      /\ req[s].op \in CartOps /\ req[s].at = "product"
      /\ UNCHANGED <<product, cart, cache>>
  BY SlotFacts DEF LoadForCart, GoodFor
<1>2. CASE r = None /\ req[s].op = "add"
  BY <1>1, <1>2, ThrowStep DEF LoadForCart
<1>3. CASE ~(r = None /\ req[s].op = "add")
  <2>1. Continues(s, q)
    BY <1>3 DEF LoadForCart
  <2>2. req[s].id \in Products
    BY <1>1, OpFacts DEF LocalsOK
  <2>3. /\ r \in Row \cup {None}
        /\ r # None => req[s].id \in OnSale /\ req[s].id \in Present /\ r = product[req[s].id]
                       /\ r.status = "ON_SALE"
    BY <1>1, <2>2, RowFacts DEF Loaded
  <2> HIDE DEF r
  <2>4. q \in Request
    BY <1>1, <2>3 DEF Request, Queries
  <2>5. /\ q.op = req[s].op /\ q.at = "cart" /\ q.id = req[s].id /\ q.rows = req[s].rows
        /\ q.held = r /\ q.fresh = req[s].fresh /\ q.list = req[s].list
    BY <1>1 DEF Request
  <2> HIDE DEF q
  <2>6. RowsIn(q) = RowsIn(req[s])
    BY <2>5 DEF RowsIn
  <2>7. \A p \in Products : \A m \in InMemory(q, p) :
           m \in InMemory(req[s], p) \/ (p = q.id /\ m = product[p] /\ q.held # None)
    BY <2>3, <2>5, <2>6 DEF InMemory
  <2>8. LocalsOK(q)
    BY <1>1, <1>3, <2>3, <2>5, <2>6, OpFacts DEF LocalsOK
  <2>9. CopiesOK(q)
    BY <1>1, <2>5, <2>7, TableAgrees DEF CopiesOK
  <2>10. AloneOK(q)
    BY <2>5 DEF AloneOK
  <2>11. "overlap" \notin disturbed => UndisturbedOK(q)
    BY <1>1, <2>2, <2>3, <2>5, <2>7 DEF UndisturbedOK
  <2> QED BY <1>1, <2>1, <2>4, <2>8, <2>9, <2>10, <2>11, ContinueStep DEF GoodFor
<1> QED BY <1>2, <1>3

LEMMA LoadForPairKeeps ==
  ASSUME CatalogueAssumption, CopiesInv, NEW s \in Slots, LoadForPair(s)
  PROVE  CopiesInv'
<1> DEFINE r == Found(req[s].id)
           q == [req[s] EXCEPT !.at = "save", !.held = r]
<1>1. /\ TypeOK /\ req[s] \in Request /\ req[s] # Idle /\ LocalsOK(req[s]) /\ CopiesOK(req[s])
      /\ "overlap" \notin disturbed => UndisturbedOK(req[s])
      /\ req[s].op = "pair" /\ req[s].at = "product"
      /\ UNCHANGED <<product, cart, cache>>
  BY SlotFacts DEF LoadForPair, GoodFor
<1>2. CASE r = None
  BY <1>1, <1>2, ThrowStep DEF LoadForPair
<1>3. CASE r # None
  <2>1. Continues(s, q)
    BY <1>3 DEF LoadForPair
  <2>2. req[s].id \in Products
    BY <1>1, OpFacts DEF LocalsOK
  <2>3. /\ r \in Row \cup {None}
        /\ req[s].id \in OnSale /\ req[s].id \in Present /\ r = product[req[s].id]
    BY <1>1, <1>3, <2>2, RowFacts
  <2> HIDE DEF r
  <2>4. q \in Request
    BY <1>1, <2>3 DEF Request, Queries
  <2>5. /\ q.op = req[s].op /\ q.at = "save" /\ q.id = req[s].id /\ q.rows = req[s].rows
        /\ q.held = r /\ q.fresh = req[s].fresh /\ q.list = req[s].list
    BY <1>1 DEF Request
  <2> HIDE DEF q
  <2>6. RowsIn(q) = RowsIn(req[s])
    BY <2>5 DEF RowsIn
  <2>7. \A p \in Products : \A m \in InMemory(q, p) :
           m \in InMemory(req[s], p) \/ (p = q.id /\ m = product[p])
    BY <2>3, <2>5, <2>6 DEF InMemory
  <2>8. LocalsOK(q)
    BY <1>1, <1>3, <2>3, <2>5, <2>6, OpFacts DEF LocalsOK
  <2>9. CopiesOK(q)
    BY <1>1, <2>5, <2>7, TableAgrees DEF CopiesOK
  <2>10. AloneOK(q) /\ ("overlap" \notin disturbed => UndisturbedOK(q))
    BY <1>1, <2>5, OpFacts DEF AloneOK, UndisturbedOK
  <2> QED BY <1>1, <2>1, <2>4, <2>8, <2>9, <2>10, ContinueStep DEF GoodFor
<1> QED BY <1>2, <1>3

LEMMA RefetchKeeps ==
  ASSUME CatalogueAssumption, CopiesInv, NEW s \in Slots, Refetch(s)
  PROVE  CopiesInv'
<1> DEFINE r == IF req[s].op = "add" /\ req[s].rows # None
                THEN product[req[s].id] ELSE Found(req[s].id)
           q == [req[s] EXCEPT !.at = "read", !.rows = None, !.fresh = r]
<1>1. /\ TypeOK /\ req[s] \in Request /\ req[s] # Idle /\ LocalsOK(req[s]) /\ CopiesOK(req[s])
      /\ "overlap" \notin disturbed => UndisturbedOK(req[s])
      /\ req[s].op \in CartOps /\ req[s].at = "refetch"
      /\ UNCHANGED <<product, cart, cache>> /\ Continues(s, q)
  BY SlotFacts DEF Refetch, GoodFor
<1>2. req[s].id \in Products /\ req[s].id \in Present
  BY <1>1, OpFacts, NoneIsNothing DEF LocalsOK
<1>3. /\ r \in Row \cup {None}
      /\ r # None => r = product[req[s].id]
      /\ req[s].id \in OnSale => r # None
  BY <1>1, <1>2, RowFacts, NoneIsNothing DEF Found
<1> HIDE DEF r
<1>4. q \in Request
  BY <1>1, <1>3 DEF Request, Queries
<1>5. /\ q.op = req[s].op /\ q.at = "read" /\ q.id = req[s].id /\ q.rows = None
      /\ q.held = req[s].held /\ q.fresh = r /\ q.list = req[s].list
  BY <1>1 DEF Request
<1> HIDE DEF q
<1>6. RowsIn(q) = NoRows /\ DOMAIN NoRows = {}
  BY <1>5 DEF RowsIn, NoRows
<1>7. \A p \in Products : \A m \in InMemory(q, p) :
         m \in InMemory(req[s], p) \/ (p = q.id /\ m = product[p])
  BY <1>3, <1>5, <1>6 DEF InMemory
<1>8. LocalsOK(q)
  BY <1>1, <1>2, <1>5, <1>6, OpFacts DEF LocalsOK
<1>9. CopiesOK(q)
  BY <1>1, <1>5, <1>7, TableAgrees DEF CopiesOK
<1>10. AloneOK(q) /\ ("overlap" \notin disturbed => UndisturbedOK(q))
  BY <1>1, <1>3, <1>5 DEF AloneOK, UndisturbedOK
<1> QED BY <1>1, <1>4, <1>8, <1>9, <1>10, ContinueStep DEF GoodFor

(* What is listed has no null before an overlap. *)
LEMMA CacheHasNoNull ==
  ASSUME CopiesInv, "overlap" \notin disturbed
  PROVE  \A i \in DOMAIN OrEmpty(cache) : OrEmpty(cache)[i] # None
  BY DEF CopiesInv, NullNeedsOverlap, OrEmpty

(* A cart handler pushes a row it has loaded, or goes on to get the list.  *)
LEMMA ReadForShowKeeps ==
  ASSUME CatalogueAssumption, CopiesInv, NEW s \in Slots, ReadForShow(s)
  PROVE  CopiesInv'
<1> DEFINE l == OrEmpty(cache)
           hits == Sought(req[s], l)
           e == Pushed(req[s])
           k == IF hits = {} THEN Append(l, e) ELSE <<>>
           f == IF hits = {} THEN None ELSE req[s].fresh
           a == IF hits = {} THEN "set" ELSE "get"
           q == [req[s] EXCEPT !.at = a, !.list = k, !.held = None, !.fresh = f]
<1>1. /\ TypeOK /\ req[s] \in Request /\ req[s] # Idle /\ LocalsOK(req[s]) /\ CopiesOK(req[s])
      /\ "overlap" \notin disturbed => UndisturbedOK(req[s])
      /\ req[s].op \in CartOps /\ req[s].at = "read"
      /\ UNCHANGED <<product, cart, cache>>
      /\ l \in Seq(Entries)
  BY SlotFacts, CacheFacts DEF ReadForShow, GoodFor
<1>2. CASE Trips(l, hits) \/ (cache = None /\ req[s].op \in QuantityOps)
  <2>1. Throws(s)
    BY <1>2 DEF ReadForShow
  <2> QED BY <1>1, <2>1, ThrowStep
<1>3. CASE ~(Trips(l, hits) \/ (cache = None /\ req[s].op \in QuantityOps))
  <2> DEFINE p == req[s].id
             r == IF req[s].op = "add" THEN req[s].held ELSE req[s].fresh
  <2>1. Continues(s, q)
    BY <1>3 DEF ReadForShow
  <2>2. p \in Products /\ p \in Present
    BY <1>1, OpFacts, NoneIsNothing DEF LocalsOK
  <2>3. r \in Row \cup {None} /\ (r # None => r \in InMemory(req[s], p))
    BY <1>1, RequestFields, MemoryFacts
  <2>4. /\ e \in Entries
        /\ e # None => e.id = p /\ e.row = r /\ r # None
        /\ r # None => e # None
    <3>1. e = Entry(p, r)
      BY DEF Pushed
    <3> HIDE DEF e, r
    <3>2. r # None => [id |-> p, row |-> r] \in Product
      BY <2>2, <2>3 DEF Product
    <3> QED BY <3>1, <3>2, EntriesOf, NoneIsNothing DEF Entry
  <2> HIDE DEF r, e
  <2>5. /\ k \in Seq(Entries) /\ Ids(k) \subseteq Present
        /\ \A x \in Products : FoundIn(k, x) # None =>
              FoundIn(k, x) = Listed(x) \/ (x = p /\ FoundIn(k, x) = r /\ r # None)
    <3>1. CASE hits = {}
      <4>1. k = Append(l, e) /\ k \in Seq(Entries)
        BY <1>1, <2>4, <3>1, PushFacts
      <4>2. Ids(k) \subseteq Present
        <5>1. Ids(l) \subseteq Present
          BY DEF CopiesInv, NamesOK
        <5> HIDE DEF k, hits, l
        <5>2. \A i \in DOMAIN k : (i \in DOMAIN l /\ k[i] = l[i]) \/ k[i] = e
          BY <1>1, <2>4, <4>1, PushFacts
        <5> QED BY <2>2, <2>4, <5>1, <5>2 DEF Ids
      <4>3. \A x \in Products : Listed(x) = FoundIn(l, x)
        BY TableAgrees
      <4> HIDE DEF k, hits, l
      <4> QED BY <1>1, <2>4, <4>1, <4>2, <4>3, FoundAfterPush
    <3>2. CASE hits # {}
      BY <3>2, EmptyList
    <3> QED BY <3>1, <3>2
  <2>6. "overlap" \notin disturbed => \A i \in DOMAIN k : k[i] # None
    <3>1. CASE hits = {} /\ "overlap" \notin disturbed
      <4>1. k = Append(l, e)
        BY <3>1
      <4>2. \A i \in DOMAIN l : l[i] # None
        BY <3>1, CacheHasNoNull
      <4>3. r # None
        BY <1>1, <3>1 DEF LocalsOK, UndisturbedOK, r
      <4> HIDE DEF k, hits, l
      <4>4. \A i \in DOMAIN k : (i \in DOMAIN l /\ k[i] = l[i]) \/ k[i] = e
        BY <1>1, <2>4, <4>1, PushFacts
      <4> QED BY <2>4, <4>2, <4>3, <4>4
    <3>2. CASE hits # {}
      BY <3>2, EmptyList
    <3> QED BY <3>1, <3>2
  <2> HIDE DEF k, hits, l
  <2>7. f \in Row \cup {None} /\ a \in {"set", "get"} /\ (f # None => f = req[s].fresh)
    BY <1>1, RequestFields
  <2> HIDE DEF f, a
  <2>8. q \in Request
    BY <1>1, <2>5, <2>7 DEF Request, Queries
  <2>9. /\ q.op = req[s].op /\ q.at = a /\ q.id = p /\ q.rows = req[s].rows
        /\ q.held = None /\ q.fresh = f /\ q.list = k
    BY <1>1 DEF Request
  <2> HIDE DEF q
  <2>10. RowsIn(q) = RowsIn(req[s])
    BY <2>9 DEF RowsIn
  <2>11. \A x \in Products : InMemory(q, x) \subseteq InMemory(req[s], x)
    BY <2>7, <2>9, <2>10 DEF InMemory
  <2>12. LocalsOK(q)
    BY <1>1, <2>2, <2>5, <2>7, <2>9, <2>10, OpFacts DEF LocalsOK
  <2>13. CopiesOK(q)
    BY <1>1, <2>3, <2>5, <2>9, <2>11, TableAgrees DEF CopiesOK
  <2>14. AloneOK(q)
    BY <1>1, <2>9, OpFacts DEF AloneOK
  <2>15. "overlap" \notin disturbed => UndisturbedOK(q)
    BY <2>6, <2>7, <2>9 DEF UndisturbedOK
  <2> QED BY <1>1, <2>1, <2>8, <2>12, <2>13, <2>14, <2>15, ContinueStep DEF GoodFor
<1> QED BY <1>2, <1>3

LEMMA ReadForDeleteKeeps ==
  ASSUME CatalogueAssumption, CopiesInv, NEW s \in Slots, ReadForDelete(s)
  PROVE  CopiesInv'
<1> DEFINE l == OrEmpty(cache)
           p == req[s].id
           q == [req[s] EXCEPT !.at = "get"]
<1>1. /\ TypeOK /\ req[s] \in Request /\ req[s] # Idle /\ LocalsOK(req[s]) /\ CopiesOK(req[s])
      /\ "overlap" \notin disturbed => UndisturbedOK(req[s])
      /\ req[s].op = "delete" /\ req[s].at = "read"
      /\ UNCHANGED <<product, cart, cache>>
  BY SlotFacts DEF ReadForDelete, GoodFor
<1>2. p \in Products /\ p \in Present
  BY <1>1, OpFacts, NoneIsNothing DEF LocalsOK
<1>3. CASE Throws(s)
  BY <1>1, <1>3, ThrowStep
<1>4. CASE OnSaleById(l, p) = {} /\ Answers(s)
  <2>1. Listed(p) = None
    BY <1>4, FoundNowhere DEF Listed
  <2> QED BY <1>1, <1>2, <1>4, <2>1, AnswerStep
<1>5. CASE Continues(s, q)
  <2>1. q \in Request
    BY <1>1 DEF Request, Queries
  <2>2. /\ q.op = req[s].op /\ q.at = "get" /\ q.id = req[s].id /\ q.rows = req[s].rows
        /\ q.held = req[s].held /\ q.fresh = req[s].fresh /\ q.list = req[s].list
    BY <1>1 DEF Request
  <2> HIDE DEF q
  <2>3. RowsIn(q) = RowsIn(req[s])
    BY <2>2 DEF RowsIn
  <2>4. \A x \in Products : InMemory(q, x) = InMemory(req[s], x)
    BY <2>2, <2>3 DEF InMemory
  <2>5. LocalsOK(q)
    BY <1>1, <1>2, <2>2, <2>3 DEF LocalsOK
  <2>6. CopiesOK(q)
    BY <1>1, <2>2, <2>4 DEF CopiesOK
  <2>7. AloneOK(q) /\ ("overlap" \notin disturbed => UndisturbedOK(q))
    BY <1>1, <2>2, OpFacts DEF AloneOK, UndisturbedOK
  <2> QED BY <1>1, <1>5, <2>1, <2>5, <2>6, <2>7, ContinueStep DEF GoodFor
<1> QED BY <1>3, <1>4, <1>5 DEF ReadForDelete

(* The merge puts what the handler loaded, and lets nothing older show.    *)
LEMMA GetForUpdateKeeps ==
  ASSUME CatalogueAssumption, CopiesInv, NEW s \in Slots, GetForUpdate(s)
  PROVE  CopiesInv'
<1> DEFINE l == OrEmpty(cache)
           p == req[s].id
           r == req[s].fresh
           k == Merged(l, p, r)
           q == [req[s] EXCEPT !.at = "set", !.fresh = None, !.list = k]
<1>1. /\ TypeOK /\ req[s] \in Request /\ req[s] # Idle /\ LocalsOK(req[s]) /\ CopiesOK(req[s])
      /\ alone = s => AloneOK(req[s])
      /\ "overlap" \notin disturbed => UndisturbedOK(req[s])
      /\ req[s].op \in CartOps \cup {"edit"} /\ req[s].at = "get"
      /\ UNCHANGED <<product, cart, cache>>
      /\ l \in Seq(Entries)
  BY SlotFacts, CacheFacts DEF GetForUpdate, GoodFor
<1>2. p \in Products /\ p \in Present
  BY <1>1, OpFacts, NoneIsNothing DEF LocalsOK
<1>3. CASE Throws(s)
  BY <1>1, <1>3, ThrowStep
<1>4. CASE ById(l, p) = {} /\ Answers(s)
  <2>1. Listed(p) = None
    BY <1>1, <1>4, HitFacts, FoundNowhere DEF Listed
  <2> QED BY <1>1, <1>2, <1>4, <2>1, AnswerStep
<1>5. CASE ById(l, p) # {} /\ Continues(s, q)
  <2>1. r \in Row \cup {None}
    BY <1>1, RequestFields
  <2>2. /\ k \in Seq(Entries) /\ Ids(k) = Ids(l)
        /\ \A x \in Products : x # p => FoundIn(k, x) = Listed(x)
        /\ r = None => FoundIn(k, p) = Listed(p)
        /\ r # None /\ r.status = "ON_SALE" => FoundIn(k, p) = r
        /\ r # None /\ r.status # "ON_SALE" /\ Listed(p) = None => FoundIn(k, p) = None
        /\ (\A i \in DOMAIN l : l[i] # None) => (\A i \in DOMAIN k : k[i] # None)
    <3>1. \A x \in Products : Listed(x) = FoundIn(l, x)
      BY TableAgrees
    <3>2. CASE r = None
      <4>1. k = l
        BY <3>2 DEF Merged
      <4> QED BY <1>1, <1>2, <3>1, <3>2, <4>1
    <3>3. CASE r # None
      <4>1. r \in Row
        BY <2>1, <3>3
      <4>2. [id |-> p, row |-> r] # None
        BY <1>2, <4>1, NoneIsNothing DEF Product
      <4>3. k \in Seq(Entries) /\ ((\A i \in DOMAIN l : l[i] # None) => (\A i \in DOMAIN k : k[i] # None))
        <5>1. /\ k \in Seq(Entries) /\ DOMAIN k = DOMAIN l
              /\ \A j \in DOMAIN l :
                    k[j] = IF j = First(ById(l, p)) THEN [id |-> p, row |-> r] ELSE l[j]
          BY <1>1, <1>5, <4>1, MergeFacts
        <5> HIDE DEF k, l
        <5> QED BY <4>2, <5>1
      <4>4. /\ \A x : x # p => FoundIn(k, x) = FoundIn(l, x)
            /\ r.status = "ON_SALE" => FoundIn(k, p) = r
            /\ r.status # "ON_SALE" /\ FoundIn(l, p) = None => FoundIn(k, p) = None
            /\ Ids(k) = Ids(l)
        BY <1>1, <1>5, <4>1, FoundAfterMerge
      <4> QED BY <1>2, <3>1, <3>3, <4>3, <4>4
    <3> QED BY <3>2, <3>3
  <2>3. "overlap" \notin disturbed => \A i \in DOMAIN k : k[i] # None
    BY <2>2, CacheHasNoNull
  <2>4. Ids(k) \subseteq Present
    BY <2>2 DEF CopiesInv, NamesOK
  <2>5. Listed(p) # None => Listed(p).status = "ON_SALE"
    BY <1>1, FoundFacts DEF Listed
  <2>6. r # None => r \in InMemory(req[s], p)
    BY <1>1, MemoryFacts
  <2> HIDE DEF k, l
  <2>7. q \in Request
    BY <1>1, <2>2 DEF Request, Queries
  <2>8. /\ q.op = req[s].op /\ q.at = "set" /\ q.id = req[s].id /\ q.rows = req[s].rows
        /\ q.held = req[s].held /\ q.fresh = None /\ q.list = k
    BY <1>1 DEF Request
  <2> HIDE DEF q
  <2>9. RowsIn(q) = RowsIn(req[s])
    BY <2>8 DEF RowsIn
  <2>10. \A x \in Products : InMemory(q, x) \subseteq InMemory(req[s], x)
    BY <2>8, <2>9 DEF InMemory
  <2>11. LocalsOK(q)
    BY <1>1, <1>2, <2>4, <2>8, <2>9, OpFacts DEF LocalsOK
  <2>12. CopiesOK(q)
    <3>1. ASSUME NEW x \in Products, settled[x] # None, FoundIn(k, x) # None
          PROVE  Known(FoundIn(k, x)) = settled[x]
      <4>1. CASE x # p \/ r = None
        BY <2>2, <3>1, <4>1, TableAgrees
      <4>2. CASE x = p /\ r # None
        <5>1. Known(r) = settled[x] /\ Known(r).status = r.status
          BY <1>1, <2>6, <3>1, <4>2 DEF CopiesOK, Known
        <5>2. Listed(x) # None => Known(Listed(x)) = settled[x] /\ Known(Listed(x)).status = Listed(x).status
          BY <3>1, TableAgrees DEF Known
        <5>3. CASE r.status = "ON_SALE"
          BY <2>2, <4>2, <5>1, <5>3
        <5>4. CASE r.status # "ON_SALE"
          <6>1. Listed(p) = None
            BY <2>5, <4>2, <5>1, <5>2, <5>4
          <6> QED BY <2>2, <3>1, <4>2, <5>4, <6>1
        <5> QED BY <5>3, <5>4
      <4> QED BY <4>1, <4>2
    <3> QED BY <1>1, <2>8, <2>10, <3>1 DEF CopiesOK
  <2>13. alone = s => AloneOK(q)
    <3>1. ASSUME alone = s, q.op \in EditOps PROVE Known(FoundIn(k, p)) = Known(product[p])
      <4>1. q.op = "edit"
        BY <1>1, <2>8, <3>1, OpFacts
      <4>2. r = product[p] /\ p \in OnSale
        BY <1>1, <2>8, <3>1, <4>1 DEF AloneOK
      <4>3. r # None /\ r.status = "ON_SALE"
        BY <1>1, <1>2, <4>2, RowFacts DEF OnSale
      <4> QED BY <2>2, <4>2, <4>3
    <3> QED BY <2>8, <3>1 DEF AloneOK
  <2>14. "overlap" \notin disturbed => UndisturbedOK(q)
    BY <2>3, <2>8 DEF UndisturbedOK
  <2> QED BY <1>1, <1>5, <2>7, <2>11, <2>12, <2>13, <2>14, ContinueStep DEF GoodFor
<1> QED BY <1>3, <1>4, <1>5 DEF GetForUpdate

LEMMA GetForDeleteKeeps ==
  ASSUME CatalogueAssumption, CopiesInv, NEW s \in Slots, GetForDelete(s)
  PROVE  CopiesInv'
<1> DEFINE p == req[s].id
           k == Without(cache, p)
           q == [req[s] EXCEPT !.at = "set", !.list = k]
<1>1. /\ TypeOK /\ req[s] \in Request /\ req[s] # Idle /\ LocalsOK(req[s]) /\ CopiesOK(req[s])
      /\ req[s].op = "delete" /\ req[s].at = "get"
      /\ UNCHANGED <<product, cart, cache>>
  BY SlotFacts DEF GetForDelete, GoodFor
<1>2. p \in Products /\ p \in Present
  BY <1>1, OpFacts, NoneIsNothing DEF LocalsOK
<1>3. CASE Throws(s)
  BY <1>1, <1>3, ThrowStep
<1>4. CASE cache = None /\ Answers(s)
  <2>1. Listed(p) = None
    BY <1>4, EmptyList DEF Listed, OrEmpty
  <2> QED BY <1>1, <1>2, <1>4, <2>1, AnswerStep
<1>5. CASE cache # None /\ ~Trips(cache, {}) /\ Continues(s, q)
  <2>1. /\ cache \in Seq(Entries) /\ OrEmpty(cache) = cache
        /\ \A i \in DOMAIN cache : cache[i] # None
    BY <1>1, <1>5 DEF TypeOK, Trips, OrEmpty
  <2>2. /\ k \in Seq(Entries) /\ \A i \in DOMAIN k : k[i] # None
        /\ FoundIn(k, p) = None
        /\ \A x \in Products : x # p => FoundIn(k, x) = Listed(x)
    BY <2>1, FoundAfterFilter DEF Listed
  <2>3. Ids(k) \subseteq Present
    <3>1. Ids(k) \subseteq Ids(cache)
      BY <2>1, FoundAfterFilter
    <3> QED BY <2>1, <3>1 DEF CopiesInv, NamesOK
  <2> HIDE DEF k
  <2>4. q \in Request
    BY <1>1, <2>2 DEF Request, Queries
  <2>5. /\ q.op = req[s].op /\ q.at = "set" /\ q.id = req[s].id /\ q.rows = req[s].rows
        /\ q.held = req[s].held /\ q.fresh = req[s].fresh /\ q.list = k
    BY <1>1 DEF Request
  <2> HIDE DEF q
  <2>6. RowsIn(q) = RowsIn(req[s])
    BY <2>5 DEF RowsIn
  <2>7. \A x \in Products : InMemory(q, x) = InMemory(req[s], x)
    BY <2>5, <2>6 DEF InMemory
  <2>8. LocalsOK(q)
    BY <1>1, <1>2, <2>3, <2>5, <2>6 DEF LocalsOK
  <2>9. CopiesOK(q)
    BY <1>1, <2>2, <2>5, <2>7, TableAgrees DEF CopiesOK
  <2>10. AloneOK(q) /\ UndisturbedOK(q)
    BY <1>1, <2>2, <2>5, OpFacts DEF AloneOK, UndisturbedOK
  <2> QED BY <1>1, <1>5, <2>4, <2>8, <2>9, <2>10, ContinueStep DEF GoodFor
<1> QED BY <1>3, <1>4, <1>5 DEF GetForDelete

(* The table as getAllProducts reads it. *)
LEMMA FindAllKeeps ==
  ASSUME CatalogueAssumption, CopiesInv, NEW s \in Slots, FindAll(s)
  PROVE  CopiesInv'
<1>1. /\ TypeOK /\ req[s] \in Request /\ req[s] # Idle /\ LocalsOK(req[s]) /\ CopiesOK(req[s])
      /\ req[s].op = "list" /\ req[s].at = "find"
      /\ UNCHANGED <<product, cart, cache>>
  BY SlotFacts DEF FindAll, GoodFor
<1>2. PICK l \in [1 .. Cardinality(OnSale) -> OnSale] :
         Continues(s, [req[s] EXCEPT !.at = "set",
                          !.list = [i \in DOMAIN l |-> Entry(l[i], product[l[i]])]])
  BY DEF FindAll
<1> DEFINE n == Cardinality(OnSale)
           k == [i \in 1 .. n |-> Entry(l[i], product[l[i]])]
           q == [req[s] EXCEPT !.at = "set", !.list = k]
<1>3. n \in Nat
  <2>1. OnSale \in SUBSET Products /\ IsFiniteSet(Products)
    BY DEF OnSale, CatalogueAssumption
  <2> QED BY <2>1, FS_Subset, FS_CardinalityType
<1>4. DOMAIN l = 1 .. n /\ Continues(s, q)
  BY <1>2
<1>5. \A p \in OnSale : /\ p \in Products /\ p \in Present
                        /\ Entry(p, product[p]) = [id |-> p, row |-> product[p]]
                        /\ Entry(p, product[p]) \in Entries /\ Entry(p, product[p]) # None
  <2> TAKE p \in OnSale
  <2>1. p \in Products /\ p \in Present /\ product[p] \in Row /\ product[p] # None
    BY <1>1, RowFacts DEF OnSale
  <2>2. [id |-> p, row |-> product[p]] \in Product
    BY <2>1 DEF Product
  <2> QED BY <2>1, <2>2, EntriesOf, NoneIsNothing DEF Entry
<1>6. \A i \in 1 .. n : /\ k[i] \in Entries /\ k[i] # None /\ k[i].id \in Present
                        /\ k[i].row = product[k[i].id]
  <2> TAKE i \in 1 .. n
  <2>1. l[i] \in OnSale /\ k[i] = Entry(l[i], product[l[i]])
    OBVIOUS
  <2> HIDE DEF k
  <2>2. k[i] = [id |-> l[i], row |-> product[l[i]]] /\ l[i] \in Present
    BY <1>5, <2>1
  <2>3. k[i] \in Entries /\ k[i] # None
    BY <1>5, <2>1
  <2> QED BY <2>2, <2>3
<1>7. k \in Seq(Entries)
  <2>1. k \in [1 .. n -> Entries]
    BY <1>6
  <2> HIDE DEF k, n
  <2>2. k \in UNION {[1 .. m -> Entries] : m \in Nat}
    BY <1>3, <2>1
  <2> QED BY <2>2, SeqDef, Zenon
<1>8. DOMAIN k = 1 .. n
  OBVIOUS
<1> HIDE DEF k
<1>9. Ids(k) \subseteq Present
  BY <1>6, <1>8 DEF Ids
<1>10. \A x \in Products : FoundIn(k, x) # None => FoundIn(k, x) = product[x]
  <2> TAKE x \in Products
  <2>1. CASE FoundIn(k, x) # None
    <3>1. PICK i \in OnSaleById(k, x) : FoundIn(k, x) = k[i].row
      BY <1>1, <1>7, <2>1, FoundFacts
    <3>2. k[i].id = x /\ i \in DOMAIN k
      BY <1>7, HitFacts
    <3> QED BY <1>6, <1>8, <3>1, <3>2
  <2> QED BY <2>1
<1>11. q \in Request
  BY <1>1, <1>7 DEF Request, Queries
<1>12. /\ q.op = req[s].op /\ q.at = "set" /\ q.id = req[s].id /\ q.rows = req[s].rows
       /\ q.held = req[s].held /\ q.fresh = req[s].fresh /\ q.list = k
  BY <1>1 DEF Request
<1> HIDE DEF q
<1>13. RowsIn(q) = RowsIn(req[s])
  BY <1>12 DEF RowsIn
<1>14. \A x \in Products : InMemory(q, x) = InMemory(req[s], x)
  BY <1>12, <1>13 DEF InMemory
<1>15. LocalsOK(q)
  BY <1>1, <1>9, <1>12, <1>13, OpFacts DEF LocalsOK
<1>16. CopiesOK(q)
  BY <1>1, <1>10, <1>12, <1>14, TableAgrees, OpFacts DEF CopiesOK
<1>17. AloneOK(q) /\ UndisturbedOK(q)
  BY <1>1, <1>6, <1>8, <1>12, OpFacts DEF AloneOK, UndisturbedOK
<1> QED BY <1>1, <1>4, <1>11, <1>15, <1>16, <1>17, ContinueStep DEF GoodFor

-----------------------------------------------------------------------------
(* Queries that write.                                                     *)

(* The list that is set agrees with what is settled, and with what the     *)
(* handler settles itself.                                                 *)
LEMMA SetListKeeps ==
  ASSUME CatalogueAssumption, CopiesInv, NEW s \in Slots, SetList(s)
  PROVE  CopiesInv'
<1> DEFINE l == req[s].list
           p == req[s].id
<1>1. /\ TypeOK /\ TablesOK /\ req[s] \in Request /\ req[s] # Idle
      /\ LocalsOK(req[s]) /\ CopiesOK(req[s])
      /\ alone = s => AloneOK(req[s])
      /\ "overlap" \notin disturbed => UndisturbedOK(req[s])
      /\ req[s].at = "set" /\ UNCHANGED <<product, cart>> /\ l \in Seq(Entries)
  BY SlotFacts, RequestFields DEF SetList, GoodFor
<1>2. CASE Throws(s) /\ UNCHANGED cache
  BY <1>1, <1>2, ThrowStep
<1>3. CASE Answers(s) /\ cache' = l
  <2>1. req[s].op \in EditOps \cup UnitOps => p \in Present /\ p \in Products
    BY <1>1, OpFacts, NoneIsNothing DEF LocalsOK
  <2>2. /\ Frame(s, Idle) /\ Turn(s) /\ HistoryType' /\ (Shrinks \/ alone = s)
        /\ disturbed' = disturbed
        /\ \A x \in Products :
              \/ settled'[x] = settled[x]
              \/ /\ alone = s /\ req[s].op \in EditOps /\ x = p
                 /\ settled'[x] = Known(product[x])
        /\ \A x \in Products : counted'[x] = counted[x] \/ counted'[x] = product[x].pair
    BY <1>1, <1>3, <2>1, AnswersFacts
  <2>3. Present' = Present
    BY <1>1 DEF Present
  <2>4. OrEmpty(cache') \in {l, <<>>}
    BY <1>3 DEF OrEmpty
  <2>5. \A x \in Products : Listed(x)' \in {FoundIn(l, x), None}
    BY <2>4, EmptyList DEF Listed
  <2>6. EditsStay'
    <3>1. ASSUME NEW x \in Products, settled'[x] # None
          PROVE  /\ Known(product[x]) = settled'[x]
                 /\ FoundIn(l, x) # None => Known(FoundIn(l, x)) = settled'[x]
      <4>1. CASE settled'[x] = settled[x]
        BY <1>1, <3>1, <4>1, TableAgrees DEF CopiesOK
      <4>2. CASE settled'[x] # settled[x]
        BY <1>1, <2>2, <3>1, <4>2 DEF AloneOK
      <4> QED BY <4>1, <4>2
    <3> QED BY <1>1, <2>5, <3>1 DEF EditsStay
  <2>7. UnitsStay'
    BY <1>1, <2>2 DEF UnitsStay, TablesOK
  <2>8. NullNeedsOverlap'
    BY <1>1, <1>3, <2>2, <2>4, EmptyList DEF NullNeedsOverlap, UndisturbedOK
  <2>9. NamesOK'
    BY <1>1, <2>3, <2>4, EmptyList DEF NamesOK, TablesOK, LocalsOK
  <2>10. /\ product' \in [Products -> Row \cup {Absent}]
         /\ cart' \in [Users -> (SUBSET Products) \cup {None}]
         /\ cache' \in Seq(Entries) \cup {None}
    BY <1>1, <1>3 DEF TypeOK
  <2>11. TablesOK' /\ GoodFor(s, Idle)'
    BY <2>6, <2>7, <2>8, <2>9, IdleIsGood DEF TablesOK
  <2> QED BY <2>2, <2>3, <2>10, <2>11, IdleFields, Assemble
<1> QED BY <1>1, <1>2, <1>3 DEF SetList

(* A row that is written keeps what is settled and counted of its product, *)
(* for the copies in flight do.                                            *)
LEMMA WriteStep ==
  ASSUME CatalogueAssumption, CopiesInv, NEW s \in Slots, NEW q \in Request, req[s] # Idle,
         Continues(s, q), UNCHANGED cache,
         product' \in [Products -> Row \cup {Absent}],
         cart' \in [Users -> (SUBSET Products) \cup {None}],
         \A u \in Users : cart'[u] # None => cart'[u] \subseteq Present',
         Present \subseteq Present',
         \A p \in Products : settled[p] # None => Known(product'[p]) = settled[p],
         \A p \in Products : counted[p] # None => product'[p].pair = counted[p],
         LocalsOK(q)', CopiesOK(q), alone = s => AloneOK(q)',
         "overlap" \notin disturbed => UndisturbedOK(q)'
  PROVE  CopiesInv'
<1>1. TypeOK /\ TablesOK
  BY InvParts
<1>2. /\ Frame(s, q) /\ Turn(s) /\ Shrinks /\ HistoryType'
      /\ settled' = settled /\ counted' = counted /\ alone' = alone /\ disturbed' = disturbed
  BY <1>1, ContinuesFacts
<1>3. CopiesOK(q)'
  BY <1>2, CopiesKept
<1>4. GoodFor(s, q)'
  BY <1>2, <1>3 DEF GoodFor
<1>5. EditsStay'
  BY <1>1, <1>2 DEF TablesOK, EditsStay, Listed
<1>6. UnitsStay'
  BY <1>2 DEF UnitsStay
<1>7. NullNeedsOverlap' /\ NamesOK'
  BY <1>1, <1>2 DEF TablesOK, NullNeedsOverlap, NamesOK
<1>8. TablesOK' /\ cache' \in Seq(Entries) \cup {None}
  BY <1>1, <1>5, <1>6, <1>7 DEF TablesOK, TypeOK
<1> QED BY <1>2, <1>4, <1>8, Assemble

(* One row is written for another that keeps what is settled and counted.  *)
LEMMA RowWritten ==
  ASSUME CatalogueAssumption, CopiesInv, NEW p \in Products, NEW r \in Row,
         product' = [product EXCEPT ![p] = r],
         settled[p] # None => Known(r) = settled[p],
         counted[p] # None => r.pair = counted[p]
  PROVE  /\ product' \in [Products -> Row \cup {Absent}]
         /\ product'[p] = r
         /\ Present' = Present \cup {p}
         /\ \A x \in Products : settled[x] # None => Known(product'[x]) = settled[x]
         /\ \A x \in Products : counted[x] # None => product'[x].pair = counted[x]
<1>1. product \in [Products -> Row \cup {Absent}]
  BY DEF CopiesInv, TypeOK
<1>2. /\ product' \in [Products -> Row \cup {Absent}] /\ product'[p] = r
      /\ \A x \in Products : x # p => product'[x] = product[x]
  BY <1>1
<1>3. r.status # "absent"
  BY DEF Row
<1>4. Present' = Present \cup {p}
  BY <1>2, <1>3 DEF Present
<1> QED BY <1>2, <1>4, TableAgrees

(* The new row has an id that nothing carries a copy of.                   *)
LEMMA SaveNewKeeps ==
  ASSUME CatalogueAssumption, CopiesInv, NEW s \in Slots, SaveNew(s)
  PROVE  CopiesInv'
<1>1. /\ TypeOK /\ TablesOK /\ req[s] \in Request /\ req[s] # Idle
      /\ LocalsOK(req[s]) /\ CopiesOK(req[s])
      /\ "overlap" \notin disturbed => UndisturbedOK(req[s])
      /\ req[s].op = "create" /\ req[s].at = "save"
      /\ UNCHANGED <<cart, cache>>
  BY SlotFacts DEF SaveNew, GoodFor
<1>2. PICK p \in Products, price \in Prices :
         /\ product[p] = Absent
         /\ product' = [product EXCEPT ![p] = NewRow(price)]
         /\ Continues(s, [req[s] EXCEPT !.id = p, !.at = "set",
                             !.list = Append(@, Entry(p, NewRow(price)))])
  BY DEF SaveNew
<1> DEFINE r == NewRow(price)
           e == [id |-> p, row |-> r]
<1>3. r \in Row /\ r # None /\ r.pair = 0 /\ r.status = "ON_SALE"
  <2>1. r \in Row /\ r.pair = 0 /\ r.status = "ON_SALE"
    BY DEF NewRow, Row, CatalogueAssumption
  <2> QED BY <2>1, NoneIsNothing
<1> HIDE DEF r
<1>4. e \in Entries /\ e # None /\ e = Entry(p, r) /\ e.id = p /\ e.row = r
  BY <1>3, EntriesOf, NoneIsNothing DEF Product, Entry
<1>5. p \notin Present
  BY <1>2 DEF Present, Absent
<1>6. settled[p] = None /\ (counted[p] # None => r.pair = counted[p])
  <2>1. Absent.status = "absent" /\ Absent.pair = 0
    BY DEF Absent
  <2>2. settled[p] # None => settled[p].status \in {"ON_SALE", "DELETED"}
    BY <1>1 DEF TypeOK
  <2>3. settled[p] # None => settled[p].status = "absent"
    <3>1. Known(Absent).status = "absent"
      BY <2>1 DEF Known
    <3>2. settled[p] # None => Known(product[p]) = settled[p]
      BY TableAgrees
    <3> QED BY <1>2, <3>1, <3>2
  <2> QED BY <1>2, <1>3, <2>1, <2>2, <2>3, TableAgrees
<1> HIDE DEF e
<1>7. PICK k \in Seq(Entries) : k = Append(req[s].list, e)
  BY <1>1, <1>4, RequestFields, PushFacts
<1>8. /\ Ids(req[s].list) \subseteq Present
      /\ \A i \in DOMAIN k : (i \in DOMAIN req[s].list /\ k[i] = req[s].list[i]) \/ k[i] = e
  BY <1>1, <1>4, <1>7, RequestFields, PushFacts DEF LocalsOK
<1>9. Ids(k) \subseteq Present \cup {p}
  BY <1>4, <1>8 DEF Ids
<1>10. /\ \A x \in Products : x # p /\ FoundIn(k, x) # None => FoundIn(k, x) = FoundIn(req[s].list, x)
       /\ FoundIn(k, p) # None => FoundIn(k, p) = r
  <2>1. FoundIn(req[s].list, p) = None
    BY <1>1, <1>5, <1>8, RequestFields, FoundIsListed
  <2> QED BY <1>1, <1>4, <1>7, <2>1, RequestFields, FoundAfterPush
<1>11. PICK q \in Request :
          /\ Continues(s, q)
          /\ q.op = "create" /\ q.at = "set" /\ q.id = p /\ q.rows = req[s].rows
          /\ q.held = None /\ q.fresh = None /\ q.list = k
  <2> DEFINE q == [req[s] EXCEPT !.id = p, !.at = "set", !.list = k]
  <2>1. Continues(s, q)
    BY <1>2, <1>4, <1>7 DEF r
  <2>2. q \in Request
    BY <1>1 DEF Request, Queries
  <2>3. /\ q.op = "create" /\ q.at = "set" /\ q.id = p /\ q.rows = req[s].rows
        /\ q.held = None /\ q.fresh = None /\ q.list = k
    BY <1>1 DEF Request, LocalsOK
  <2> QED BY <2>1, <2>2, <2>3
<1>12. /\ product' \in [Products -> Row \cup {Absent}]
       /\ product'[p] = r
       /\ Present' = Present \cup {p}
       /\ \A x \in Products : settled[x] # None => Known(product'[x]) = settled[x]
       /\ \A x \in Products : counted[x] # None => product'[x].pair = counted[x]
  BY <1>2, <1>3, <1>6, RowWritten DEF r
<1>13. RowsIn(q) = RowsIn(req[s])
  BY <1>11 DEF RowsIn
<1>14. \A x \in Products : InMemory(q, x) \subseteq InMemory(req[s], x)
  BY <1>11, <1>13 DEF InMemory
<1>15. LocalsOK(q)'
  <2>1. DOMAIN RowsIn(q) \subseteq Present
    BY <1>1, <1>13 DEF LocalsOK
  <2> QED BY <1>9, <1>11, <1>12, <2>1, OpFacts DEF LocalsOK
<1>16. CopiesOK(q)
  BY <1>1, <1>6, <1>10, <1>11, <1>14, OpFacts DEF CopiesOK
<1>17. AloneOK(q)'
  BY <1>10, <1>11, <1>12 DEF AloneOK
<1>18. "overlap" \notin disturbed => UndisturbedOK(q)'
  BY <1>1, <1>4, <1>8, <1>11, OpFacts DEF UndisturbedOK
<1>19. cart' \in [Users -> (SUBSET Products) \cup {None}]
       /\ \A u \in Users : cart'[u] # None => cart'[u] \subseteq Present'
  BY <1>1, <1>12 DEF TypeOK, TablesOK, NamesOK
<1> QED BY <1>1, <1>11, <1>12, <1>15, <1>16, <1>17, <1>18, <1>19, WriteStep

(* An edit writes all of the row it loaded, on sale, at its price.         *)
LEMMA SaveEditKeeps ==
  ASSUME CatalogueAssumption, CopiesInv, NEW s \in Slots, SaveEdit(s)
  PROVE  CopiesInv'
<1> DEFINE p == req[s].id
<1>1. /\ TypeOK /\ TablesOK /\ req[s] \in Request /\ req[s] # Idle
      /\ LocalsOK(req[s]) /\ CopiesOK(req[s])
      /\ "overlap" \notin disturbed => UndisturbedOK(req[s])
      /\ req[s].op = "edit" /\ req[s].at = "save"
      /\ UNCHANGED <<cart, cache>>
  BY SlotFacts DEF SaveEdit, GoodFor
<1>2. /\ p \in Products /\ p \in Present
      /\ req[s].held \in Row /\ req[s].held # None /\ req[s].held.status = "ON_SALE"
      /\ req[s].held \in InMemory(req[s], p)
  <2>1. p \in Products /\ p \in Present /\ req[s].held # None /\ req[s].held.status = "ON_SALE"
    BY <1>1, NoneIsNothing DEF LocalsOK
  <2> QED BY <1>1, <2>1, RequestFields, MemoryFacts
<1>3. PICK price \in Prices \cup {req[s].held.price} :
         /\ product' = [product EXCEPT ![p] = [req[s].held EXCEPT !.price = price]]
         /\ Continues(s, [req[s] EXCEPT !.at = "get", !.held = None,
                             !.fresh = [req[s].held EXCEPT !.price = price]])
  BY DEF SaveEdit
<1>4. PICK r \in Row : r = [req[s].held EXCEPT !.price = price]
  BY <1>2 DEF Row
<1>5. r # None /\ r.status = "ON_SALE" /\ r.pair = req[s].held.pair
  BY <1>2, <1>4, NoneIsNothing DEF Row
<1>6. settled[p] = None /\ (counted[p] # None => r.pair = counted[p])
  BY <1>1, <1>2, <1>5, OpFacts DEF CopiesOK
<1>7. PICK q \in Request :
         /\ Continues(s, q)
         /\ q.op = "edit" /\ q.at = "get" /\ q.id = p /\ q.rows = req[s].rows
         /\ q.held = None /\ q.fresh = r /\ q.list = req[s].list
  <2> DEFINE q == [req[s] EXCEPT !.at = "get", !.held = None, !.fresh = r]
  <2>1. Continues(s, q)
    BY <1>3, <1>4
  <2>2. q \in Request
    BY <1>1 DEF Request, Queries
  <2>3. /\ q.op = "edit" /\ q.at = "get" /\ q.id = p /\ q.rows = req[s].rows
        /\ q.held = None /\ q.fresh = r /\ q.list = req[s].list
    BY <1>1 DEF Request
  <2> QED BY <2>1, <2>2, <2>3
<1>8. /\ product' \in [Products -> Row \cup {Absent}]
      /\ product'[p] = r
      /\ Present' = Present \cup {p}
      /\ \A x \in Products : settled[x] # None => Known(product'[x]) = settled[x]
      /\ \A x \in Products : counted[x] # None => product'[x].pair = counted[x]
  BY <1>2, <1>3, <1>4, <1>6, RowWritten
<1>9. RowsIn(q) = RowsIn(req[s])
  BY <1>7 DEF RowsIn
<1>10. \A x \in Products : \A m \in InMemory(q, x) : m \in InMemory(req[s], x) \/ (x = p /\ m = r)
  BY <1>7, <1>9 DEF InMemory
<1>11. LocalsOK(q)'
  BY <1>1, <1>2, <1>7, <1>8, <1>9, OpFacts DEF LocalsOK
<1>12. CopiesOK(q)
  BY <1>1, <1>6, <1>7, <1>10, OpFacts DEF CopiesOK
<1>13. AloneOK(q)'
  BY <1>2, <1>5, <1>7, <1>8 DEF AloneOK, OnSale
<1>14. "overlap" \notin disturbed => UndisturbedOK(q)'
  BY <1>1, <1>7, OpFacts DEF UndisturbedOK
<1>15. cart' \in [Users -> (SUBSET Products) \cup {None}]
       /\ \A u \in Users : cart'[u] # None => cart'[u] \subseteq Present'
  BY <1>1, <1>8 DEF TypeOK, TablesOK, NamesOK
<1> QED BY <1>1, <1>7, <1>8, <1>11, <1>12, <1>13, <1>14, <1>15, WriteStep

LEMMA UpdateStatusKeeps ==
  ASSUME CatalogueAssumption, CopiesInv, NEW s \in Slots, UpdateStatus(s)
  PROVE  CopiesInv'
<1> DEFINE p == req[s].id
<1>1. /\ TypeOK /\ TablesOK /\ req[s] \in Request /\ req[s] # Idle
      /\ LocalsOK(req[s]) /\ CopiesOK(req[s])
      /\ "overlap" \notin disturbed => UndisturbedOK(req[s])
      /\ req[s].op = "delete" /\ req[s].at = "status"
      /\ UNCHANGED <<cart, cache>>
      /\ product' = [product EXCEPT ![p].status = "DELETED"]
      /\ Continues(s, [req[s] EXCEPT !.at = "read"])
  BY SlotFacts DEF UpdateStatus, GoodFor
<1>2. p \in Products /\ p \in Present /\ product[p] \in Row
  BY <1>1, OpFacts, NoneIsNothing, RowFacts DEF LocalsOK
<1>3. PICK r \in Row : r = [product[p] EXCEPT !.status = "DELETED"]
  BY <1>2 DEF Row
<1>4. r.pair = product[p].pair
  BY <1>2, <1>3 DEF Row
<1>5. settled[p] = None /\ (counted[p] # None => r.pair = counted[p])
  BY <1>1, <1>2, <1>4, TableAgrees, OpFacts DEF CopiesOK
<1>6. PICK q \in Request :
         /\ Continues(s, q)
         /\ q.op = "delete" /\ q.at = "read" /\ q.id = p /\ q.rows = req[s].rows
         /\ q.held = req[s].held /\ q.fresh = req[s].fresh /\ q.list = req[s].list
  <2> DEFINE q == [req[s] EXCEPT !.at = "read"]
  <2>1. q \in Request
    BY <1>1 DEF Request, Queries
  <2>2. /\ q.op = "delete" /\ q.at = "read" /\ q.id = p /\ q.rows = req[s].rows
        /\ q.held = req[s].held /\ q.fresh = req[s].fresh /\ q.list = req[s].list
    BY <1>1 DEF Request
  <2> QED BY <1>1, <2>1, <2>2
<1>7. product' = [product EXCEPT ![p] = r]
  BY <1>1, <1>2, <1>3
<1>8. /\ product' \in [Products -> Row \cup {Absent}]
      /\ Present' = Present \cup {p}
      /\ \A x \in Products : settled[x] # None => Known(product'[x]) = settled[x]
      /\ \A x \in Products : counted[x] # None => product'[x].pair = counted[x]
  BY <1>2, <1>5, <1>7, RowWritten
<1>9. RowsIn(q) = RowsIn(req[s])
  BY <1>6 DEF RowsIn
<1>10. \A x \in Products : InMemory(q, x) = InMemory(req[s], x)
  BY <1>6, <1>9 DEF InMemory
<1>11. LocalsOK(q)'
  BY <1>1, <1>2, <1>6, <1>8, <1>9, OpFacts DEF LocalsOK
<1>12. CopiesOK(q)
  BY <1>1, <1>5, <1>6, <1>10, OpFacts DEF CopiesOK
<1>13. AloneOK(q)'
  BY <1>6 DEF AloneOK
<1>14. "overlap" \notin disturbed => UndisturbedOK(q)'
  BY <1>1, <1>6, OpFacts DEF UndisturbedOK
<1>15. cart' \in [Users -> (SUBSET Products) \cup {None}]
       /\ \A u \in Users : cart'[u] # None => cart'[u] \subseteq Present'
  BY <1>1, <1>8 DEF TypeOK, TablesOK, NamesOK
<1> QED BY <1>1, <1>6, <1>8, <1>11, <1>12, <1>13, <1>14, <1>15, WriteStep

(* A pair edit writes the row it found back with other units.              *)
LEMMA SavePairKeeps ==
  ASSUME CatalogueAssumption, CopiesInv, NEW s \in Slots, SavePair(s)
  PROVE  CopiesInv'
<1> DEFINE p == req[s].id
<1>1. /\ TypeOK /\ TablesOK /\ req[s] \in Request /\ req[s] # Idle
      /\ LocalsOK(req[s]) /\ CopiesOK(req[s])
      /\ req[s].op = "pair" /\ req[s].at = "save"
      /\ UNCHANGED <<cart, cache>>
  BY SlotFacts DEF SavePair
<1>2. /\ p \in Products /\ p \in Present
      /\ req[s].held \in Row /\ req[s].held \in InMemory(req[s], p)
  <2>1. p \in Products /\ p \in Present /\ req[s].held # None
    BY <1>1, OpFacts, NoneIsNothing DEF LocalsOK
  <2> QED BY <1>1, <2>1, RequestFields, MemoryFacts
<1>3. PICK n \in MinUnits .. MaxUnits : product' = [product EXCEPT ![p] = [req[s].held EXCEPT !.pair = n]]
  BY DEF SavePair
<1>4. PICK r \in Row : r = [req[s].held EXCEPT !.pair = n]
  BY <1>2 DEF Row
<1>5. Known(r) = Known(req[s].held) /\ r.pair \in Int
  BY <1>2, <1>4 DEF Row, Known, CatalogueAssumption
<1>6. (settled[p] # None => Known(r) = settled[p]) /\ counted[p] = None
  BY <1>1, <1>2, <1>5, OpFacts DEF CopiesOK
<1>7. /\ product' \in [Products -> Row \cup {Absent}]
      /\ product'[p] = r
      /\ Present' = Present \cup {p}
      /\ \A x \in Products : settled[x] # None => Known(product'[x]) = settled[x]
      /\ \A x \in Products : counted[x] # None => product'[x].pair = counted[x]
  BY <1>2, <1>3, <1>4, <1>6, RowWritten
<1>8. Frame(s, Idle) /\ Turn(s) /\ settled' = settled
      /\ ("overlap" \in disturbed' <=> "overlap" \in disturbed)
  BY <1>1, GoesFrame, IdleFields DEF SavePair, Turn, TypeOK
<1>9. /\ counted' \in [Products -> Int \cup {None}]
      /\ \A x \in Products : counted'[x] # None => counted'[x] = counted[x] \/ (x = p /\ counted'[x] = product'[x].pair)
      /\ counted' = counted \/ alone = s
  BY <1>1, <1>2, <1>5, <1>7 DEF SavePair, TypeOK
<1>10. HistoryType'
  <2>1. /\ alone' \in Slots \cup {None} /\ disturbed' \subseteq Disturbances /\ faults' \in 0 .. MaxFaults
        /\ settled' \in [Products -> Settled \cup {None}]
    BY <1>1 DEF SavePair, TypeOK, Disturbances, Settled
  <2> QED BY <1>9, <2>1 DEF HistoryType
<1>11. Shrinks \/ alone = s
  BY <1>8, <1>9 DEF Shrinks
<1>12. EditsStay'
  BY <1>1, <1>7, <1>8 DEF TablesOK, EditsStay, Listed
<1>13. UnitsStay'
  BY <1>7, <1>9 DEF UnitsStay
<1>14. NullNeedsOverlap' /\ NamesOK'
  BY <1>1, <1>7, <1>8 DEF TablesOK, NullNeedsOverlap, NamesOK
<1>15. /\ TablesOK' /\ GoodFor(s, Idle)'
       /\ cart' \in [Users -> (SUBSET Products) \cup {None}]
       /\ cache' \in Seq(Entries) \cup {None}
  BY <1>1, <1>12, <1>13, <1>14, IdleIsGood DEF TablesOK, TypeOK
<1> QED BY <1>7, <1>8, <1>10, <1>11, <1>15, IdleFields, Assemble

(* A cart writes back only rows that are in memory, of what exists.        *)
LEMMA WrittenFacts ==
  ASSUME CatalogueAssumption, NEW q \in Request, LocalsOK(q), q.op \in CartOps, q.at = "cart"
  PROVE  /\ DOMAIN Written(q) \subseteq Present
         /\ \A p \in DOMAIN Written(q) : Written(q)[p] \in InMemory(q, p) /\ Written(q)[p] \in Row
<1>1. q.id \in Products /\ q.id \in Present /\ DOMAIN RowsIn(q) \subseteq Present
      /\ (q.op = "add" => q.held # None)
  BY OpFacts, NoneIsNothing DEF LocalsOK
<1>2. /\ DOMAIN Written(q) \subseteq DOMAIN RowsIn(q) \cup {q.id}
      /\ \A p \in DOMAIN Written(q) :
            Written(q)[p] = IF p \in DOMAIN RowsIn(q) THEN RowsIn(q)[p] ELSE q.held
      /\ \A p \in DOMAIN Written(q) : p \notin DOMAIN RowsIn(q) => q.op = "add" /\ p = q.id
  BY DEF Written
<1>3. ASSUME NEW p \in DOMAIN Written(q)
      PROVE  Written(q)[p] \in InMemory(q, p) /\ Written(q)[p] \in Row
  <2>1. CASE p \in DOMAIN RowsIn(q)
    BY <1>2, <2>1, MemoryFacts
  <2>2. CASE p \notin DOMAIN RowsIn(q)
    BY <1>1, <1>2, <2>2, MemoryFacts
  <2> QED BY <2>1, <2>2
<1> QED BY <1>1, <1>2, <1>3

(* The rows a cart writes back agree with what is settled and counted, and *)
(* no product of it vanishes.                                              *)
LEMMA SaveCartKeeps ==
  ASSUME CatalogueAssumption, CopiesInv, NEW s \in Slots, SaveCart(s)
  PROVE  CopiesInv'
<1> DEFINE p == req[s].id
           D == DOMAIN Written(req[s])
           rows == IF req[s].rows = None THEN None ELSE NoRows
<1>1. /\ TypeOK /\ TablesOK /\ req[s] \in Request /\ req[s] # Idle
      /\ LocalsOK(req[s]) /\ CopiesOK(req[s])
      /\ "overlap" \notin disturbed => UndisturbedOK(req[s])
      /\ req[s].op \in CartOps /\ req[s].at = "cart"
      /\ UNCHANGED cache
  BY SlotFacts DEF SaveCart, GoodFor
<1>2. CASE Throws(s) /\ UNCHANGED <<product, cart>>
  BY <1>1, <1>2, ThrowStep
<1>3. CASE /\ cart' = [cart EXCEPT ![req[s].user] = D]
           /\ product' = [x \in Products |-> IF x \in D THEN Written(req[s])[x] ELSE product[x]]
           /\ Continues(s, [req[s] EXCEPT !.at = "stock",
                               !.rows = IF @ = None THEN None ELSE NoRows])
  <2>1. /\ D \subseteq Present
        /\ \A x \in D : Written(req[s])[x] \in InMemory(req[s], x) /\ Written(req[s])[x] \in Row
    BY <1>1, WrittenFacts
  <2>2. Present \subseteq Products
    BY DEF Present
  <2>3. /\ product' \in [Products -> Row \cup {Absent}]
        /\ \A x \in Products : product'[x] = product[x]
              \/ (product'[x] \in InMemory(req[s], x) /\ product'[x] \in Row)
    BY <1>1, <1>3, <2>1 DEF TypeOK
  <2> HIDE DEF D
  <2>4. \A x \in Products : settled[x] # None => Known(product'[x]) = settled[x]
    BY <1>1, <2>3, TableAgrees DEF CopiesOK
  <2>5. \A x \in Products : counted[x] # None => product'[x].pair = counted[x]
    BY <1>1, <2>3, TableAgrees DEF CopiesOK
  <2>6. Present \subseteq Present'
    <3>1. \A r \in Row : r.status # "absent"
      BY DEF Row
    <3> QED BY <2>3, <3>1 DEF Present
  <2>7. /\ cart' \in [Users -> (SUBSET Products) \cup {None}]
        /\ \A u \in Users : cart'[u] # None => cart'[u] \subseteq Present'
    BY <1>1, <1>3, <2>1, <2>2, <2>6 DEF TypeOK, TablesOK, NamesOK
  <2>8. rows \in CartRows \cup {None}
    <3>1. NoRows \in [{} -> Row]
      BY DEF NoRows
    <3> QED BY <3>1 DEF CartRows
  <2>9. PICK q \in Request :
           /\ Continues(s, q)
           /\ q.op = req[s].op /\ q.at = "stock" /\ q.id = p /\ q.rows = rows
           /\ q.held = req[s].held /\ q.fresh = req[s].fresh /\ q.list = req[s].list
    <3> DEFINE q == [req[s] EXCEPT !.at = "stock", !.rows = rows]
    <3>1. Continues(s, q)
      BY <1>1, <1>3 DEF Request
    <3> HIDE DEF rows
    <3>2. q \in Request
      BY <1>1, <2>8 DEF Request, Queries
    <3>3. /\ q.op = req[s].op /\ q.at = "stock" /\ q.id = p /\ q.rows = rows
          /\ q.held = req[s].held /\ q.fresh = req[s].fresh /\ q.list = req[s].list
      BY <1>1 DEF Request
    <3> QED BY <3>1, <3>2, <3>3
  <2>10. DOMAIN RowsIn(q) = {}
    BY <2>9 DEF RowsIn, NoRows
  <2>11. \A x \in Products : InMemory(q, x) \subseteq InMemory(req[s], x)
    BY <2>9, <2>10 DEF InMemory
  <2>12. LocalsOK(q)'
    BY <1>1, <2>6, <2>9, <2>10, OpFacts DEF LocalsOK
  <2>13. CopiesOK(q)
    BY <1>1, <2>9, <2>11 DEF CopiesOK
  <2>14. AloneOK(q)'
    BY <2>9 DEF AloneOK
  <2>15. "overlap" \notin disturbed => UndisturbedOK(q)'
    <3>1. ASSUME "overlap" \notin disturbed, q.held # None PROVE p \in OnSale'
      <4>1. p \in Products /\ product[p].status = "ON_SALE" /\ \A r \in InMemory(req[s], p) : r.status = "ON_SALE"
        BY <1>1, <2>9, <3>1 DEF UndisturbedOK, OnSale
      <4>2. product'[p].status = "ON_SALE"
        BY <2>3, <4>1
      <4> QED BY <4>1, <4>2 DEF OnSale
    <3> QED BY <1>1, <2>9, <3>1 DEF UndisturbedOK
  <2> QED BY <1>1, <2>3, <2>4, <2>5, <2>6, <2>7, <2>9, <2>12, <2>13, <2>14, <2>15, WriteStep
<1> QED BY <1>2, <1>3 DEF SaveCart

(* The units are those of the copy, changed; the status and the price are  *)
(* the row's.                                                              *)
LEMMA UpdateStockKeeps ==
  ASSUME CatalogueAssumption, CopiesInv, NEW s \in Slots, UpdateStock(s)
  PROVE  CopiesInv'
<1> DEFINE p == req[s].id
           h == IF req[s].op = "add" THEN req[s].held ELSE None
<1>1. /\ TypeOK /\ TablesOK /\ req[s] \in Request /\ req[s] # Idle
      /\ LocalsOK(req[s]) /\ CopiesOK(req[s])
      /\ "overlap" \notin disturbed => UndisturbedOK(req[s])
      /\ req[s].op \in CartOps /\ req[s].at = "stock"
      /\ UNCHANGED <<cart, cache>>
  BY SlotFacts DEF UpdateStock, GoodFor
<1>2. CASE Throws(s) /\ UNCHANGED product
  BY <1>1, <1>2, ThrowStep
<1>3. CASE req[s].held # None /\ \E n \in MinUnits .. MaxUnits :
              /\ ~(Units(req[s], n) > MaxUnits)
              /\ product' = [product EXCEPT ![p].pair = Units(req[s], n)]
              /\ Continues(s, [req[s] EXCEPT !.at = "refetch", !.held = h])
  <2>1. PICK n \in MinUnits .. MaxUnits :
              /\ ~(Units(req[s], n) > MaxUnits)
              /\ product' = [product EXCEPT ![p].pair = Units(req[s], n)]
    BY <1>3
  <2>2. Continues(s, [req[s] EXCEPT !.at = "refetch", !.held = h])
    BY <1>3
  <2>3. p \in Products /\ p \in Present /\ product[p] \in Row /\ req[s].held \in Row
    BY <1>1, <1>3, OpFacts, NoneIsNothing, RowFacts, RequestFields DEF LocalsOK
  <2>4. Units(req[s], n) \in MinUnits .. MaxUnits
    <3>1. /\ req[s].held.pair \in Int /\ n \in Int
          /\ MaxUnits \in Nat /\ MinUnits \in Int /\ MinUnits <= 0
      BY <2>3 DEF Row, CatalogueAssumption
    <3>2. Units(req[s], n) \in Nat
      BY <1>1, <3>1, OpFacts DEF Units, AtLeast0
    <3> QED BY <2>1, <3>1, <3>2
  <2>5. PICK r \in Row : r = [product[p] EXCEPT !.pair = Units(req[s], n)]
    BY <2>3, <2>4 DEF Row
  <2>6. Known(r) = Known(product[p]) /\ r.status = product[p].status
    BY <2>3, <2>5 DEF Row, Known
  <2>7. (settled[p] # None => Known(r) = settled[p]) /\ counted[p] = None
    BY <1>1, <2>3, <2>6, TableAgrees, OpFacts DEF CopiesOK
  <2>8. product' = [product EXCEPT ![p] = r]
    BY <1>1, <2>1, <2>3, <2>5
  <2>9. /\ product' \in [Products -> Row \cup {Absent}]
        /\ product'[p] = r
        /\ Present' = Present \cup {p}
        /\ \A x \in Products : settled[x] # None => Known(product'[x]) = settled[x]
        /\ \A x \in Products : counted[x] # None => product'[x].pair = counted[x]
    BY <2>3, <2>7, <2>8, RowWritten
  <2>10. h \in Row \cup {None} /\ (h # None => h = req[s].held) /\ (req[s].op = "add" => h = req[s].held)
    BY <1>1, RequestFields
  <2> HIDE DEF h
  <2>11. PICK q \in Request :
           /\ Continues(s, q)
           /\ q.op = req[s].op /\ q.at = "refetch" /\ q.id = p /\ q.rows = req[s].rows
           /\ q.held = h /\ q.fresh = req[s].fresh /\ q.list = req[s].list
    <3> DEFINE q == [req[s] EXCEPT !.at = "refetch", !.held = h]
    <3>1. q \in Request
      BY <1>1, <2>10 DEF Request, Queries
    <3>2. /\ q.op = req[s].op /\ q.at = "refetch" /\ q.id = p /\ q.rows = req[s].rows
          /\ q.held = h /\ q.fresh = req[s].fresh /\ q.list = req[s].list
      BY <1>1 DEF Request
    <3> QED BY <2>2, <3>1, <3>2
  <2>12. RowsIn(q) = RowsIn(req[s])
    BY <2>11 DEF RowsIn
  <2>13. \A x \in Products : InMemory(q, x) \subseteq InMemory(req[s], x)
    BY <2>10, <2>11, <2>12 DEF InMemory
  <2>14. LocalsOK(q)'
    BY <1>1, <1>3, <2>3, <2>9, <2>10, <2>11, <2>12, OpFacts DEF LocalsOK
  <2>15. CopiesOK(q)
    BY <1>1, <2>11, <2>13 DEF CopiesOK
  <2>16. AloneOK(q)'
    BY <2>11 DEF AloneOK
  <2>17. "overlap" \notin disturbed => UndisturbedOK(q)'
    <3>1. ASSUME "overlap" \notin disturbed PROVE p \in OnSale'
      BY <1>1, <1>3, <2>3, <2>6, <2>9, <3>1 DEF UndisturbedOK, OnSale
    <3> QED BY <1>1, <2>11, <3>1 DEF UndisturbedOK
  <2>18. cart' \in [Users -> (SUBSET Products) \cup {None}]
         /\ \A u \in Users : cart'[u] # None => cart'[u] \subseteq Present'
    BY <1>1, <2>9 DEF TypeOK, TablesOK, NamesOK
  <2> QED BY <1>1, <2>9, <2>11, <2>14, <2>15, <2>16, <2>17, <2>18, WriteStep
<1>4. CASE req[s].held # None
  <2>1. PICK n \in MinUnits .. MaxUnits :
           IF Units(req[s], n) > MaxUnits
           THEN Throws(s) /\ UNCHANGED product
           ELSE /\ product' = [product EXCEPT ![p].pair = Units(req[s], n)]
                /\ Continues(s, [req[s] EXCEPT !.at = "refetch", !.held = h])
    BY <1>1, <1>4 DEF UpdateStock, Request
  <2> QED BY <1>2, <1>3, <1>4, <2>1
<1> QED BY <1>2, <1>4 DEF UpdateStock

LEMMA SaveRefusedKeeps ==
  ASSUME CatalogueAssumption, CopiesInv, NEW s \in Slots, SaveRefused(s)
  PROVE  CopiesInv'
<1>1. req[s] # Idle
  BY OpFacts, IdleFields DEF SaveRefused, At
<1>2. Throws(s) /\ UNCHANGED <<product, cart, cache>>
  BY DEF SaveRefused
<1> QED BY <1>1, <1>2, ThrowStep

(* A key that expires leaves nothing to be found in the list.              *)
LEMMA CacheExpiresKeeps ==
  ASSUME CatalogueAssumption, CopiesInv, CacheExpires
  PROVE  CopiesInv'
<1>1. /\ TypeOK /\ TablesOK /\ InFlightOK /\ \A s \in Slots : GoodFor(s, req[s])
  BY InvParts
<1>2. /\ cache' = None /\ UNCHANGED <<product, cart, req, alone, settled, counted, faults>>
      /\ OrEmpty(cache') = <<>> /\ Present' = Present /\ OnSale' = OnSale
  BY DEF CacheExpires, OrEmpty, Present, OnSale
<1>3. disturbed' = disturbed \/ (Quiet /\ disturbed' = {})
  BY DEF CacheExpires
<1>4. TypeOK'
  BY <1>1, <1>2, <1>3 DEF TypeOK
<1>5. EditsStay' /\ UnitsStay' /\ NullNeedsOverlap' /\ NamesOK'
  BY <1>1, <1>2, EmptyList
     DEF TablesOK, EditsStay, UnitsStay, NullNeedsOverlap, NamesOK, Listed
<1>6. InFlightOK'
  BY <1>1, <1>2, <1>3 DEF InFlightOK, Quiet
<1>7. ASSUME NEW s \in Slots PROVE GoodFor(s, req[s])'
  <2>1. PICK q \in Request : q = req[s]
    BY <1>1 DEF TypeOK
  <2>2. q = req'[s] /\ GoodFor(s, q)
    BY <1>1, <1>2, <2>1
  <2>3. GoodFor(s, q)'
    <3>1. CASE disturbed' = disturbed
      <4>1. LocalsOK(q)' /\ CopiesOK(q)'
        BY <1>2, <2>2, LocalsKept, CopiesKept DEF GoodFor, Shrinks
      <4>2. (alone' = s => AloneOK(q)') /\ ("overlap" \notin disturbed' => UndisturbedOK(q)')
        BY <1>2, <2>2, <3>1 DEF GoodFor, AloneOK, UndisturbedOK
      <4> QED BY <4>1, <4>2 DEF GoodFor
    <3>2. CASE Quiet
      BY <2>1, <3>2, IdleIsGood DEF Quiet
    <3> QED BY <1>3, <3>1, <3>2
  <2> QED BY <2>2, <2>3
<1> QED BY <1>4, <1>5, <1>6, <1>7 DEF CopiesInv, GoodFor, SlotOK

-----------------------------------------------------------------------------
(* The invariant.                                                          *)

LEMMA InitHolds == ASSUME CatalogueAssumption, Init PROVE CopiesInv
<1>1. TypeOK
  BY IdleFields DEF Init, TypeOK, Disturbances, CatalogueAssumption
<1>2. OrEmpty(cache) = <<>>
  BY DEF Init, OrEmpty
<1>3. TablesOK
  BY <1>2, EmptyList DEF Init, TablesOK, EditsStay, UnitsStay, NullNeedsOverlap, NamesOK
<1>4. InFlightOK
  BY DEF Init, InFlightOK
<1>5. \A s \in Slots : GoodFor(s, req[s])
  BY IdleIsGood DEF Init
<1> QED BY <1>1, <1>3, <1>4, <1>5, InvParts

LEMMA StepKeeps == ASSUME CatalogueAssumption, CopiesInv, Next PROVE CopiesInv'
<1>1. CASE CacheExpires
  BY <1>1, CacheExpiresKeeps
<1>2. ASSUME NEW s \in Slots, Arrive(s) PROVE CopiesInv'
  BY <1>2, ReadForCreateKeeps, ReadForListKeeps, LoadForEditKeeps, LoadForDeleteKeeps,
     ReadForPairKeeps, LoadCartKeeps DEF Arrive
<1>3. ASSUME NEW s \in Slots, Proceed(s) PROVE CopiesInv'
  BY <1>3, LoadForCartKeeps, LoadForPairKeeps, SaveNewKeeps, SaveEditKeeps, SavePairKeeps,
     SaveRefusedKeeps, UpdateStatusKeeps, SaveCartKeeps, UpdateStockKeeps, RefetchKeeps, ReadForShowKeeps,
     ReadForDeleteKeeps, GetForUpdateKeeps, GetForDeleteKeeps, FindAllKeeps, SetListKeeps
     DEF Proceed
<1>4. ASSUME NEW s \in Slots, QueryFails(s) PROVE CopiesInv'
  BY <1>4, ThrowStep DEF QueryFails
<1> QED BY <1>1, <1>2, <1>3, <1>4 DEF Next

(* A step that changes nothing keeps it. *)
LEMMA StutterKeeps == ASSUME CatalogueAssumption, CopiesInv, UNCHANGED vars PROVE CopiesInv'
<1>1. /\ TypeOK /\ TablesOK /\ InFlightOK /\ \A s \in Slots : GoodFor(s, req[s])
      /\ UNCHANGED <<product, cart, cache, req, alone, disturbed, settled, counted, faults>>
  BY InvParts DEF vars
<1>2. Present' = Present /\ OnSale' = OnSale
  BY <1>1 DEF Present, OnSale
<1>3. TypeOK'
  BY <1>1 DEF TypeOK
<1>4. EditsStay' /\ UnitsStay' /\ NullNeedsOverlap' /\ NamesOK'
  BY <1>1, <1>2 DEF TablesOK, EditsStay, UnitsStay, NullNeedsOverlap, NamesOK, Listed
<1>5. InFlightOK'
  BY <1>1 DEF InFlightOK
<1>6. ASSUME NEW s \in Slots PROVE GoodFor(s, req[s])'
  <2>1. PICK q \in Request : q = req[s]
    BY <1>1 DEF TypeOK
  <2>2. q = req'[s] /\ GoodFor(s, q)
    BY <1>1, <2>1
  <2>3. LocalsOK(q)' /\ CopiesOK(q)'
    BY <1>1, <1>2, <2>2, LocalsKept, CopiesKept DEF GoodFor, Shrinks
  <2>4. (alone' = s => AloneOK(q)') /\ ("overlap" \notin disturbed' => UndisturbedOK(q)')
    BY <1>1, <1>2, <2>2 DEF GoodFor, AloneOK, UndisturbedOK
  <2> QED BY <2>2, <2>3, <2>4 DEF GoodFor
<1> QED BY <1>3, <1>4, <1>5, <1>6 DEF CopiesInv, GoodFor, SlotOK

(* No copy of a row, in the memory of a handler or in the list, disagrees  *)
(* with what an undisturbed edit or cart handler left in that row.         *)
THEOREM CopiesInvariant == Spec => []CopiesInv
<1>1. Init => CopiesInv
  BY InitHolds, CatalogueAssumption
<1>2. CopiesInv /\ [Next]_vars => CopiesInv'
  BY StepKeeps, StutterKeeps, CatalogueAssumption
<1> QED BY <1>1, <1>2, PTL DEF Spec

(* Rows, carts, the list and the requests keep their types: no handler     *)
(* writes a row that was never loaded, nor units outside the column.       *)
THEOREM TypeCorrect == Spec => []TypeOK
<1>1. CopiesInv => TypeOK
  BY DEF CopiesInv
<1> QED BY <1>1, CopiesInvariant, PTL

(* updateProductGeneral, updateProductInventory and deleteProduct: what    *)
(* one of them leaves with nothing else in flight stays, in the row and in *)
(* the list, until another edit of the product comes.                      *)
THEOREM EditsAreKept == Spec => []EditsStay
<1>1. CopiesInv => EditsStay
  BY DEF CopiesInv
<1> QED BY <1>1, CopiesInvariant, PTL

(* addToCart, removeFromCart, the quantity handlers and                    *)
(* updatePairQuantity: the units one of them leaves with nothing else in   *)
(* flight stay until the next of that product comes.                       *)
THEOREM UnitsAreKept == Spec => []UnitsStay
<1>1. CopiesInv => UnitsStay
  BY DEF CopiesInv
<1> QED BY <1>1, CopiesInvariant, PTL

(* No cart handler sets a list with a null in it unless another request    *)
(* ran between its queries.                                                *)
THEOREM NullsNeedOverlaps == Spec => []NullNeedsOverlap
<1>1. CopiesInv => NullNeedsOverlap
  BY DEF CopiesInv
<1> QED BY <1>1, CopiesInvariant, PTL
=============================================================================
