------------------------- MODULE CatalogueListProofs -------------------------
(***************************************************************************)
(* The cached list of Catalogue agrees with the table until two requests   *)
(* overlap or a query fails, for any products, prices and users and lists  *)
(* of any length: ListAgrees, from the inductive invariant ListInv.  Only  *)
(* one request runs as long as nothing has overlapped, so ListInv says     *)
(* what that request knows between its queries.                            *)
(***************************************************************************)
EXTENDS CatalogueProofs

USE DEF At


-----------------------------------------------------------------------------
(* Lists that are tidy: what the handlers do to them.                      *)

LEMMA Positions ==
  ASSUME NEW n \in Nat
  PROVE  IsFiniteSet(1 .. n) /\ Cardinality(1 .. n) = n
  BY FS_Interval

(* In a tidy list a product has one entry, and that is on sale.            *)
LEMMA TidyHits ==
  ASSUME CatalogueAssumption, NEW l \in Seq(Entries), Tidy(l), NEW p
  PROVE  /\ OnSaleById(l, p) = ById(l, p)
         /\ \A i, j \in ById(l, p) : i = j
         /\ ~Trips(l, ById(l, p))
         /\ ById(l, p) = {} => \A i \in DOMAIN l : l[i].id # p
         /\ ById(l, p) = {} <=> p \notin Ids(l)
  BY IdsFacts DEF Tidy, OnSaleById, ById, Trips

LEMMA EmptyIsTidy ==
  ASSUME CatalogueAssumption
  PROVE  Tidy(<<>>) /\ Len(<<>>) = 0 /\ \A X : InStepBut(<<>>, X) /\ InStepBut(<<>>, X)'
<1>1. DOMAIN <<>> = {} /\ Len(<<>>) = 0
  BY EmptyList
<1> QED BY <1>1 DEF Tidy, InStepBut

LEMMA EntryFacts ==
  ASSUME CatalogueAssumption, NEW p \in Products, NEW r \in Row
  PROVE  /\ Entry(p, r) = [id |-> p, row |-> r] /\ Entry(p, r) \in Entries
         /\ Entry(p, r) # None /\ Entry(p, r).id = p /\ Entry(p, r).row = r
<1>1. [id |-> p, row |-> r] \in Product
  BY DEF Product
<1> QED BY <1>1, EntriesOf, NoneIsNothing DEF Entry

(* The push of a product on sale that the list does not have. *)
LEMMA TidyPush ==
  ASSUME CatalogueAssumption, NEW l \in Seq(Entries), Tidy(l), NEW p \in Products, NEW r \in Row,
         r.status = "ON_SALE", p \notin Ids(l)
  PROVE  /\ Append(l, Entry(p, r)) \in Seq(Entries)
         /\ Tidy(Append(l, Entry(p, r)))
         /\ \A i \in DOMAIN Append(l, Entry(p, r)) :
               \/ Append(l, Entry(p, r))[i] = Entry(p, r)
               \/ \E j \in DOMAIN l : Append(l, Entry(p, r))[i] = l[j]
<1> DEFINE e == Entry(p, r)
           k == Append(l, e)
           n == Len(l) + 1
<1>1. e \in Entries /\ e # None /\ e.id = p /\ e.row = r
  BY EntryFacts
<1> HIDE DEF e
<1>2. /\ k \in Seq(Entries) /\ DOMAIN k = (DOMAIN l) \cup {n} /\ k[n] = e
      /\ \A i \in DOMAIN l : k[i] = l[i]
  BY <1>1, PushFacts
<1> HIDE DEF k, n
<1>3. \A i \in DOMAIN l : l[i].id # p
  BY TidyHits
<1>4. Tidy(k)
  BY <1>1, <1>2, <1>3 DEF Tidy
<1> QED BY <1>2, <1>4 DEF k, e

(* The merge of a row on sale. *)
LEMMA TidyMerge ==
  ASSUME CatalogueAssumption, NEW l \in Seq(Entries), Tidy(l), NEW p, NEW r \in Row,
         r.status = "ON_SALE", ById(l, p) # {}
  PROVE  /\ Merged(l, p, r) \in Seq(Entries)
         /\ Tidy(Merged(l, p, r))
         /\ Len(Merged(l, p, r)) = Len(l)
         /\ \A i \in DOMAIN Merged(l, p, r) :
               \/ Merged(l, p, r)[i] = [id |-> p, row |-> r]
               \/ \E j \in DOMAIN l : Merged(l, p, r)[i] = l[j] /\ l[j].id # p
<1> DEFINE k == Merged(l, p, r)
           f == First(ById(l, p))
           e == [id |-> p, row |-> r]
<1>1. /\ f \in ById(l, p) /\ k \in Seq(Entries) /\ DOMAIN k = DOMAIN l
      /\ \A j \in DOMAIN l : k[j] = IF j = f THEN e ELSE l[j]
  BY MergeFacts
<1>2. e # None /\ e.id = p /\ e.row = r /\ l[f].id = p /\ f \in DOMAIN l
  BY <1>1, HitFacts, NoneIsNothing DEF Product
<1> HIDE DEF k, f, e
<1>3. \A j \in DOMAIN l : j # f => l[j].id # p /\ k[j] = l[j]
  BY <1>1, <1>2 DEF Tidy
<1>4. k[f] = e
  BY <1>1, <1>2
<1>5. \A j \in DOMAIN l : k[j].id = l[j].id /\ k[j] # None /\ k[j].row.status = "ON_SALE"
  BY <1>2, <1>3, <1>4 DEF Tidy
<1>6. Tidy(k)
  BY <1>1, <1>5 DEF Tidy
<1>7. Len(k) = Len(l)
  <2>1. /\ Len(k) \in Nat /\ Len(l) \in Nat
        /\ 1 .. Len(k) = 1 .. Len(l)
    BY <1>1, ListFacts
  <2>2. ~(Len(k) < Len(l)) /\ ~(Len(l) < Len(k))
    BY <2>1
  <2> QED BY <2>1, <2>2
<1> QED BY <1>1, <1>3, <1>4, <1>6, <1>7 DEF k, e

(* The filter. *)
LEMMA TidyFilter ==
  ASSUME CatalogueAssumption, NEW l \in Seq(Entries), Tidy(l), NEW p
  PROVE  /\ Without(l, p) \in Seq(Entries)
         /\ Tidy(Without(l, p))
         /\ Len(Without(l, p)) <= Len(l)
         /\ \A i \in DOMAIN Without(l, p) :
               \E j \in DOMAIN l : Without(l, p)[i] = l[j] /\ l[j].id # p
<1> DEFINE w == Without(l, p)
           n == Cardinality(Kept(l, p))
           g == Ascending(Kept(l, p))
<1>1. /\ n \in Nat /\ g \in [1 .. n -> Kept(l, p)]
      /\ w = [i \in 1 .. n |-> l[g[i]]]
      /\ \A j, k \in 1 .. n : j < k => g[j] < g[k]
  BY FilterFacts
<1>2. w \in Seq(Entries)
  BY FoundAfterFilter DEF Tidy
<1>3. n <= Len(l)
  <2>1. DOMAIN l = 1 .. Len(l) /\ Len(l) \in Nat
    BY ListFacts
  <2>2. Kept(l, p) \in SUBSET (1 .. Len(l))
    BY <2>1 DEF Kept
  <2>3. IsFiniteSet(1 .. Len(l)) /\ Cardinality(1 .. Len(l)) = Len(l)
    BY <2>1, Positions
  <2>4. Cardinality(Kept(l, p)) <= Cardinality(1 .. Len(l))
    BY <2>2, <2>3, FS_Subset
  <2> QED BY <2>3, <2>4
<1> HIDE DEF w, n, g
<1>4. \A i \in 1 .. n : g[i] \in DOMAIN l /\ l[g[i]].id # p /\ w[i] = l[g[i]]
  BY <1>1 DEF Kept
<1>5. DOMAIN w = 1 .. n
  BY <1>1
<1>6. \A i, j \in 1 .. n : g[i] = g[j] => i = j
  <2> TAKE i, j \in 1 .. n
  <2>1. g[i] \in Nat /\ g[j] \in Nat
    BY <1>4, ListFacts
  <2>2. i \in Nat /\ j \in Nat
    OBVIOUS
  <2> QED BY <1>1, <2>1, <2>2
<1>7. Tidy(w)
  BY <1>4, <1>5, <1>6 DEF Tidy
<1>8. Len(w) = n
  <2>1. Len(w) \in Nat /\ 1 .. Len(w) = 1 .. n
    BY <1>2, <1>5, ListFacts
  <2>2. ~(Len(w) < n) /\ ~(n < Len(w))
    BY <1>1, <2>1
  <2> QED BY <1>1, <2>1, <2>2
<1> QED BY <1>2, <1>3, <1>4, <1>5, <1>7, <1>8 DEF w

(* All the rows on sale, each once. *)
LEMMA TidyTable ==
  ASSUME CatalogueAssumption, TypeOK, NEW l \in [1 .. Cardinality(OnSale) -> OnSale],
         \A p \in OnSale : \E i \in DOMAIN l : l[i] = p
  PROVE  LET k == [i \in DOMAIN l |-> Entry(l[i], product[l[i]])] IN
         /\ Tidy(k)
         /\ \A i \in DOMAIN k : k[i].id \in OnSale /\ k[i].row = product[k[i].id]
<1> DEFINE n == Cardinality(OnSale)
           k == [i \in DOMAIN l |-> Entry(l[i], product[l[i]])]
<1>1. IsFiniteSet(OnSale) /\ n \in Nat
  <2>1. OnSale \in SUBSET Products /\ IsFiniteSet(Products)
    BY DEF OnSale, CatalogueAssumption
  <2> QED BY <2>1, FS_Subset, FS_CardinalityType
<1>2. \A i, j \in 1 .. n : l[i] = l[j] => i = j
  <2>1. IsFiniteSet(1 .. n) /\ Cardinality(1 .. n) = n
    BY <1>1, Positions
  <2>2. l \in Surjection(1 .. n, OnSale)
    <3>1. l \in [1 .. n -> OnSale] /\ DOMAIN l = 1 .. n
      OBVIOUS
    <3> HIDE DEF n
    <3> QED BY <3>1 DEF Surjection
  <2>3. l \in Injection(1 .. n, OnSale)
    BY <1>1, <2>1, <2>2, FS_SurjSameCardinalityImpliesInj
  <2> QED BY <2>3 DEF Injection, IsInjective
<1>3. \A p \in OnSale : /\ Entry(p, product[p]) # None /\ Entry(p, product[p]).id = p
                        /\ Entry(p, product[p]).row = product[p]
                        /\ product[p].status = "ON_SALE"
  <2> TAKE p \in OnSale
  <2>1. p \in Products /\ product[p] \in Row
    BY RowFacts DEF OnSale
  <2> QED BY <2>1, EntryFacts DEF OnSale
<1>4. DOMAIN k = 1 .. n /\ \A i \in 1 .. n : l[i] \in OnSale /\ k[i] = Entry(l[i], product[l[i]])
  OBVIOUS
<1> HIDE DEF k, n
<1>5. Tidy(k)
  BY <1>2, <1>3, <1>4 DEF Tidy
<1>6. \A i \in DOMAIN k : k[i].id \in OnSale /\ k[i].row = product[k[i].id]
  BY <1>3, <1>4
<1> QED BY <1>5, <1>6 DEF k

-----------------------------------------------------------------------------
(* What a step has to show.                                                *)

LEMMA IdleLocals ==
  ASSUME CatalogueAssumption
  PROVE  /\ Changing(Idle) = {}
         /\ HeldOK(Idle) /\ FreshOK(Idle) /\ SetOK(Idle)
         /\ HeldOK(Idle)' /\ FreshOK(Idle)' /\ SetOK(Idle)'
<1>1. Idle.op = "none" /\ Idle.at = "none"
  BY IdleFields
<1> QED BY <1>1, OpFacts DEF Changing, HeldOK, FreshOK, SetOK

(* While nothing has overlapped, the request in flight is up to date.      *)
LEMMA ListPrior ==
  ASSUME ListInv, Undisturbed, NEW s \in Slots, req[s] # Idle \/ Quiet
  PROVE  UpToDate(req[s])
  BY DEF ListInv, Quiet

LEMMA ListStep ==
  ASSUME CatalogueAssumption, CopiesInv, NEW s \in Slots, NEW q, Goes(s, q),
         Undisturbed' => Undisturbed /\ UpToDate(q)' /\ (req[s] # Idle \/ Quiet)
  PROVE  ListInv'
<1> SUFFICES ASSUME Undisturbed'
             PROVE  /\ Quiet' => UpToDate(Idle)'
                    /\ \A t \in Slots : req'[t] # Idle => UpToDate(req[t])'
  BY DEF ListInv
<1>1. "overlap" \notin disturbed
  BY DEF Undisturbed
<1>2. \A t \in Slots : t # s => req[t] = Idle
  BY <1>1 DEF CopiesInv, InFlightOK, Quiet
<1>3. req'[s] = q /\ \A t \in Slots : t # s => req'[t] = Idle
  BY <1>2 DEF Goes, CopiesInv, TypeOK
<1>4. Quiet' => UpToDate(Idle)'
  BY <1>3 DEF Quiet
<1>5. ASSUME NEW t \in Slots, req'[t] # Idle PROVE UpToDate(req[t])'
  <2>1. t = s /\ req'[t] = q
    BY <1>3, <1>5
  <2> QED BY <2>1
<1> QED BY <1>4, <1>5

(* Nothing gets out of date when no row and no list is written.            *)
LEMMA UpToDateKept ==
  ASSUME NEW q, UpToDate(q), UNCHANGED <<product, cache, disturbed>>
  PROVE  UpToDate(q)'
  BY DEF UpToDate, ListedOK, HeldOK, FreshOK, SetOK, InStepBut, InStep, OnSale

LEMMA StartsList ==
  ASSUME CatalogueAssumption, CopiesInv, ListInv, NEW s \in Slots, NEW q, Starts(s, q),
         UNCHANGED <<product, cache>>, Changing(q) = {},
         Undisturbed /\ ListedOK(Idle) => HeldOK(q) /\ FreshOK(q) /\ SetOK(q)
  PROVE  ListInv'
<1>1. Goes(s, q) /\ req[s] = Idle
  BY DEF Starts
<1>2. ASSUME Undisturbed'
      PROVE  Undisturbed /\ UpToDate(q)' /\ Quiet
  <2>1. Quiet /\ disturbed' = disturbed
    BY <1>2 DEF Starts, Undisturbed
  <2>2. Undisturbed
    BY <1>2, <2>1 DEF Undisturbed
  <2>3. ListedOK(Idle)
    BY <1>1, <2>1, <2>2, ListPrior DEF UpToDate
  <2>4. ListedOK(q)
    BY <2>3, IdleLocals DEF ListedOK
  <2>5. UpToDate(q)
    BY <2>2, <2>3, <2>4 DEF UpToDate
  <2> QED BY <2>1, <2>2, <2>5, UpToDateKept
<1> QED BY <1>1, <1>2, ListStep

LEMMA ContinuesList ==
  ASSUME CatalogueAssumption, CopiesInv, ListInv, NEW s \in Slots, req[s] # Idle, NEW q,
         Continues(s, q), UNCHANGED <<product, cache>>,
         Undisturbed /\ UpToDate(req[s]) => UpToDate(q)
  PROVE  ListInv'
<1>1. Goes(s, q) /\ disturbed' = disturbed
  BY DEF Continues, history
<1>2. Undisturbed' => Undisturbed
  BY <1>1 DEF Undisturbed
<1>3. Undisturbed => UpToDate(q)'
  BY <1>1, ListPrior, UpToDateKept
<1> QED BY <1>1, <1>2, <1>3, ListStep

(* A handler that stops leaves no entry behind.                            *)
LEMMA StopsList ==
  ASSUME CatalogueAssumption, CopiesInv, ListInv, NEW s \in Slots, req[s] # Idle,
         Throws(s) \/ Answers(s), UNCHANGED <<product, cache>>,
         Undisturbed /\ UpToDate(req[s]) => InStepBut(OrEmpty(cache), {})
  PROVE  ListInv'
<1>1. Goes(s, Idle) /\ disturbed' = disturbed
  BY DEF Throws, Answers
<1>2. Undisturbed' => Undisturbed
  BY <1>1 DEF Undisturbed
<1>3. ASSUME Undisturbed PROVE UpToDate(Idle)
  <2>1. UpToDate(req[s])
    BY <1>3, ListPrior
  <2> QED BY <1>3, <2>1, IdleLocals DEF UpToDate, ListedOK
<1>4. Undisturbed => UpToDate(Idle)'
  BY <1>1, <1>3, UpToDateKept
<1> QED BY <1>1, <1>2, <1>4, ListStep

LEMMA QueryFailsList ==
  ASSUME NEW s \in Slots, QueryFails(s)
  PROVE  ListInv'
<1>1. "fault" \in disturbed'
  BY DEF QueryFails
<1> QED BY <1>1 DEF ListInv, Undisturbed

-----------------------------------------------------------------------------
(* The first query of each handler.                                        *)

LEMMA ReadForCreateList ==
  ASSUME CatalogueAssumption, CopiesInv, ListInv, NEW s \in Slots, ReadForCreate(s)
  PROVE  ListInv'
<1> DEFINE q == Call("create", "save", None, None, None, None, None, OrEmpty(cache))
<1>1. q.op = "create" /\ q.at = "save" /\ q.list = OrEmpty(cache)
  BY CallFields
<1>2. Starts(s, q) /\ UNCHANGED <<product, cache>>
  BY DEF ReadForCreate
<1> HIDE DEF q
<1>3. Changing(q) = {} /\ HeldOK(q) /\ FreshOK(q)
  BY <1>1, OpFacts DEF Changing, HeldOK, FreshOK
<1>4. ListedOK(Idle) => SetOK(q)
  BY <1>1, IdleLocals DEF ListedOK, SetOK
<1> QED BY <1>2, <1>3, <1>4, StartsList

LEMMA ReadForListList ==
  ASSUME CatalogueAssumption, CopiesInv, ListInv, NEW s \in Slots, ReadForList(s)
  PROVE  ListInv'
<1> DEFINE q == Call("list", "find", None, None, None, None, None, <<>>)
<1>1. q.op = "list" /\ q.at = "find"
  BY CallFields
<1>2. Starts(s, q) /\ UNCHANGED <<product, cache>>
  BY DEF ReadForList
<1> HIDE DEF q
<1>3. Changing(q) = {} /\ HeldOK(q) /\ FreshOK(q) /\ SetOK(q)
  BY <1>1, OpFacts DEF Changing, HeldOK, FreshOK, SetOK
<1> QED BY <1>2, <1>3, StartsList

LEMMA LoadForEditList ==
  ASSUME CatalogueAssumption, CopiesInv, ListInv, NEW s \in Slots, NEW p \in Products,
         LoadForEdit(s, p) \/ LoadForDelete(s, p)
  PROVE  ListInv'
<1>1. CASE LoadForEdit(s, p)
  <2> DEFINE q == Call("edit", "save", p, None, None, product[p], None, <<>>)
  <2>1. q.op = "edit" /\ q.at = "save" /\ q.id = p /\ q.held = product[p]
    BY CallFields
  <2>2. Starts(s, q) /\ UNCHANGED <<product, cache>>
    BY <1>1 DEF LoadForEdit
  <2> HIDE DEF q
  <2>3. Changing(q) = {} /\ HeldOK(q) /\ FreshOK(q) /\ SetOK(q)
    BY <2>1, OpFacts DEF Changing, HeldOK, FreshOK, SetOK
  <2> QED BY <2>2, <2>3, StartsList
<1>2. CASE LoadForDelete(s, p)
  <2> DEFINE q == Call("delete", "status", p, None, None, None, None, <<>>)
  <2>1. q.op = "delete" /\ q.at = "status"
    BY CallFields
  <2>2. Starts(s, q) /\ UNCHANGED <<product, cache>>
    BY <1>2 DEF LoadForDelete
  <2> HIDE DEF q
  <2>3. Changing(q) = {} /\ HeldOK(q) /\ FreshOK(q) /\ SetOK(q)
    BY <2>1, OpFacts DEF Changing, HeldOK, FreshOK, SetOK
  <2> QED BY <2>2, <2>3, StartsList
<1> QED BY <1>1, <1>2

LEMMA LoadCartList ==
  ASSUME CatalogueAssumption, CopiesInv, ListInv, NEW s \in Slots, NEW op \in CartOps,
         NEW u \in Users, NEW p \in Products, LoadCart(s, op, u, p)
  PROVE  ListInv'
<1> DEFINE q == Call(op, "product", p, u, RowsOf(u), None, None, <<>>)
<1>1. q.op = op /\ q.at = "product" /\ q.rows = RowsOf(u)
  BY CallFields
<1>2. Starts(s, q) /\ UNCHANGED <<product, cache>>
  BY DEF LoadCart
<1> HIDE DEF q
<1>3. \A x \in DOMAIN RowsIn(q) : RowsIn(q)[x] = product[x]
  BY <1>1 DEF RowsIn, NoRows, RowsOf
<1>4. Changing(q) = {} /\ HeldOK(q) /\ FreshOK(q) /\ SetOK(q)
  BY <1>1, <1>3, OpFacts DEF Changing, HeldOK, FreshOK, SetOK
<1> QED BY <1>2, <1>4, StartsList

(* What a pair edit takes from the list has the status and the price of    *)
(* the row.                                                                *)
LEMMA ReadForPairList ==
  ASSUME CatalogueAssumption, CopiesInv, ListInv, NEW s \in Slots, NEW p \in Products,
         ReadForPair(s, p)
  PROVE  ListInv'
<1> DEFINE l == OrEmpty(cache)
           hits == OnSaleById(l, p)
<1>1. UNCHANGED <<product, cache>> /\ l \in Seq(Entries)
  BY CacheFacts DEF ReadForPair, CopiesInv
<1>2. CASE hits = {}
  <2> DEFINE q == Call("pair", "product", p, None, None, None, None, <<>>)
  <2>1. q.op = "pair" /\ q.at = "product"
    BY CallFields
  <2>2. Starts(s, q)
    BY <1>2 DEF ReadForPair
  <2> HIDE DEF q
  <2>3. Changing(q) = {} /\ HeldOK(q) /\ FreshOK(q) /\ SetOK(q)
    BY <2>1, OpFacts DEF Changing, HeldOK, FreshOK, SetOK
  <2> QED BY <1>1, <2>2, <2>3, StartsList
<1>3. CASE hits # {}
  <2> DEFINE r == l[First(hits)].row
             q == Call("pair", "save", p, None, None, r, None, <<>>)
  <2>1. q.op = "pair" /\ q.at = "save" /\ q.id = p /\ q.held = r
    BY CallFields
  <2>2. Starts(s, q)
    BY <1>3 DEF ReadForPair
  <2>3. First(hits) \in DOMAIN l /\ l[First(hits)].id = p
    BY <1>1, <1>3, HitFacts, FirstIsLeast
  <2> HIDE DEF q
  <2>4. ASSUME ListedOK(Idle) PROVE Known(r) = Known(product[p])
    BY <2>3, <2>4, IdleLocals DEF ListedOK, InStepBut, InStep
  <2>5. Changing(q) = {} /\ FreshOK(q) /\ SetOK(q)
    BY <2>1, OpFacts DEF Changing, FreshOK, SetOK
  <2>6. ListedOK(Idle) => HeldOK(q)
    BY <2>1, <2>4, OpFacts DEF HeldOK
  <2> QED BY <1>1, <2>2, <2>5, <2>6, StartsList
<1> QED BY <1>2, <1>3

-----------------------------------------------------------------------------
(* Queries that write nothing.                                             *)

(* With no entry left behind a handler can stop at any time.               *)
LEMMA NothingLeft ==
  ASSUME NEW q, UpToDate(q), Changing(q) = {}
  PROVE  InStepBut(OrEmpty(cache), {})
  BY DEF UpToDate, ListedOK

(* An entry that a request has left behind is an entry of its product.     *)
LEMMA OneLeft ==
  ASSUME CatalogueAssumption, CopiesInv, NEW q, UpToDate(q), Changing(q) = {q.id}
  PROVE  /\ OrEmpty(cache) \in Seq(Entries)
         /\ Tidy(OrEmpty(cache))
         /\ Len(OrEmpty(cache)) <= MaxList
         /\ OnSaleById(OrEmpty(cache), q.id) = ById(OrEmpty(cache), q.id)
         /\ ~Trips(OrEmpty(cache), ById(OrEmpty(cache), q.id))
         /\ \A i \in DOMAIN OrEmpty(cache) : OrEmpty(cache)[i].id # q.id =>
               InStep(OrEmpty(cache)[i].id, OrEmpty(cache)[i].row)
         /\ ById(OrEmpty(cache), q.id) = {} =>
               q.id \notin Ids(OrEmpty(cache)) /\ InStepBut(OrEmpty(cache), {})
<1>1. OrEmpty(cache) \in Seq(Entries)
  BY CacheFacts DEF CopiesInv
<1>2. /\ Tidy(OrEmpty(cache)) /\ Len(OrEmpty(cache)) <= MaxList
      /\ InStepBut(OrEmpty(cache), {q.id})
  BY DEF UpToDate, ListedOK
<1> QED BY <1>1, <1>2, TidyHits DEF InStepBut

LEMMA LoadForCartList ==
  ASSUME CatalogueAssumption, CopiesInv, ListInv, NEW s \in Slots, LoadForCart(s)
  PROVE  ListInv'
<1> DEFINE q == [req[s] EXCEPT !.at = "cart", !.held = Loaded(req[s].id)]
<1>1. /\ TypeOK /\ req[s] \in Request /\ req[s] # Idle /\ LocalsOK(req[s])
      /\ req[s].op \in CartOps /\ req[s].at = "product" /\ UNCHANGED <<product, cache>>
  BY SlotFacts DEF LoadForCart
<1>2. Changing(req[s]) = {}
  BY <1>1, OpFacts DEF Changing
<1>3. CASE Throws(s)
  BY <1>1, <1>2, <1>3, NothingLeft, StopsList
<1>4. CASE Continues(s, q)
  <2>1. /\ q.op = req[s].op /\ q.at = "cart" /\ q.id = req[s].id /\ q.rows = req[s].rows
        /\ q.held = Loaded(req[s].id)
    BY <1>1 DEF Request
  <2> HIDE DEF q
  <2>2. q.held # None => q.held = product[q.id] /\ q.id \in OnSale
    BY <2>1 DEF Loaded, Found
  <2>3. ASSUME UpToDate(req[s]) PROVE UpToDate(q)
    <3>1. Changing(q) = {}
      BY <1>1, <2>1, OpFacts DEF Changing
    <3>2. RowsIn(q) = RowsIn(req[s])
      BY <2>1 DEF RowsIn
    <3>3. HeldOK(q)
      BY <1>1, <2>1, <2>2, <2>3, <3>2, OpFacts DEF UpToDate, HeldOK
    <3>4. FreshOK(q) /\ SetOK(q)
      BY <1>1, <2>1, OpFacts DEF FreshOK, SetOK
    <3> QED BY <1>2, <2>3, <3>1, <3>3, <3>4 DEF UpToDate, ListedOK
  <2> QED BY <1>1, <1>4, <2>3, ContinuesList
<1> QED BY <1>1, <1>3, <1>4 DEF LoadForCart

LEMMA LoadForPairList ==
  ASSUME CatalogueAssumption, CopiesInv, ListInv, NEW s \in Slots, LoadForPair(s)
  PROVE  ListInv'
<1> DEFINE q == [req[s] EXCEPT !.at = "save", !.held = Found(req[s].id)]
<1>1. /\ TypeOK /\ req[s] \in Request /\ req[s] # Idle
      /\ req[s].op = "pair" /\ req[s].at = "product" /\ UNCHANGED <<product, cache>>
  BY SlotFacts DEF LoadForPair
<1>2. Changing(req[s]) = {}
  BY <1>1, OpFacts DEF Changing
<1>3. CASE Throws(s)
  BY <1>1, <1>2, <1>3, NothingLeft, StopsList
<1>4. CASE Found(req[s].id) # None /\ Continues(s, q)
  <2>1. q.op = "pair" /\ q.at = "save" /\ q.id = req[s].id /\ q.held = product[req[s].id]
    BY <1>1, <1>4 DEF Request, Found
  <2> HIDE DEF q
  <2>2. Changing(q) = {} /\ HeldOK(q) /\ FreshOK(q) /\ SetOK(q)
    BY <2>1, OpFacts DEF Changing, HeldOK, FreshOK, SetOK
  <2>3. UpToDate(req[s]) => UpToDate(q)
    BY <1>2, <2>2 DEF UpToDate, ListedOK
  <2> QED BY <1>1, <1>4, <2>3, ContinuesList
<1> QED BY <1>1, <1>3, <1>4 DEF LoadForPair

LEMMA RefetchList ==
  ASSUME CatalogueAssumption, CopiesInv, ListInv, NEW s \in Slots, Refetch(s)
  PROVE  ListInv'
<1> DEFINE r == IF req[s].op = "add" /\ req[s].rows # None
                THEN product[req[s].id] ELSE Found(req[s].id)
           q == [req[s] EXCEPT !.at = "read", !.rows = None, !.fresh = r]
<1>1. /\ req[s] \in Request /\ req[s] # Idle
      /\ req[s].op \in CartOps /\ req[s].at = "refetch"
      /\ Continues(s, q) /\ UNCHANGED <<product, cache>>
  BY SlotFacts DEF Refetch
<1>2. /\ q.op = req[s].op /\ q.at = "read" /\ q.id = req[s].id /\ q.held = req[s].held
      /\ q.fresh = r
  BY <1>1 DEF Request
<1> HIDE DEF q
<1>3. ASSUME UpToDate(req[s]) PROVE UpToDate(q)
  <2>1. q.id \in OnSale
    BY <1>1, <1>2, <1>3 DEF UpToDate, FreshOK
  <2>2. q.fresh = product[q.id]
    BY <1>2, <2>1 DEF Found
  <2>3. Changing(q) = Changing(req[s])
    BY <1>1, <1>2, OpFacts DEF Changing
  <2>4. HeldOK(q)
    BY <1>1, <1>2, <1>3, OpFacts DEF UpToDate, HeldOK
  <2>5. FreshOK(q) /\ SetOK(q)
    BY <1>1, <1>2, <2>1, <2>2, OpFacts DEF FreshOK, SetOK
  <2> QED BY <1>3, <2>3, <2>4, <2>5 DEF UpToDate, ListedOK
<1> QED BY <1>1, <1>3, ContinuesList

(* What a cart handler pushes, the product as it is or as it was before    *)
(* the sale, is what the list may show.                                    *)
LEMMA ReadForShowList ==
  ASSUME CatalogueAssumption, CopiesInv, ListInv, NEW s \in Slots, ReadForShow(s)
  PROVE  ListInv'
<1> DEFINE l == OrEmpty(cache)
           p == req[s].id
           hits == Sought(req[s], l)
           r == IF req[s].op = "add" THEN req[s].held ELSE req[s].fresh
           a == IF hits = {} THEN "set" ELSE "get"
           k == IF hits = {} THEN Append(l, Pushed(req[s])) ELSE <<>>
           f == IF hits = {} THEN None ELSE req[s].fresh
           q == [req[s] EXCEPT !.at = a, !.list = k, !.held = None, !.fresh = f]
<1>1. /\ TypeOK /\ req[s] \in Request /\ req[s] # Idle /\ LocalsOK(req[s])
      /\ req[s].op \in CartOps /\ req[s].at = "read" /\ UNCHANGED <<product, cache>>
  BY SlotFacts DEF ReadForShow
<1>2. Changing(req[s]) = {p}
  BY <1>1, OpFacts DEF Changing
<1>3. UpToDate(req[s]) => hits = ById(l, p) /\ ~Trips(l, hits)
  BY <1>2, OneLeft DEF Sought
<1>4. CASE Throws(s) /\ (Trips(l, hits) \/ cache = None)
  <2>1. cache = None => InStepBut(l, {})
    BY EmptyIsTidy DEF OrEmpty
  <2> QED BY <1>1, <1>3, <1>4, <2>1, StopsList
<1>5. CASE Continues(s, q)
  <2>1. /\ q.op = req[s].op /\ q.at = a /\ q.id = p /\ q.list = k /\ q.held = None
        /\ q.fresh = f
    BY <1>1 DEF Request
  <2>2. p \in Products /\ req[s].held \in Row \cup {None} /\ req[s].fresh \in Row \cup {None}
        /\ (req[s].op = "add" => req[s].held # None)
    BY <1>1, OpFacts, RequestFields DEF LocalsOK
  <2> HIDE DEF q
  <2>3. Changing(q) = Changing(req[s])
    BY <1>1, <2>1, OpFacts DEF Changing
  <2>4. ASSUME UpToDate(req[s]) PROVE HeldOK(q) /\ FreshOK(q) /\ SetOK(q)
    <3>1. req[s].fresh = product[p] /\ p \in OnSale
      BY <1>1, <2>4 DEF UpToDate, FreshOK
    <3>2. r \in Row /\ InStep(p, r) /\ r.status = "ON_SALE"
      <4>1. product[p] \in Row /\ product[p].status = "ON_SALE"
        BY <1>1, <2>2, <3>1, RowFacts DEF OnSale
      <4>2. r \in Row /\ InStep(p, r)
        <5>1. CASE req[s].op = "add"
          BY <1>1, <2>2, <2>4, <5>1 DEF UpToDate, HeldOK
        <5>2. CASE req[s].op # "add"
          BY <3>1, <4>1, <5>2 DEF InStep, OrOneLess
        <5> QED BY <5>1, <5>2
      <4> QED BY <4>1, <4>2 DEF InStep, Known
    <3>3. HeldOK(q)
      BY <1>1, <2>1, OpFacts DEF HeldOK
    <3>4. FreshOK(q)
      BY <1>1, <2>1, <3>1, OpFacts DEF FreshOK
    <3>5. CASE hits # {}
      BY <1>1, <2>1, <3>3, <3>4, <3>5, OpFacts DEF SetOK
    <3>6. CASE hits = {}
      <4>1. /\ l \in Seq(Entries) /\ Tidy(l) /\ p \notin Ids(l) /\ InStepBut(l, {})
        BY <1>2, <1>3, <2>4, <3>6, OneLeft
      <4>2. k = Append(l, Entry(p, r))
        BY <3>6 DEF Pushed
      <4>3. /\ Tidy(k)
            /\ \A i \in DOMAIN k : k[i] = Entry(p, r) \/ \E j \in DOMAIN l : k[i] = l[j]
        <5> HIDE DEF k, l, r
        <5> QED BY <2>2, <3>2, <4>1, <4>2, TidyPush
      <4>4. Entry(p, r).id = p /\ Entry(p, r).row = r
        BY <2>2, <3>2, EntryFacts
      <4> HIDE DEF k, l, r
      <4>5. InStepBut(k, {})
        BY <3>2, <4>1, <4>3, <4>4 DEF InStepBut
      <4>6. Tidy(q.list) /\ InStepBut(q.list, {}) /\ q.id \notin Ids(l)
        BY <2>1, <4>1, <4>3, <4>5
      <4>7. SetOK(q)
        BY <4>6 DEF SetOK, l
      <4> QED BY <3>3, <3>4, <4>7
    <3> QED BY <3>5, <3>6
  <2>5. UpToDate(req[s]) => UpToDate(q)
    BY <2>3, <2>4 DEF UpToDate, ListedOK
  <2> QED BY <1>1, <1>5, <2>5, ContinuesList
<1>6. (Throws(s) /\ (Trips(l, hits) \/ cache = None)) \/ Continues(s, q)
  BY DEF ReadForShow
<1> QED BY <1>4, <1>5, <1>6

LEMMA ReadForDeleteList ==
  ASSUME CatalogueAssumption, CopiesInv, ListInv, NEW s \in Slots, ReadForDelete(s)
  PROVE  ListInv'
<1> DEFINE l == OrEmpty(cache)
           p == req[s].id
           hits == OnSaleById(l, p)
           q == [req[s] EXCEPT !.at = "get"]
<1>1. /\ req[s] \in Request /\ req[s] # Idle
      /\ req[s].op = "delete" /\ req[s].at = "read" /\ UNCHANGED <<product, cache>>
  BY SlotFacts DEF ReadForDelete
<1>2. Changing(req[s]) = {p}
  BY <1>1, OpFacts DEF Changing
<1>3. UpToDate(req[s]) => ~Trips(l, hits) /\ (hits = {} => InStepBut(l, {}))
  BY <1>2, OneLeft
<1>4. CASE (Throws(s) /\ Trips(l, hits)) \/ (Answers(s) /\ hits = {})
  BY <1>1, <1>3, <1>4, StopsList
<1>5. CASE Continues(s, q)
  <2>1. q.op = "delete" /\ q.at = "get" /\ q.id = p
    BY <1>1 DEF Request
  <2> HIDE DEF q
  <2>2. Changing(q) = {p} /\ HeldOK(q) /\ FreshOK(q) /\ SetOK(q)
    BY <2>1, OpFacts DEF Changing, HeldOK, FreshOK, SetOK
  <2>3. UpToDate(req[s]) => UpToDate(q)
    BY <1>2, <2>2 DEF UpToDate, ListedOK
  <2> QED BY <1>1, <1>5, <2>3, ContinuesList
<1> QED BY <1>4, <1>5 DEF ReadForDelete

(* The list that an update sets has the row as it was loaded again. *)
LEMMA GetForUpdateList ==
  ASSUME CatalogueAssumption, CopiesInv, ListInv, NEW s \in Slots, GetForUpdate(s)
  PROVE  ListInv'
<1> DEFINE l == OrEmpty(cache)
           p == req[s].id
           r == req[s].fresh
           k == Merged(l, p, r)
           q == [req[s] EXCEPT !.at = "set", !.fresh = None, !.list = k]
           hits == ById(l, p)
<1>1. /\ TypeOK /\ req[s] \in Request /\ req[s] # Idle /\ LocalsOK(req[s])
      /\ req[s].op \in CartOps \cup {"edit"} /\ req[s].at = "get" /\ UNCHANGED <<product, cache>>
  BY SlotFacts DEF GetForUpdate
<1>2. Changing(req[s]) = {p}
  BY <1>1, OpFacts DEF Changing
<1>3. UpToDate(req[s]) => ~Trips(l, hits) /\ (hits = {} => InStepBut(l, {}))
  BY <1>2, OneLeft
<1>4. CASE (Throws(s) /\ Trips(l, hits)) \/ (Answers(s) /\ hits = {})
  BY <1>1, <1>3, <1>4, StopsList
<1>5. CASE hits # {} /\ Continues(s, q)
  <2>1. q.op = req[s].op /\ q.at = "set" /\ q.id = p /\ q.list = k
    BY <1>1 DEF Request
  <2> HIDE DEF q
  <2>2. Changing(q) = Changing(req[s])
    BY <1>1, <2>1, OpFacts DEF Changing
  <2>3. HeldOK(q) /\ FreshOK(q)
    BY <1>1, <2>1, OpFacts DEF HeldOK, FreshOK
  <2>4. ASSUME UpToDate(req[s]) PROVE SetOK(q)
    <3>1. /\ l \in Seq(Entries) /\ Tidy(l) /\ Len(l) <= MaxList
          /\ \A i \in DOMAIN l : l[i].id # p => InStep(l[i].id, l[i].row)
      BY <1>2, <2>4, OneLeft
    <3>2. r = product[p] /\ p \in OnSale
      BY <1>1, <2>4, OpFacts DEF UpToDate, FreshOK
    <3>3. r \in Row /\ r.status = "ON_SALE"
      BY <1>1, <3>2, RowFacts DEF OnSale
    <3>4. InStep(p, r)
      BY <3>2, <3>3 DEF InStep, OrOneLess
    <3>5. /\ Tidy(k) /\ Len(k) = Len(l)
          /\ \A i \in DOMAIN k : \/ k[i] = [id |-> p, row |-> r]
                                 \/ \E j \in DOMAIN l : k[i] = l[j] /\ l[j].id # p
      BY <1>5, <3>1, <3>3, TidyMerge
    <3> HIDE DEF k, l
    <3>6. InStepBut(k, {})
      BY <3>1, <3>4, <3>5 DEF InStepBut
    <3> QED BY <2>1, <3>1, <3>5, <3>6 DEF SetOK
  <2>5. UpToDate(req[s]) => UpToDate(q)
    BY <2>2, <2>3, <2>4 DEF UpToDate, ListedOK
  <2> QED BY <1>1, <1>5, <2>5, ContinuesList
<1> QED BY <1>4, <1>5 DEF GetForUpdate

LEMMA GetForDeleteList ==
  ASSUME CatalogueAssumption, CopiesInv, ListInv, NEW s \in Slots, GetForDelete(s)
  PROVE  ListInv'
<1> DEFINE l == OrEmpty(cache)
           p == req[s].id
           k == Without(cache, p)
           q == [req[s] EXCEPT !.at = "set", !.list = k]
<1>1. /\ req[s] \in Request /\ req[s] # Idle
      /\ req[s].op = "delete" /\ req[s].at = "get" /\ UNCHANGED <<product, cache>>
  BY SlotFacts DEF GetForDelete
<1>2. Changing(req[s]) = {p}
  BY <1>1, OpFacts DEF Changing
<1>3. CASE cache = None /\ Answers(s)
  <2>1. InStepBut(l, {})
    BY <1>3, EmptyIsTidy DEF OrEmpty
  <2> QED BY <1>1, <1>3, <2>1, StopsList
<1>4. CASE cache # None /\ Trips(cache, {}) /\ Throws(s)
  <2>1. UpToDate(req[s]) => FALSE
    BY <1>2, <1>4, OneLeft DEF Tidy, Trips, OrEmpty
  <2> QED BY <1>1, <1>4, <2>1, StopsList
<1>5. CASE cache # None /\ Continues(s, q)
  <2>1. q.op = "delete" /\ q.at = "set" /\ q.id = p /\ q.list = k
    BY <1>1 DEF Request
  <2> HIDE DEF q
  <2>2. Changing(q) = {p} /\ HeldOK(q) /\ FreshOK(q)
    BY <2>1, OpFacts DEF Changing, HeldOK, FreshOK
  <2>3. ASSUME UpToDate(req[s]) PROVE SetOK(q)
    <3>1. /\ l \in Seq(Entries) /\ Tidy(l) /\ Len(l) <= MaxList /\ k = Without(l, p)
          /\ \A i \in DOMAIN l : l[i].id # p => InStep(l[i].id, l[i].row)
      BY <1>2, <1>5, <2>3, OneLeft DEF OrEmpty
    <3>2. /\ k \in Seq(Entries) /\ Tidy(k) /\ Len(k) <= Len(l)
          /\ \A i \in DOMAIN k : \E j \in DOMAIN l : k[i] = l[j] /\ l[j].id # p
      BY <3>1, TidyFilter
    <3> HIDE DEF k, l
    <3>3. InStepBut(k, {})
      BY <3>1, <3>2 DEF InStepBut
    <3>4. Len(k) <= MaxList
      <4>1. Len(k) \in Nat /\ Len(l) \in Nat /\ MaxList \in Nat
        BY <3>1, <3>2, ListFacts DEF CatalogueAssumption
      <4> QED BY <3>1, <3>2, <4>1
    <3> QED BY <2>1, <3>2, <3>3, <3>4 DEF SetOK
  <2>4. UpToDate(req[s]) => UpToDate(q)
    BY <1>2, <2>2, <2>3 DEF UpToDate, ListedOK
  <2> QED BY <1>1, <1>5, <2>4, ContinuesList
<1> QED BY <1>3, <1>4, <1>5 DEF GetForDelete

(* What is read from the table is the table. *)
LEMMA FindAllList ==
  ASSUME CatalogueAssumption, CopiesInv, ListInv, NEW s \in Slots, FindAll(s)
  PROVE  ListInv'
<1>1. /\ TypeOK /\ req[s] \in Request /\ req[s] # Idle
      /\ req[s].op = "list" /\ req[s].at = "find" /\ UNCHANGED <<product, cache>>
  BY SlotFacts DEF FindAll
<1>2. PICK l \in [1 .. Cardinality(OnSale) -> OnSale] :
         /\ \A p \in OnSale : \E i \in DOMAIN l : l[i] = p
         /\ Continues(s, [req[s] EXCEPT !.at = "set",
                             !.list = [i \in DOMAIN l |-> Entry(l[i], product[l[i]])]])
  BY DEF FindAll
<1> DEFINE k == [i \in DOMAIN l |-> Entry(l[i], product[l[i]])]
           q == [req[s] EXCEPT !.at = "set", !.list = k]
<1>3. Tidy(k) /\ \A i \in DOMAIN k : k[i].id \in OnSale /\ k[i].row = product[k[i].id]
  BY <1>1, <1>2, TidyTable
<1>4. Continues(s, q) /\ q.op = "list" /\ q.at = "set" /\ q.list = k
  BY <1>1, <1>2 DEF Request
<1> HIDE DEF q, k
<1>5. InStepBut(k, {})
  BY <1>3 DEF InStepBut, InStep, OrOneLess, OnSale
<1>6. Changing(q) = {} /\ HeldOK(q) /\ FreshOK(q)
  BY <1>4, OpFacts DEF Changing, HeldOK, FreshOK
<1>7. SetOK(q)
  BY <1>3, <1>4, <1>5, <1>6 DEF SetOK
<1>8. Changing(req[s]) = {}
  BY <1>1, OpFacts DEF Changing
<1>9. UpToDate(req[s]) => UpToDate(q)
  BY <1>6, <1>7, <1>8 DEF UpToDate, ListedOK
<1> QED BY <1>1, <1>4, <1>9, ContinuesList

(* The list that is set is up to date, and so is the one that stays.       *)
LEMMA SetListList ==
  ASSUME CatalogueAssumption, CopiesInv, ListInv, NEW s \in Slots, SetList(s)
  PROVE  ListInv'
<1> DEFINE l == OrEmpty(cache)
<1>1. /\ TypeOK /\ req[s] \in Request /\ req[s] # Idle /\ LocalsOK(req[s])
      /\ req[s].at = "set" /\ UNCHANGED product
  BY SlotFacts DEF SetList
<1>2. Changing(req[s]) \in {{}, {req[s].id}}
  BY DEF Changing
<1>3. CASE Len(req[s].list) > MaxList /\ Throws(s) /\ UNCHANGED cache
  <2>1. ASSUME UpToDate(req[s]) PROVE InStepBut(l, {})
    <3>1. ~(Len(req[s].list) <= MaxList)
      BY <1>1, <1>3, RequestFields, ListFacts DEF CatalogueAssumption
    <3>2. Changing(req[s]) = {} \/ req[s].id \notin Ids(l)
      BY <1>1, <2>1, <3>1 DEF UpToDate, SetOK
    <3>3. CASE Changing(req[s]) = {}
      BY <2>1, <3>3, NothingLeft
    <3>4. CASE Changing(req[s]) = {req[s].id} /\ req[s].id \notin Ids(l)
      <4>1. l \in Seq(Entries) /\ Tidy(l)
        BY <2>1, <3>4, OneLeft
      <4>2. ById(l, req[s].id) = {}
        <5> HIDE DEF l
        <5> QED BY <3>4, <4>1, TidyHits
      <4> QED BY <2>1, <3>4, <4>2, OneLeft
    <3> QED BY <1>2, <3>2, <3>3, <3>4
  <2> QED BY <1>1, <1>3, <2>1, StopsList
<1>4. CASE ~(Len(req[s].list) > MaxList) /\ Answers(s) /\ cache' = req[s].list
  <2>1. PICK k \in Seq(Entries) : k = req[s].list
    BY <1>1, RequestFields
  <2>2. Goes(s, Idle) /\ disturbed' = disturbed
    BY <1>4 DEF Answers
  <2>3. cache' = k /\ Len(k) <= MaxList
    BY <1>4, <2>1, ListFacts DEF CatalogueAssumption
  <2>4. OrEmpty(cache)' \in {k, <<>>}
    BY <2>3 DEF OrEmpty
  <2>5. ASSUME Undisturbed PROVE UpToDate(Idle)'
    <3>1. Tidy(k) /\ InStepBut(k, {})
      BY <1>1, <2>1, <2>5, ListPrior DEF UpToDate, SetOK
    <3>2. InStepBut(k, {})'
      BY <1>1, <2>2, <3>1 DEF InStepBut, InStep
    <3>3. Len(k) <= MaxList /\ Len(<<>>) <= MaxList /\ Tidy(<<>>) /\ InStepBut(<<>>, {})'
      BY <2>3, EmptyIsTidy DEF CatalogueAssumption
    <3>4. /\ Len(OrEmpty(cache)') <= MaxList /\ Tidy(OrEmpty(cache)')
          /\ InStepBut(OrEmpty(cache), {})'
      <4>1. CASE OrEmpty(cache)' = k
        BY <3>1, <3>2, <3>3, <4>1 DEF InStepBut, InStep
      <4>2. CASE OrEmpty(cache)' = <<>>
        BY <3>3, <4>2 DEF InStepBut, InStep
      <4> QED BY <2>4, <4>1, <4>2
    <3> QED BY <3>4, IdleLocals DEF UpToDate, ListedOK, Tidy, Changing
  <2>6. Undisturbed' => Undisturbed
    BY <2>2 DEF Undisturbed
  <2> QED BY <1>1, <2>2, <2>5, <2>6, ListStep
<1> QED BY <1>3, <1>4 DEF SetList

-----------------------------------------------------------------------------
(* Queries that write a row.                                               *)

LEMMA WritesList ==
  ASSUME CatalogueAssumption, CopiesInv, ListInv, NEW s \in Slots, req[s] # Idle, NEW q,
         Continues(s, q), Undisturbed /\ UpToDate(req[s]) => UpToDate(q)'
  PROVE  ListInv'
<1>1. Goes(s, q) /\ disturbed' = disturbed
  BY DEF Continues, history
<1>2. Undisturbed' => Undisturbed
  BY <1>1 DEF Undisturbed
<1>3. Undisturbed => UpToDate(q)'
  BY ListPrior
<1> QED BY <1>1, <1>2, <1>3, ListStep

(* The entries of the other products stay in step.                         *)
LEMMA OthersInStep ==
  ASSUME CatalogueAssumption, NEW l \in Seq(Entries), Tidy(l), InStepBut(l, {}),
         NEW p, disturbed' = disturbed,
         \A x \in Products : x # p => product'[x] = product[x]
  PROVE  InStepBut(l, {p})' /\ (p \notin Ids(l) => InStepBut(l, {})')
<1>1. \A i \in DOMAIN l : l[i] # None /\ l[i].id \in Products /\ InStep(l[i].id, l[i].row)
  BY ListFacts DEF Tidy, InStepBut
<1>2. \A i \in DOMAIN l : l[i].id # p => InStep(l[i].id, l[i].row)'
  BY <1>1 DEF InStep
<1>3. p \notin Ids(l) => \A i \in DOMAIN l : l[i].id # p
  BY <1>1 DEF Ids
<1> QED BY <1>2, <1>3 DEF InStepBut

(* The list that a write leaves as it is.                                  *)
LEMMA ListedAfterWrite ==
  ASSUME CatalogueAssumption, CopiesInv, NEW c, UpToDate(c), Changing(c) = {}, NEW p,
         UNCHANGED <<cache, disturbed>>,
         \A x \in Products : x # p => product'[x] = product[x],
         NEW q, Changing(q) = {p} \/ (Changing(q) = {} /\ p \notin Ids(OrEmpty(cache)))
  PROVE  ListedOK(q)'
<1>1. PICK l \in Seq(Entries) : l = OrEmpty(cache)
  BY CacheFacts DEF CopiesInv
<1>2. Tidy(l) /\ Len(l) <= MaxList /\ InStepBut(l, {})
  BY <1>1 DEF UpToDate, ListedOK
<1>3. InStepBut(l, {p})' /\ (p \notin Ids(l) => InStepBut(l, {})')
  BY <1>2, OthersInStep
<1>4. OrEmpty(cache)' = l
  BY <1>1 DEF OrEmpty
<1>5. InStepBut(OrEmpty(cache), Changing(q))'
  BY <1>1, <1>3, <1>4 DEF InStepBut, InStep, Changing
<1> QED BY <1>2, <1>4, <1>5 DEF ListedOK, Tidy

(* A product gets an id that no entry has.                                 *)
LEMMA SaveNewList ==
  ASSUME CatalogueAssumption, CopiesInv, ListInv, NEW s \in Slots, SaveNew(s)
  PROVE  ListInv'
<1>1. /\ TypeOK /\ TablesOK /\ req[s] \in Request /\ req[s] # Idle /\ LocalsOK(req[s])
      /\ req[s].op = "create" /\ req[s].at = "save" /\ UNCHANGED cache
  BY SlotFacts DEF SaveNew
<1>2. PICK p \in Products, price \in Prices :
          /\ product[p] = Absent
          /\ product' = [product EXCEPT ![p] = NewRow(price)]
          /\ Continues(s, [req[s] EXCEPT !.id = p, !.at = "set",
                              !.list = Append(@, Entry(p, NewRow(price)))])
  BY DEF SaveNew
<1>3. PICK l \in Seq(Entries) : l = req[s].list
  BY <1>1, RequestFields
<1>4. PICK r \in Row : r = NewRow(price)
  <2>1. NewRow(price) \in Row
    BY DEF NewRow, Row, CatalogueAssumption
  <2> QED BY <2>1
<1>5. r.status = "ON_SALE" /\ r.pair = 0
  BY <1>4 DEF NewRow
<1>6. PICK k : k = Append(l, Entry(p, r))
  OBVIOUS
<1>7. PICK q : /\ Continues(s, q)
               /\ q.op = "create" /\ q.at = "set" /\ q.list = k
  <2> DEFINE q == [req[s] EXCEPT !.id = p, !.at = "set", !.list = k]
  <2>1. Continues(s, q)
    BY <1>1, <1>2, <1>3, <1>4, <1>6 DEF Request
  <2>2. q.op = "create" /\ q.at = "set" /\ q.list = k
    BY <1>1 DEF Request
  <2> QED BY <2>1, <2>2
<1>8. /\ product'[p] = r
      /\ \A x \in Products : x # p => product'[x] = product[x]
  BY <1>1, <1>2, <1>4 DEF TypeOK
<1>9. p \notin Ids(l) /\ p \notin Ids(OrEmpty(cache))
  <2>1. p \notin Present
    BY <1>2 DEF Present, Absent
  <2> QED BY <1>1, <1>3, <2>1 DEF LocalsOK, TablesOK, NamesOK
<1>10. disturbed' = disturbed
  BY <1>7 DEF Continues, history
<1>11. ASSUME UpToDate(req[s]) PROVE UpToDate(q)'
  <2>1. Changing(req[s]) = {} /\ Changing(q) = {}
    BY <1>1, <1>7, OpFacts DEF Changing
  <2>2. ListedOK(q)'
    BY <1>1, <1>8, <1>9, <1>10, <1>11, <2>1, ListedAfterWrite
  <2>3. HeldOK(q)' /\ FreshOK(q)'
    BY <1>7, OpFacts DEF HeldOK, FreshOK
  <2>4. Tidy(l) /\ InStepBut(l, {})
    BY <1>1, <1>3, <1>11 DEF UpToDate, SetOK
  <2>5. /\ Tidy(k)
        /\ \A i \in DOMAIN k : k[i] = Entry(p, r) \/ \E j \in DOMAIN l : k[i] = l[j]
    BY <1>5, <1>6, <1>9, <2>4, TidyPush
  <2>6. InStepBut(l, {})'
    BY <1>8, <1>9, <1>10, <2>4, OthersInStep
  <2>7. Entry(p, r).id = p /\ Entry(p, r).row = r
    BY EntryFacts
  <2>8. InStep(p, r)'
    BY <1>5, <1>8 DEF InStep, OrOneLess
  <2>9. InStepBut(k, {})'
    BY <2>5, <2>6, <2>7, <2>8 DEF InStepBut
  <2>10. SetOK(q)'
    BY <1>7, <2>1, <2>5, <2>9 DEF SetOK, Tidy, InStepBut, InStep, Changing
  <2> QED BY <2>2, <2>3, <2>10 DEF UpToDate
<1> QED BY <1>1, <1>7, <1>11, WritesList

(* An edit leaves the old entry behind, and carries the row as saved.      *)
LEMMA SaveEditList ==
  ASSUME CatalogueAssumption, CopiesInv, ListInv, NEW s \in Slots, SaveEdit(s)
  PROVE  ListInv'
<1> DEFINE p == req[s].id
<1>1. /\ TypeOK /\ req[s] \in Request /\ req[s] # Idle /\ LocalsOK(req[s])
      /\ req[s].op = "edit" /\ req[s].at = "save" /\ UNCHANGED cache
  BY SlotFacts DEF SaveEdit
<1>2. /\ p \in Products /\ req[s].held \in Row /\ req[s].held.status = "ON_SALE"
  <2>1. p \in Products /\ req[s].held # None /\ req[s].held.status = "ON_SALE"
    BY <1>1, NoneIsNothing DEF LocalsOK
  <2> QED BY <1>1, <2>1, RequestFields
<1>3. PICK price \in Prices \cup {req[s].held.price} :
         /\ product' = [product EXCEPT ![p] = [req[s].held EXCEPT !.price = price]]
         /\ Continues(s, [req[s] EXCEPT !.at = "get", !.held = None,
                             !.fresh = [req[s].held EXCEPT !.price = price]])
  BY DEF SaveEdit
<1>4. PICK r \in Row : r = [req[s].held EXCEPT !.price = price]
  BY <1>2 DEF Row
<1>5. r.status = "ON_SALE"
  BY <1>2, <1>4 DEF Row
<1>6. PICK x \in Products : x = p
  BY <1>2
<1>7. PICK q : /\ Continues(s, q)
               /\ q.op = "edit" /\ q.at = "get" /\ q.id = x /\ q.fresh = r
  <2> DEFINE q == [req[s] EXCEPT !.at = "get", !.held = None, !.fresh = r]
  <2>1. Continues(s, q)
    BY <1>3, <1>4
  <2>2. q.op = "edit" /\ q.at = "get" /\ q.id = x /\ q.fresh = r
    BY <1>1, <1>6 DEF Request
  <2> QED BY <2>1, <2>2
<1>8. product'[x] = r /\ \A y \in Products : y # x => product'[y] = product[y]
  BY <1>1, <1>3, <1>4, <1>6 DEF TypeOK
<1>9. disturbed' = disturbed
  BY <1>7 DEF Continues, history
<1>10. ASSUME UpToDate(req[s]) PROVE UpToDate(q)'
  <2>1. Changing(req[s]) = {} /\ Changing(q) = {x}
    BY <1>1, <1>7, OpFacts DEF Changing
  <2>2. ListedOK(q)'
    BY <1>1, <1>8, <1>9, <1>10, <2>1, ListedAfterWrite
  <2>3. HeldOK(q)' /\ SetOK(q)'
    BY <1>7, OpFacts DEF HeldOK, SetOK
  <2>4. FreshOK(q)'
    BY <1>5, <1>7, <1>8, OpFacts DEF FreshOK, OnSale
  <2> QED BY <2>2, <2>3, <2>4 DEF UpToDate
<1> QED BY <1>1, <1>7, <1>10, WritesList

(* And so does a deletion.                                                 *)
LEMMA UpdateStatusList ==
  ASSUME CatalogueAssumption, CopiesInv, ListInv, NEW s \in Slots, UpdateStatus(s)
  PROVE  ListInv'
<1>1. /\ TypeOK /\ req[s] \in Request /\ req[s] # Idle
      /\ req[s].op = "delete" /\ req[s].at = "status" /\ UNCHANGED cache
      /\ product' = [product EXCEPT ![req[s].id].status = "DELETED"]
      /\ Continues(s, [req[s] EXCEPT !.at = "read"])
  BY SlotFacts DEF UpdateStatus
<1>2. PICK x : x = req[s].id
  OBVIOUS
<1>3. PICK q : Continues(s, q) /\ q.op = "delete" /\ q.at = "read" /\ q.id = x
  BY <1>1, <1>2 DEF Request
<1>4. \A y \in Products : y # x => product'[y] = product[y]
  BY <1>1, <1>2 DEF TypeOK
<1>5. disturbed' = disturbed
  BY <1>3 DEF Continues, history
<1>6. ASSUME UpToDate(req[s]) PROVE UpToDate(q)'
  <2>1. Changing(req[s]) = {} /\ Changing(q) = {x}
    BY <1>1, <1>3, OpFacts DEF Changing
  <2>2. ListedOK(q)'
    BY <1>1, <1>4, <1>5, <1>6, <2>1, ListedAfterWrite
  <2>3. HeldOK(q)' /\ FreshOK(q)' /\ SetOK(q)'
    BY <1>3, OpFacts DEF HeldOK, FreshOK, SetOK
  <2> QED BY <2>2, <2>3 DEF UpToDate
<1> QED BY <1>1, <1>3, <1>6, WritesList

(* A cart writes back the rows as they are.                                *)
LEMMA SaveCartList ==
  ASSUME CatalogueAssumption, CopiesInv, ListInv, NEW s \in Slots, SaveCart(s)
  PROVE  ListInv'
<1> DEFINE D == DOMAIN Written(req[s])
           rows == IF req[s].rows = None THEN None ELSE NoRows
<1>1. /\ TypeOK /\ req[s] \in Request /\ req[s] # Idle /\ LocalsOK(req[s])
      /\ req[s].op \in CartOps /\ req[s].at = "cart" /\ UNCHANGED cache
  BY SlotFacts DEF SaveCart
<1>2. Changing(req[s]) = {}
  BY <1>1, OpFacts DEF Changing
<1>3. CASE Throws(s) /\ UNCHANGED <<product, cart>>
  BY <1>1, <1>2, <1>3, NothingLeft, StopsList
<1>4. CASE /\ product' = [x \in Products |-> IF x \in D THEN Written(req[s])[x] ELSE product[x]]
           /\ Continues(s, [req[s] EXCEPT !.at = "stock",
                               !.rows = IF @ = None THEN None ELSE NoRows])
  <2>1. PICK q : /\ Continues(s, q) /\ q.op = req[s].op /\ q.at = "stock"
                 /\ q.id = req[s].id /\ q.held = req[s].held
    <3> DEFINE q == [req[s] EXCEPT !.at = "stock", !.rows = rows]
    <3>1. Continues(s, q)
      BY <1>1, <1>4 DEF Request
    <3> HIDE DEF rows
    <3>2. q.op = req[s].op /\ q.at = "stock" /\ q.id = req[s].id /\ q.held = req[s].held
      BY <1>1 DEF Request
    <3> QED BY <3>1, <3>2
  <2>2. disturbed' = disturbed
    BY <2>1 DEF Continues, history
  <2>3. ASSUME UpToDate(req[s]) PROVE UpToDate(q)'
    <3>1. \A x \in D : Written(req[s])[x] = product[x]
      <4> TAKE x \in D
      <4>1. CASE x \in DOMAIN RowsIn(req[s])
        BY <1>1, <2>3, <4>1 DEF Written, UpToDate, HeldOK
      <4>2. CASE x \notin DOMAIN RowsIn(req[s])
        <5>1. req[s].op = "add" /\ x = req[s].id /\ Written(req[s])[x] = req[s].held
          BY <4>2 DEF Written
        <5>2. req[s].held # None
          BY <1>1, <5>1 DEF LocalsOK
        <5> QED BY <1>1, <2>3, <5>1, <5>2 DEF UpToDate, HeldOK
      <4> QED BY <4>1, <4>2
    <3>2. product' = product
      <4> HIDE DEF D
      <4> QED BY <1>1, <1>4, <3>1 DEF TypeOK
    <3>3. Changing(q) = {}
      BY <1>1, <2>1, OpFacts DEF Changing
    <3>4. HeldOK(q) /\ FreshOK(q) /\ SetOK(q)
      BY <1>1, <2>1, <2>3, OpFacts DEF UpToDate, HeldOK, FreshOK, SetOK
    <3>5. UpToDate(q)
      BY <1>2, <2>3, <3>3, <3>4 DEF UpToDate, ListedOK
    <3> QED BY <1>1, <2>2, <3>2, <3>5, UpToDateKept
  <2> QED BY <1>1, <2>1, <2>3, WritesList
<1> QED BY <1>1, <1>3, <1>4 DEF SaveCart

(* The units of the row change: the entry shows the units before a sale.   *)
LEMMA UpdateStockList ==
  ASSUME CatalogueAssumption, CopiesInv, ListInv, NEW s \in Slots, UpdateStock(s)
  PROVE  ListInv'
<1> DEFINE h == IF req[s].op = "add" THEN req[s].held ELSE None
<1>1. /\ TypeOK /\ req[s] \in Request /\ req[s] # Idle /\ LocalsOK(req[s])
      /\ req[s].op \in CartOps /\ req[s].at = "stock" /\ UNCHANGED cache
  BY SlotFacts DEF UpdateStock
<1>2. Changing(req[s]) = {}
  BY <1>1, OpFacts DEF Changing
<1>3. CASE Throws(s) /\ UNCHANGED product
  BY <1>1, <1>2, <1>3, NothingLeft, StopsList
<1>4. ASSUME req[s].held # None, NEW n \in MinUnits .. MaxUnits,
             product' = [product EXCEPT ![req[s].id].pair = Units(req[s], n)],
             Continues(s, [req[s] EXCEPT !.at = "refetch", !.held = h])
      PROVE  ListInv'
  <2>1. req[s].id \in Products /\ product[req[s].id] \in Row /\ req[s].held \in Row
    BY <1>1, <1>4, OpFacts, NoneIsNothing, RowFacts, RequestFields DEF LocalsOK
  <2>2. PICK x \in Products : x = req[s].id
    BY <2>1
  <2>3. PICK u : u = Units(req[s], n)
    OBVIOUS
  <2>4. PICK g \in Row : g = req[s].held
    BY <2>1
  <2>5. PICK q : /\ Continues(s, q) /\ q.op = req[s].op /\ q.at = "refetch"
                 /\ q.id = x /\ (q.op = "add" => q.held = g)
    <3> DEFINE q == [req[s] EXCEPT !.at = "refetch", !.held = h]
    <3>1. (req[s].op = "add" => h = g) /\ Continues(s, q)
      BY <1>4, <2>4
    <3> HIDE DEF h
    <3>2. q.op = req[s].op /\ q.at = "refetch" /\ q.id = x /\ q.held = h
      BY <1>1, <2>2 DEF Request
    <3> QED BY <3>1, <3>2
  <2>6. /\ \A y \in Products : y # x => product'[y] = product[y]
        /\ Known(product'[x]) = Known(product[x]) /\ product'[x].pair = u
        /\ product'[x].status = product[x].status
    <3>1. product' = [product EXCEPT ![x] = [product[x] EXCEPT !.pair = u]]
      BY <1>4, <2>2, <2>3
    <3>2. product'[x] = [product[x] EXCEPT !.pair = u]
      BY <1>1, <3>1 DEF TypeOK
    <3>3. product[x] \in Row
      BY <2>1, <2>2
    <3> QED BY <1>1, <3>1, <3>2, <3>3 DEF TypeOK, Row, Known
  <2>7. disturbed' = disturbed
    BY <2>5 DEF Continues, history
  <2>8. ASSUME UpToDate(req[s]) PROVE UpToDate(q)'
    <3>1. Changing(q) = {x}
      BY <1>1, <2>5, OpFacts DEF Changing
    <3>2. ListedOK(q)'
      BY <1>1, <1>2, <2>6, <2>7, <2>8, <3>1, ListedAfterWrite
    <3>3. req[s].held = product[x] /\ x \in OnSale
      BY <1>1, <1>4, <2>2, <2>8 DEF UpToDate, HeldOK
    <3>4. x \in OnSale'
      BY <2>6, <3>3 DEF OnSale
    <3>5. q.op = "add" => InStep(x, g)'
      <4>1. q.op = "add" => u \in OrOneLess(g.pair)
        BY <2>3, <2>4, <2>5 DEF Units, OrOneLess
      <4>2. Known(g) = Known(product'[x]) /\ product'[x].status = "ON_SALE"
        BY <2>4, <2>6, <3>3 DEF OnSale
      <4> QED BY <2>6, <4>1, <4>2 DEF InStep, Known
    <3>6. HeldOK(q)'
      BY <1>1, <2>5, <3>5, OpFacts DEF HeldOK
    <3>7. FreshOK(q)' /\ SetOK(q)'
      BY <1>1, <2>5, <3>4, OpFacts DEF FreshOK, SetOK
    <3> QED BY <3>2, <3>6, <3>7 DEF UpToDate
  <2> QED BY <1>1, <2>5, <2>8, WritesList
<1>5. CASE req[s].held # None
  <2>1. PICK n \in MinUnits .. MaxUnits :
           IF Units(req[s], n) > MaxUnits
           THEN Throws(s) /\ UNCHANGED product
           ELSE /\ product' = [product EXCEPT ![req[s].id].pair = Units(req[s], n)]
                /\ Continues(s, [req[s] EXCEPT !.at = "refetch", !.held = h])
    BY <1>1, <1>5 DEF UpdateStock, Request
  <2> QED BY <1>3, <1>4, <1>5, <2>1
<1> QED BY <1>3, <1>5 DEF UpdateStock

(* A pair edit keeps the status and the price, and disturbs the units.     *)
LEMMA SavePairList ==
  ASSUME CatalogueAssumption, CopiesInv, ListInv, NEW s \in Slots, SavePair(s)
  PROVE  ListInv'
<1>1. /\ TypeOK /\ req[s] \in Request /\ req[s] # Idle /\ LocalsOK(req[s])
      /\ req[s].op = "pair" /\ req[s].at = "save" /\ UNCHANGED cache
      /\ Goes(s, Idle) /\ disturbed' = disturbed \cup {"pairs"}
  BY SlotFacts DEF SavePair
<1>2. req[s].id \in Products /\ req[s].held \in Row
  BY <1>1, OpFacts, NoneIsNothing, RequestFields DEF LocalsOK
<1>3. PICK n \in MinUnits .. MaxUnits :
         product' = [product EXCEPT ![req[s].id] = [req[s].held EXCEPT !.pair = n]]
  BY DEF SavePair
<1>4. PICK r \in Row : r = [req[s].held EXCEPT !.pair = n]
  BY <1>2 DEF Row
<1>5. PICK x \in Products : x = req[s].id
  BY <1>2
<1>6. product'[x] = r /\ \A y \in Products : y # x => product'[y] = product[y]
  BY <1>1, <1>3, <1>4, <1>5 DEF TypeOK
<1>7. Known(r) = Known(req[s].held)
  BY <1>2, <1>4 DEF Row, Known
<1>8. ASSUME Undisturbed PROVE UpToDate(Idle)'
  <2>1. UpToDate(req[s]) /\ Changing(req[s]) = {}
    BY <1>1, <1>8, ListPrior, OpFacts DEF Changing
  <2>2. PICK l \in Seq(Entries) : l = OrEmpty(cache)
    BY <1>1, CacheFacts
  <2>3. Tidy(l) /\ Len(l) <= MaxList /\ InStepBut(l, {})
    BY <2>1, <2>2 DEF UpToDate, ListedOK
  <2>4. Known(product'[x]) = Known(product[x])
    BY <1>1, <1>5, <1>6, <1>7, <2>1 DEF UpToDate, HeldOK
  <2>5. \A y \in Products : Known(product'[y]) = Known(product[y])
                            /\ product'[y].status = product[y].status
    <3> TAKE y \in Products
    <3>1. Known(product'[y]) = Known(product[y])
      BY <1>6, <2>4
    <3>2. Known(product'[y]).status = Known(product[y]).status
      BY <3>1
    <3> QED BY <3>1, <3>2 DEF Known
  <2>6. \A i \in DOMAIN l : l[i].id \in Products /\ InStep(l[i].id, l[i].row)
    BY <2>3, ListFacts DEF Tidy, InStepBut
  <2>7. disturbed' # {}
    BY <1>1
  <2>8. InStepBut(l, {})'
    BY <2>5, <2>6, <2>7 DEF InStepBut, InStep
  <2>9. OrEmpty(cache)' = l
    BY <1>1, <2>2 DEF OrEmpty
  <2>10. InStepBut(OrEmpty(cache), Changing(Idle))'
    BY <2>8, <2>9, IdleLocals DEF InStepBut, InStep, Changing
  <2>11. ListedOK(Idle)'
    BY <2>3, <2>9, <2>10 DEF ListedOK, Tidy
  <2> QED BY <2>11, IdleLocals DEF UpToDate
<1>9. Undisturbed' => Undisturbed
  BY <1>1 DEF Undisturbed
<1> QED BY <1>1, <1>8, <1>9, ListStep

(* A save that is refused: only the one of a pair edit may be alone.       *)
LEMMA SaveRefusedList ==
  ASSUME CatalogueAssumption, CopiesInv, ListInv, NEW s \in Slots, SaveRefused(s)
  PROVE  ListInv'
<1>1. /\ TypeOK /\ req[s] # Idle /\ Throws(s)
      /\ UNCHANGED <<product, cache>>
  BY SlotFacts, IdleFields DEF SaveRefused, At, CopiesInv
<1>2. Changing(req[s]) = {}
  BY OpFacts DEF SaveRefused, At, Changing
<1> QED BY <1>1, <1>2, NothingLeft, StopsList

-----------------------------------------------------------------------------
(* The invariant.                                                          *)

(* An empty list is up to date.                                            *)
LEMMA CacheExpiresList ==
  ASSUME CatalogueAssumption, CopiesInv, ListInv, CacheExpires
  PROVE  ListInv'
<1>1. /\ cache' = None /\ UNCHANGED <<product, req>>
      /\ (disturbed' = IF Quiet THEN {} ELSE disturbed)
  BY DEF CacheExpires
<1>2. OrEmpty(cache)' = <<>>
  BY <1>1 DEF OrEmpty
<1>3. \A q : ListedOK(q)'
  <2> TAKE q
  <2>1. /\ Len(<<>>) <= MaxList /\ Tidy(<<>>) /\ InStepBut(<<>>, Changing(q))'
    BY EmptyIsTidy DEF CatalogueAssumption
  <2>2. InStepBut(OrEmpty(cache), Changing(q))'
    BY <1>2, <2>1 DEF InStepBut, InStep, Changing
  <2> QED BY <1>2, <2>1, <2>2 DEF ListedOK, Tidy
<1>4. UpToDate(Idle)'
  BY <1>3, IdleLocals DEF UpToDate
<1>5. Quiet' = Quiet
  BY <1>1 DEF Quiet
<1>6. ASSUME Undisturbed', NEW t \in Slots, req'[t] # Idle
      PROVE  UpToDate(req[t])'
  <2>1. PICK q : q = req[t]
    OBVIOUS
  <2>2. req[t] # Idle /\ req'[t] = q /\ ~Quiet /\ disturbed' = disturbed
    BY <1>1, <1>6, <2>1 DEF Quiet
  <2>3. Undisturbed
    BY <1>6, <2>2 DEF Undisturbed
  <2>4. UpToDate(q)
    BY <2>1, <2>2, <2>3, ListPrior
  <2>5. HeldOK(q)' /\ FreshOK(q)'
    BY <1>1, <2>2, <2>4 DEF UpToDate, HeldOK, FreshOK, InStep, OnSale
  <2>6. SetOK(q)'
    <3>1. Ids(OrEmpty(cache))' = {}
      BY <1>2, EmptyList DEF Ids
    <3> QED BY <1>1, <2>2, <2>4, <3>1 DEF UpToDate, SetOK, InStepBut, InStep, Tidy, Changing
  <2>7. UpToDate(q)'
    BY <1>3, <2>5, <2>6 DEF UpToDate
  <2> QED BY <2>2, <2>7
<1> QED BY <1>4, <1>6 DEF ListInv

LEMMA ListInit == ASSUME CatalogueAssumption, Init PROVE ListInv
<1>1. OrEmpty(cache) = <<>> /\ \A s \in Slots : req[s] = Idle
  BY DEF Init, OrEmpty
<1>2. Len(<<>>) <= MaxList /\ Tidy(<<>>) /\ InStepBut(<<>>, Changing(Idle))
  BY EmptyIsTidy DEF CatalogueAssumption
<1>3. UpToDate(Idle)
  BY <1>1, <1>2, IdleLocals DEF UpToDate, ListedOK
<1> QED BY <1>1, <1>3 DEF ListInv

LEMMA ListStepKeeps == ASSUME CatalogueAssumption, CopiesInv, ListInv, Next PROVE ListInv'
<1>1. CASE CacheExpires
  BY <1>1, CacheExpiresList
<1>2. ASSUME NEW s \in Slots, Arrive(s) PROVE ListInv'
  BY <1>2, ReadForCreateList, ReadForListList, LoadForEditList, ReadForPairList, LoadCartList
     DEF Arrive
<1>3. ASSUME NEW s \in Slots, Proceed(s) PROVE ListInv'
  BY <1>3, LoadForCartList, LoadForPairList, SaveNewList, SaveEditList, SavePairList,
     SaveRefusedList, UpdateStatusList, SaveCartList, UpdateStockList, RefetchList, ReadForShowList,
     ReadForDeleteList, GetForUpdateList, GetForDeleteList, FindAllList, SetListList
     DEF Proceed
<1>4. ASSUME NEW s \in Slots, QueryFails(s) PROVE ListInv'
  BY <1>4, QueryFailsList
<1> QED BY <1>1, <1>2, <1>3, <1>4 DEF Next

LEMMA ListStutters == ASSUME ListInv, UNCHANGED vars PROVE ListInv'
<1>1. UNCHANGED <<product, cache, req, disturbed>>
  BY DEF vars
<1>2. \A q : UpToDate(q) => UpToDate(q)'
  BY <1>1, UpToDateKept
<1>3. Quiet' = Quiet /\ Undisturbed' = Undisturbed
  BY <1>1 DEF Quiet, Undisturbed
<1>4. ASSUME NEW s \in Slots, Undisturbed', req'[s] # Idle PROVE UpToDate(req[s])'
  <2>1. PICK q : q = req[s]
    OBVIOUS
  <2>2. req'[s] = q /\ UpToDate(q)
    BY <1>1, <1>3, <1>4, <2>1, ListPrior
  <2> QED BY <1>2, <2>2
<1>5. Undisturbed' /\ Quiet' => UpToDate(Idle)'
  BY <1>2, <1>3 DEF ListInv
<1> QED BY <1>4, <1>5 DEF ListInv

(* The request in flight is the only one by CopiesInv.                     *)
LEMMA CopiesAndList == Spec => [](CopiesInv /\ ListInv)
<1>1. Init => CopiesInv /\ ListInv
  BY InitHolds, ListInit, CatalogueAssumption
<1>2. CopiesInv /\ ListInv /\ [Next]_vars => (CopiesInv /\ ListInv)'
  BY StepKeeps, StutterKeeps, ListStepKeeps, ListStutters, CatalogueAssumption
<1> QED BY <1>1, <1>2, PTL DEF Spec

(* While nothing overlaps and no query fails, what the request in flight   *)
(* has loaded is what the tables hold, and the list differs from them in   *)
(* the product of that request at most.                                    *)
THEOREM ListInvariant == Spec => []ListInv
  BY CopiesAndList, PTL

(* cache.service.ts and its callers: at every quiet moment the list shows  *)
(* what is on sale, at its price and with its units, until requests        *)
(* overlap or a query fails.                                               *)
THEOREM ListIsTrue == Spec => []ListAgrees
<1>1. CopiesInv /\ ListInv => ListAgrees
  <2> SUFFICES ASSUME CopiesInv, ListInv, Quiet, Undisturbed, NEW i \in DOMAIN OrEmpty(cache)
               PROVE  LET row == product[cache[i].id] IN
                      /\ Known(cache[i].row) = Known(row) /\ row.status = "ON_SALE"
                      /\ disturbed = {} => row.pair \in OrOneLess(cache[i].row.pair)
    BY DEF ListAgrees, Undisturbed
  <2>1. cache # None
    BY EmptyList DEF OrEmpty
  <2>2. OrEmpty(cache) = cache
    BY <2>1 DEF OrEmpty
  <2>3. InStepBut(cache, {})
    BY <2>2, IdleLocals, CatalogueAssumption DEF ListInv, UpToDate, ListedOK
  <2> QED BY <2>2, <2>3 DEF InStepBut, InStep
<1> QED BY <1>1, CopiesAndList, PTL
=============================================================================
