------------------------------ MODULE Catalogue ------------------------------
(***************************************************************************)
(* The rows of products.product_general, the list of products cached in    *)
(* Redis, and the handlers that write them, query by query                 *)
(* (product.service.ts, cache.service.ts): requests run between each       *)
(* other's queries.                                                        *)
(*                                                                         *)
(* Every handler works on copies: the list is parsed from the cache,       *)
(* changed and set again, and an entity loaded from a table is saved by    *)
(* writing all that differs from the row when the save runs.  A cart is    *)
(* loaded with the rows of its products, and saving it writes those rows   *)
(* back (cart.entity.ts, cascade).                                         *)
(*                                                                         *)
(* Of a row, the status, the price and the units are kept, for a product   *)
(* counted in pairs (in_stock is false; Shop has both ways of counting).   *)
(* The lines of a product are not: Shop has what handlers do to them, one  *)
(* after the other.  Here they only make a save fail (SaveRefused).  A     *)
(* request that is refused at its first query changes nothing and is left  *)
(* out.                                                                    *)
(***************************************************************************)
EXTENDS Integers, Sequences, FiniteSets, Filters

CONSTANTS
    Users,     \* active users, each with at most one cart
    Products,  \* ids that products can have
    Prices,    \* sale prices an administrator types
    Slots,     \* requests that can be in flight at once
    MinUnits,  \* bound: the smallest value of the column and of a line
    MaxUnits,  \* bound: the largest value of the column, past which an update fails
    MaxList,   \* bound: the longest list the store takes, past which a set fails
    MaxFaults, \* bound: queries that fail
    None       \* null value

Row == [status : {"ON_SALE", "DELETED"}, price : Prices, pair : MinUnits .. MaxUnits]

ASSUME CatalogueAssumption ==
    /\ IsFiniteSet(Products)
    /\ None \notin Row \cup [id : Products, row : Row]
    /\ None \notin Users \cup Products \cup Slots \cup Prices
    /\ MinUnits \in Int /\ MinUnits <= 0
    /\ MaxUnits \in Nat /\ MaxList \in Nat /\ MaxFaults \in Nat

VARIABLES
    product,   \* product_general: a row for each id
    cart,      \* cart_product: the products of each cart, None without a cart
    cache,     \* the list under the cache key, None when the key is not there
    req,       \* the request in each slot
    alone,     \* history: the request that nothing has overlapped so far
    disturbed, \* history: what happened since the key was last absent at rest
    settled,   \* history: what an edit that nothing overlapped left in a row
    counted,   \* history: the units such a cart handler or pair edit left
    faults     \* history: how many queries have failed

vars == <<product, cart, cache, req, alone, disturbed, settled, counted, faults>>
history == <<alone, disturbed, settled, counted, faults>>

Absent == [status |-> "absent", price |-> None, pair |-> 0]

NewRow(price) == [status |-> "ON_SALE", price |-> price, pair |-> 0]

(* An entry of the list; null is one too. *)
Entry(p, r) == IF r = None THEN None ELSE [id |-> p, row |-> r]

OnSale == {p \in Products : product[p].status = "ON_SALE"}

Present == {p \in Products : product[p].status # "absent"}

Disturbances == {"overlap", "fault", "pairs"}

(* What an edit settles. *)
Known(r) == [status |-> r.status, price |-> r.price]

QuantityOps == {"increase", "decrease"}
CartOps == QuantityOps \cup {"add", "remove"}
EditOps == {"create", "edit", "delete"}
UnitOps == CartOps \cup {"pair"}

(* A request: its handler, the query it makes next, the product and the    *)
(* user it is for; in memory, the rows of the cart (None without a cart),  *)
(* the product as loaded, the product as loaded again, and the list.       *)
Call(op, at, p, u, rows, held, fresh, l) ==
    [op |-> op, at |-> at, id |-> p, user |-> u, rows |-> rows, held |-> held,
     fresh |-> fresh, list |-> l]

Idle == Call("none", "none", None, None, None, None, None, <<>>)

At(s, op, at) == req[s].op \in op /\ req[s].at = at

Goes(s, q) == req' = [req EXCEPT ![s] = q]

Quiet == \A s \in Slots : req[s] = Idle

Init ==
    /\ product = [p \in Products |-> Absent]
    /\ cart = [u \in Users |-> None]
    /\ cache = None
    /\ req = [s \in Slots |-> Idle]
    /\ alone = None
    /\ disturbed = {}
    /\ settled = [p \in Products |-> None]
    /\ counted = [p \in Products |-> None]
    /\ faults = 0

-----------------------------------------------------------------------------
(* The list in memory.  find and findIndex look at one entry after the     *)
(* other and fail on a null.                                               *)

ById(l, p) == {i \in DOMAIN l : l[i] # None /\ l[i].id = p}

OnSaleById(l, p) == {i \in ById(l, p) : l[i].row.status = "ON_SALE"}

Trips(l, hits) == \E i \in DOMAIN l : l[i] = None /\ \A j \in hits : i < j

First(hits) == CHOOSE i \in hits : \A j \in hits : i <= j

(* The list as get(...) || [] has it. *)
OrEmpty(l) == IF l = None THEN <<>> ELSE l

(* What find(status is ON_SALE) gives for p: a row, if any. *)
FoundIn(l, p) ==
    LET hits == OnSaleById(l, p) IN IF hits = {} THEN None ELSE l[First(hits)].row

(* Mutant: { ...newValue, ...items[index] }. *)
MergedUnder(l, p, r) == l

(* { ...items[index], ...newValue }: a null changes nothing. *)
Merged(l, p, r) == IF r = None THEN l ELSE [l EXCEPT ![First(ById(l, p))] = Entry(p, r)]

(* Mutant: the filter keeps the product and drops the others. *)
Only(l, p) == SelectSeq(l, LAMBDA e : e.id = p)

(* filter: the entries that stay. *)
Without(l, p) == Selected(l, {i \in DOMAIN l : l[i].id # p})

-----------------------------------------------------------------------------
(* A request comes, and goes. *)

Starts(s, q) ==
    /\ req[s] = Idle
    /\ Goes(s, q)
    /\ alone' = IF Quiet THEN s ELSE None
    /\ disturbed' = IF Quiet THEN disturbed ELSE disturbed \cup {"overlap"}
    /\ settled' = [p \in Products |-> IF q.op \in EditOps /\ q.id = p THEN None ELSE settled[p]]
    /\ counted' = [p \in Products |-> IF q.op \in UnitOps /\ q.id = p THEN None ELSE counted[p]]
    /\ UNCHANGED faults

Continues(s, q) == Goes(s, q) /\ UNCHANGED history

(* A handler comes to its end; one that edits settles the row. *)
Answers(s) ==
    /\ Goes(s, Idle)
    /\ alone' = IF alone = s THEN None ELSE alone
    /\ settled' = IF alone = s /\ req[s].op \in EditOps
                  THEN [settled EXCEPT ![req[s].id] = Known(product[req[s].id])]
                  ELSE settled
    /\ counted' = IF alone = s /\ req[s].op \in UnitOps
                  THEN [counted EXCEPT ![req[s].id] = product[req[s].id].pair]
                  ELSE counted
    /\ UNCHANGED <<disturbed, faults>>

(* A handler throws: what it has written stays. *)
Throws(s) ==
    /\ Goes(s, Idle)
    /\ alone' = IF alone = s THEN None ELSE alone
    /\ UNCHANGED <<disturbed, settled, counted, faults>>

-----------------------------------------------------------------------------
(* The first query of each handler.                                        *)

(* Bound: a creation comes only when an id is left for it. *)
ReadForCreate(s) ==
    /\ Cardinality({t \in Slots : At(t, {"create"}, "save")})
          < Cardinality({p \in Products : product[p] = Absent})
    /\ Starts(s, Call("create", "save", None, None, None, None, None, OrEmpty(cache)))
    /\ UNCHANGED <<product, cart, cache>>

(* Mutant: the product is taken from the list, as a pair edit does. *)
LoadForEditCached(s, p) ==
    /\ OnSaleById(OrEmpty(cache), p) # {}
    /\ Starts(s, Call("edit", "save", p, None, None,
                      cache[First(OnSaleById(cache, p))].row, None, <<>>))
    /\ UNCHANGED <<product, cart, cache>>

(* updateProductGeneral, and updateProductInventory, which has no price. *)
LoadForEdit(s, p) ==
    /\ p \in OnSale
    /\ Starts(s, Call("edit", "save", p, None, None, product[p], None, <<>>))
    /\ UNCHANGED <<product, cart, cache>>

LoadForDelete(s, p) ==
    /\ p \in OnSale
    /\ Starts(s, Call("delete", "status", p, None, None, None, None, <<>>))
    /\ UNCHANGED <<product, cart, cache>>

NoRows == [p \in {} |-> Absent]

(* The user with the cart and the rows of its products. *)
RowsOf(u) == IF cart[u] = None THEN None ELSE [p \in cart[u] |-> product[p]]

LoadCart(s, op, u, p) ==
    /\ CASE op = "add" -> cart[u] # None => p \notin cart[u] \cap OnSale
         [] OTHER      -> cart[u] # None /\ p \in cart[u]
    /\ Starts(s, Call(op, "product", p, u, RowsOf(u), None, None, <<>>))
    /\ UNCHANGED <<product, cart, cache>>

(* updatePairQuantity takes the product from the list if it is there. *)
ReadForPair(s, p) ==
    /\ LET l == OrEmpty(cache)
           hits == OnSaleById(l, p)
       IN  /\ ~Trips(l, hits)
           /\ Starts(s, IF hits = {}
                        THEN Call("pair", "product", p, None, None, None, None, <<>>)
                        ELSE Call("pair", "save", p, None, None, l[First(hits)].row, None, <<>>))
    /\ UNCHANGED <<product, cart, cache>>

(* getAllProducts goes to the table when the list is missing or empty. *)
ReadForList(s) ==
    /\ OrEmpty(cache) = <<>>
    /\ Starts(s, Call("list", "find", None, None, None, None, None, <<>>))
    /\ UNCHANGED <<product, cart, cache>>

-----------------------------------------------------------------------------
(* The product: loaded, saved, updated, loaded again.                      *)

Found(p) == IF p \in OnSale THEN product[p] ELSE None

(* Mutant: the product is loaded whatever its status. *)
LoadedUnfiltered(p) == product[p]

Loaded(p) == Found(p)

(* The cart handlers go on with a null, but an addition does not. *)
LoadForCart(s) ==
    /\ At(s, CartOps, "product")
    /\ IF Loaded(req[s].id) = None /\ req[s].op = "add"
       THEN Throws(s)
       ELSE Continues(s, [req[s] EXCEPT !.at = "cart", !.held = Loaded(req[s].id)])
    /\ UNCHANGED <<product, cart, cache>>

LoadForPair(s) ==
    /\ At(s, {"pair"}, "product")
    /\ IF Found(req[s].id) = None
       THEN Throws(s)
       ELSE Continues(s, [req[s] EXCEPT !.at = "save", !.held = Found(req[s].id)])
    /\ UNCHANGED <<product, cart, cache>>

(* The row gets its id here. *)
SaveNew(s) ==
    /\ At(s, {"create"}, "save")
    /\ \E p \in Products, price \in Prices :
          /\ product[p] = Absent
          /\ product' = [product EXCEPT ![p] = NewRow(price)]
          /\ Continues(s, [req[s] EXCEPT !.id = p, !.at = "set",
                              !.list = Append(@, Entry(p, NewRow(price)))])
    /\ UNCHANGED <<cart, cache>>

SaveEdit(s) ==
    /\ At(s, {"edit"}, "save")
    /\ \E price \in Prices \cup {req[s].held.price} :
          LET saved == [req[s].held EXCEPT !.price = price] IN
          /\ product' = [product EXCEPT ![req[s].id] = saved]
          /\ Continues(s, [req[s] EXCEPT !.at = "get", !.held = None, !.fresh = saved])
    /\ UNCHANGED <<cart, cache>>

(* The last write: the update of the list names the product's id as the    *)
(* key, and finds nothing there.                                           *)
SavePair(s) ==
    /\ At(s, {"pair"}, "save")
    /\ \E n \in MinUnits .. MaxUnits :
          product' = [product EXCEPT ![req[s].id] = [req[s].held EXCEPT !.pair = n]]
    /\ Goes(s, Idle)
    /\ alone' = IF alone = s THEN None ELSE alone
    /\ disturbed' = disturbed \cup {"pairs"}
    /\ counted' = IF alone = s THEN [counted EXCEPT ![req[s].id] = product'[req[s].id].pair]
                               ELSE counted
    /\ UNCHANGED <<cart, cache, settled, faults>>

UpdateStatus(s) ==
    /\ At(s, {"delete"}, "status")
    /\ product' = [product EXCEPT ![req[s].id].status = "DELETED"]
    /\ Continues(s, [req[s] EXCEPT !.at = "read"])
    /\ UNCHANGED <<cart, cache>>

RowsIn(q) == IF q.rows = None THEN NoRows ELSE q.rows

(* The products of the saved cart, with their rows as they were loaded. *)
Written(q) ==
    LET rows == RowsIn(q)
        ids  == CASE q.op = "add"    -> DOMAIN rows \cup {q.id}
                  [] q.op = "remove" -> DOMAIN rows \ {q.id}
                  [] OTHER           -> DOMAIN rows
    IN  [p \in ids |-> IF p \in DOMAIN rows THEN rows[p] ELSE q.held]

(* A user's first cart is inserted; the second of two such inserts fails. *)
SaveCart(s) ==
    /\ At(s, CartOps, "cart")
    /\ IF req[s].rows = None /\ cart[req[s].user] # None
       THEN Throws(s) /\ UNCHANGED <<product, cart>>
       ELSE /\ cart' = [cart EXCEPT ![req[s].user] = DOMAIN Written(req[s])]
            /\ product' = [p \in Products |-> IF p \in DOMAIN Written(req[s])
                                              THEN Written(req[s])[p] ELSE product[p]]
            /\ Continues(s, [req[s] EXCEPT !.at = "stock",
                                !.rows = IF @ = None THEN None ELSE NoRows])
    /\ UNCHANGED cache

AtLeast0(n) == IF n < 0 THEN 0 ELSE n

(* Mutant: Math.max(0, ...) is missing. *)
UnitsUnclamped(q, n) ==
    CASE q.op \in {"add", "increase"} -> q.held.pair - 1
      [] q.op = "decrease"            -> q.held.pair + 1
      [] q.op = "remove"              -> q.held.pair + n

(* The units are those of the loaded product, changed, and never less than *)
(* zero (product.id fails on a null); a removal gives back what the line   *)
(* had, which a decrease may have taken below zero.                        *)
Units(q, n) ==
    AtLeast0(CASE q.op \in {"add", "increase"} -> q.held.pair - 1
               [] q.op = "decrease"            -> q.held.pair + 1
               [] q.op = "remove"              -> q.held.pair + n)

UpdateStock(s) ==
    /\ At(s, CartOps, "stock")
    /\ IF req[s].held = None
       THEN Throws(s) /\ UNCHANGED product
       ELSE \E n \in MinUnits .. MaxUnits :
              IF Units(req[s], n) > MaxUnits
              THEN Throws(s) /\ UNCHANGED product
              ELSE /\ product' = [product EXCEPT ![req[s].id].pair = Units(req[s], n)]
                   /\ Continues(s, [req[s] EXCEPT !.at = "refetch",
                                       !.held = IF req[s].op = "add" THEN @ ELSE None])
    /\ UNCHANGED <<cart, cache>>

(* An addition to an existing cart loads the product whatever its status. *)
Refetch(s) ==
    /\ At(s, CartOps, "refetch")
    /\ Continues(s, [req[s] EXCEPT !.at = "read", !.rows = None,
                        !.fresh = IF req[s].op = "add" /\ req[s].rows # None
                                  THEN product[req[s].id] ELSE Found(req[s].id)])
    /\ UNCHANGED <<product, cart, cache>>

-----------------------------------------------------------------------------
(* The list: read, changed, set.                                           *)

(* What a cart handler looks for, and pushes if it is not there: an        *)
(* addition pushes the product as it was before the sale.                  *)
Sought(q, l) == IF q.op = "add" THEN ById(l, q.id) ELSE OnSaleById(l, q.id)

Pushed(q) == Entry(q.id, IF q.op = "add" THEN q.held ELSE q.fresh)

(* The quantity handlers read the list without || []. *)
ReadForShow(s) ==
    /\ At(s, CartOps, "read")
    /\ LET l == OrEmpty(cache)
           hits == Sought(req[s], l)
       IN  IF Trips(l, hits) \/ (cache = None /\ req[s].op \in QuantityOps)
           THEN Throws(s)
           ELSE Continues(s, [req[s] EXCEPT
                                !.at = IF hits = {} THEN "set" ELSE "get",
                                !.list = IF hits = {} THEN Append(l, Pushed(req[s])) ELSE <<>>,
                                !.held = None,
                                !.fresh = IF hits = {} THEN None ELSE @])
    /\ UNCHANGED <<product, cart, cache>>

ReadForDelete(s) ==
    /\ At(s, {"delete"}, "read")
    /\ LET l == OrEmpty(cache)
           hits == OnSaleById(l, req[s].id)
       IN  IF Trips(l, hits) THEN Throws(s)
           ELSE IF hits = {} THEN Answers(s)
           ELSE Continues(s, [req[s] EXCEPT !.at = "get"])
    /\ UNCHANGED <<product, cart, cache>>

(* CacheService.update, after an edit or a cart handler. *)
GetForUpdate(s) ==
    /\ At(s, CartOps \cup {"edit"}, "get")
    /\ LET l == OrEmpty(cache)
           hits == ById(l, req[s].id)
       IN  IF Trips(l, hits) THEN Throws(s)
           ELSE IF hits = {} THEN Answers(s)
           ELSE Continues(s, [req[s] EXCEPT !.at = "set", !.fresh = None,
                                !.list = Merged(l, req[s].id, req[s].fresh)])
    /\ UNCHANGED <<product, cart, cache>>

(* CacheService.delete. *)
GetForDelete(s) ==
    /\ At(s, {"delete"}, "get")
    /\ IF cache = None THEN Answers(s)
       ELSE IF Trips(cache, {}) THEN Throws(s)
       ELSE Continues(s, [req[s] EXCEPT !.at = "set", !.list = Without(cache, req[s].id)])
    /\ UNCHANGED <<product, cart, cache>>

(* The rows in some order. *)
FindAll(s) ==
    /\ At(s, {"list"}, "find")
    /\ \E l \in [1 .. Cardinality(OnSale) -> OnSale] :
          /\ \A p \in OnSale : \E i \in DOMAIN l : l[i] = p
          /\ Continues(s, [req[s] EXCEPT !.at = "set",
                              !.list = [i \in DOMAIN l |-> Entry(l[i], product[l[i]])]])
    /\ UNCHANGED <<product, cart, cache>>

SetList(s) ==
    /\ req[s].at = "set"
    /\ IF Len(req[s].list) > MaxList
       THEN Throws(s) /\ UNCHANGED cache
       ELSE Answers(s) /\ cache' = req[s].list
    /\ UNCHANGED <<product, cart>>

-----------------------------------------------------------------------------
(* The key outlives its ttl, or the store drops it. *)
CacheExpires ==
    /\ cache # None
    /\ cache' = None
    /\ disturbed' = IF Quiet THEN {} ELSE disturbed
    /\ UNCHANGED <<product, cart, req, alone, settled, counted, faults>>

(* A query, of the tables or of the cache, fails: the handler answers an   *)
(* error.                                                                  *)
QueryFails(s) ==
    /\ req[s] # Idle
    /\ faults < MaxFaults
    /\ faults' = faults + 1
    /\ Goes(s, Idle)
    /\ alone' = IF alone = s THEN None ELSE alone
    /\ disturbed' = disturbed \cup {"fault"}
    /\ UNCHANGED <<product, cart, cache, settled, counted>>

(* A save takes the lines of its entities with it, and fails when one of   *)
(* their products has got a line since they were loaded: an older entry of *)
(* the list may lack it, what a request loads itself only after an overlap. *)
SaveRefused(s) ==
    /\ \/ At(s, {"pair"}, "save")
       \/ alone # s /\ (At(s, {"edit"}, "save") \/ At(s, CartOps, "cart"))
    /\ Throws(s)
    /\ UNCHANGED <<product, cart, cache>>

Arrive(s) ==
    \/ ReadForCreate(s) \/ ReadForList(s)
    \/ \E p \in Products : LoadForEdit(s, p) \/ LoadForDelete(s, p) \/ ReadForPair(s, p)
    \/ \E op \in CartOps, u \in Users, p \in Products : LoadCart(s, op, u, p)

Proceed(s) ==
    \/ LoadForCart(s) \/ LoadForPair(s)
    \/ SaveNew(s) \/ SaveEdit(s) \/ SavePair(s) \/ SaveRefused(s)
    \/ UpdateStatus(s) \/ SaveCart(s)
    \/ UpdateStock(s) \/ Refetch(s)
    \/ ReadForShow(s) \/ ReadForDelete(s) \/ GetForUpdate(s) \/ GetForDelete(s)
    \/ FindAll(s) \/ SetList(s)

Next == CacheExpires \/ \E s \in Slots : Arrive(s) \/ Proceed(s) \/ QueryFails(s)

Spec == Init /\ [][Next]_vars

-----------------------------------------------------------------------------
Ops == CartOps \cup EditOps \cup {"none", "pair", "list"}

Queries == {"none", "product", "cart", "stock", "refetch", "save", "status", "find",
            "read", "get", "set"}

Entries == [id : Products, row : Row] \cup {None}

CartRows == UNION {[D -> Row] : D \in SUBSET Products}

Request == [op : Ops, at : Queries, id : Products \cup {None}, user : Users \cup {None},
            rows : CartRows \cup {None}, held : Row \cup {None}, fresh : Row \cup {None},
            list : Seq(Entries)]

TypeOK ==
    /\ product \in [Products -> Row \cup {Absent}]
    /\ cart \in [Users -> (SUBSET Products) \cup {None}]
    /\ cache \in Seq(Entries) \cup {None}
    /\ req \in [Slots -> Request]
    /\ alone \in Slots \cup {None}
    /\ disturbed \subseteq Disturbances
    /\ settled \in [Products -> [status : {"ON_SALE", "DELETED"}, price : Prices] \cup {None}]
    /\ counted \in [Products -> Int \cup {None}]
    /\ faults \in 0 .. MaxFaults

(* The entry getProductById and updatePairQuantity find for p, if any. *)
Listed(p) == FoundIn(OrEmpty(cache), p)

(* A price that an administrator set, or a deletion, with nothing else in  *)
(* flight stays, in the row and in the list, until another edit of the     *)
(* product comes: no handler that started later carries an older copy, not *)
(* even one that works on a list left stale by an earlier race.            *)
EditsStay ==
    \A p \in Products : settled[p] # None =>
        /\ Known(product[p]) = settled[p]
        /\ Listed(p) # None => Known(Listed(p)) = settled[p]

(* The units that a cart handler or a pair edit left with nothing else in  *)
(* flight stay until the next one of that product comes: neither an edit   *)
(* nor a cart that merely holds the product writes an older number back.   *)
UnitsStay == \A p \in Products : counted[p] # None => product[p].pair = counted[p]

(* Units as they are, or as a sale leaves them. *)
OrOneLess(n) == {n, AtLeast0(n - 1)}

(* Once the key has expired while no request was running, the list agrees  *)
(* with the table at every quiet moment until two requests overlap or a    *)
(* query fails: it has only products on sale, at their price and with      *)
(* their units or, after the push of the product as it was before a sale,  *)
(* the units then.  A pair edit disturbs the units only.                   *)
ListAgrees ==
    Quiet /\ disturbed \subseteq {"pairs"} =>
        \A i \in DOMAIN OrEmpty(cache) :
            LET row == product[cache[i].id] IN
            /\ Known(cache[i].row) = Known(row) /\ row.status = "ON_SALE"
            /\ disturbed = {} => row.pair \in OrOneLess(cache[i].row.pair)

(* A null gets into the list, where every search of it fails, only after   *)
(* two requests overlapped: a cart handler on a product deleted earlier    *)
(* throws before it pushes what it did not find.                           *)
NullNeedsOverlap ==
    \A i \in DOMAIN OrEmpty(cache) : cache[i] = None => "overlap" \in disturbed

-----------------------------------------------------------------------------
(* The rows of p that a request has loaded. *)
InMemory(q, p) ==
    ((IF q.id = p THEN {q.held, q.fresh} ELSE {})
        \cup {RowsIn(q)[x] : x \in DOMAIN RowsIn(q) \cap {p}}) \ {None}

Ids(l) == {l[i].id : i \in {i \in DOMAIN l : l[i] # None}}

(* Only what exists has copies, and a handler has loaded what it writes.   *)
LocalsOK(q) ==
    /\ q.op \in UnitOps \cup {"edit", "delete"} \/ (q.op = "create" /\ q.at = "set") =>
          q.id \in Products
    /\ q.id # None => q.id \in Present \/ (q.at = "product" /\ q.op \in {"add", "pair"})
    /\ DOMAIN RowsIn(q) \cup Ids(q.list) \subseteq Present
    /\ q.op = "create" => q.held = None /\ q.fresh = None
    /\ q.op = "add" /\ q.at \in {"cart", "stock", "refetch", "read"} => q.held # None
    /\ q.at = "save" => q.op = "create" \/ q.held # None
    /\ q.op = "edit" /\ q.at = "save" => q.held.status = "ON_SALE"

(* No copy in memory disagrees with what is settled and counted. *)
CopiesOK(q) ==
    \A p \in Products :
        /\ settled[p] # None =>
              /\ ~(q.op \in EditOps /\ q.id = p)
              /\ \A r \in InMemory(q, p) : Known(r) = settled[p]
              /\ FoundIn(q.list, p) # None => Known(FoundIn(q.list, p)) = settled[p]
        /\ counted[p] # None =>
              /\ ~(q.op \in UnitOps /\ q.id = p)
              /\ \A r \in InMemory(q, p) : r.pair = counted[p]

(* A request that nothing has overlapped sets what its edit has left.      *)
AloneOK(q) ==
    /\ q.op = "edit" /\ q.at = "get" => q.fresh = product[q.id] /\ q.id \in OnSale
    /\ q.op \in EditOps /\ q.at = "set" /\ FoundIn(q.list, q.id) # None =>
          Known(FoundIn(q.list, q.id)) = Known(product[q.id])

(* Without an overlap the product of a cart handler stays on sale once it  *)
(* was found, its copies included, and no null is set.                     *)
UndisturbedOK(q) ==
    /\ \A i \in DOMAIN q.list : q.list[i] # None
    /\ q.op \in CartOps =>
          /\ q.at = "product" => \A r \in InMemory(q, q.id) : r = product[q.id]
          /\ q.at = "cart" /\ q.held # None =>
                q.id \in OnSale /\ \A r \in InMemory(q, q.id) : r.status = "ON_SALE"
          /\ q.at = "stock" /\ q.held # None => q.id \in OnSale
          /\ q.at = "refetch" => q.id \in OnSale
          /\ q.at = "read" => q.fresh # None

(* What "alone" and "overlap" say of the requests in flight. *)
InFlightOK ==
    /\ \A t \in Slots : alone # None /\ t # alone => req[t] = Idle
    /\ "overlap" \notin disturbed => \A s, t \in Slots : s # t => Idle \in {req[s], req[t]}

SlotOK(s) ==
    /\ LocalsOK(req[s])
    /\ CopiesOK(req[s])
    /\ alone = s => AloneOK(req[s])
    /\ "overlap" \notin disturbed => UndisturbedOK(req[s])

(* Carts and the list name only what exists. *)
NamesOK ==
    /\ \A u \in Users : cart[u] # None => cart[u] \subseteq Present
    /\ Ids(OrEmpty(cache)) \subseteq Present

(* The inductive invariant of EditsStay, UnitsStay and NullNeedsOverlap.   *)
CopiesInv ==
    /\ TypeOK /\ EditsStay /\ UnitsStay /\ NullNeedsOverlap /\ NamesOK /\ InFlightOK
    /\ \A s \in Slots : SlotOK(s)

(* Nothing but pair edits since the key was last absent at rest. *)
Undisturbed == disturbed \subseteq {"pairs"}

(* The product whose entry a request has left behind, and will set. *)
Changing(q) ==
    IF \/ q.op = "edit" /\ q.at \in {"get", "set"}
       \/ q.op = "delete" /\ q.at \in {"read", "get", "set"}
       \/ q.op \in CartOps /\ q.at \in {"refetch", "read", "get", "set"}
    THEN {q.id} ELSE {}

(* A copy r of the row of p that the list may show. *)
InStep(p, r) ==
    /\ product[p].status = "ON_SALE" /\ Known(r) = Known(product[p])
    /\ disturbed = {} => product[p].pair \in OrOneLess(r.pair)

InStepBut(l, X) == \A i \in DOMAIN l : l[i].id \in X \/ InStep(l[i].id, l[i].row)

Tidy(l) ==
    /\ \A i \in DOMAIN l : l[i] # None /\ l[i].row.status = "ON_SALE"
    /\ \A i, j \in DOMAIN l : l[i].id = l[j].id => i = j

ListedOK(q) ==
    /\ Len(OrEmpty(cache)) <= MaxList
    /\ Tidy(OrEmpty(cache))
    /\ InStepBut(OrEmpty(cache), Changing(q))

(* What a handler has loaded is what the row still is. *)
HeldOK(q) ==
    /\ q.op = "edit" /\ q.at = "save" => q.held = product[q.id]
    /\ q.op = "pair" /\ q.at = "save" => Known(q.held) = Known(product[q.id])
    /\ q.op \in CartOps /\ q.at \in {"product", "cart"} =>
          \A p \in DOMAIN RowsIn(q) : RowsIn(q)[p] = product[p]
    /\ q.op \in CartOps /\ q.at \in {"cart", "stock"} /\ q.held # None =>
          q.held = product[q.id] /\ q.id \in OnSale
    /\ q.op = "add" /\ q.at \in {"refetch", "read"} => InStep(q.id, q.held)

(* And so is what it loads again after its write. *)
FreshOK(q) ==
    /\ q.op \in CartOps /\ q.at = "refetch" => q.id \in OnSale
    /\ (q.op \in CartOps /\ q.at \in {"read", "get"}) \/ (q.op = "edit" /\ q.at = "get") =>
          q.fresh = product[q.id] /\ q.id \in OnSale

(* The list it is about to set agrees with the table; if the store refuses *)
(* it as too long, the one that stays has no entry of the product.         *)
SetOK(q) ==
    /\ q.op = "create" \/ q.at = "set" => Tidy(q.list) /\ InStepBut(q.list, {})
    /\ q.at = "set" => \/ Changing(q) = {} \/ Len(q.list) <= MaxList
                       \/ q.id \notin Ids(OrEmpty(cache))

UpToDate(q) == ListedOK(q) /\ HeldOK(q) /\ FreshOK(q) /\ SetOK(q)

(* The inductive invariant of ListAgrees. *)
ListInv ==
    Undisturbed =>
        /\ Quiet => UpToDate(Idle)
        /\ \A s \in Slots : req[s] # Idle => UpToDate(req[s])

-----------------------------------------------------------------------------
(* The controller describes /products/all as 'Get all products': the page  *)
(* shows every product on sale.                                            *)
Page == IF OrEmpty(cache) = <<>> THEN OnSale
        ELSE {cache[i].id : i \in {i \in DOMAIN cache : cache[i] # None}}

GetAllIsComplete == Quiet => OnSale \subseteq Page
=============================================================================
