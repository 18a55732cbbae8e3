-------------------------------- MODULE Shop --------------------------------
(***************************************************************************)
(* Products, carts, lines and the cached list (product.service.ts,         *)
(* product.mapper.ts, cache.service.ts), one request at a time and with    *)
(* every query answered: an action is a whole handler.  Catalogue has what *)
(* happens between the queries, without the lines.                         *)
(*                                                                         *)
(* A loaded product has its lines with it (eager), in the list too, and    *)
(* saving it saves them (cascade): a line that the table no longer has is  *)
(* inserted again, and one that the entity does not have would lose its    *)
(* product, which the column refuses.  Only updatePairQuantity saves an    *)
(* entity that was not loaded by the same request.                         *)
(*                                                                         *)
(* in_pair is a required enum, so it is never falsy and the branches for a *)
(* falsy in_pair are dead.  Only two of the listed statuses are ever       *)
(* written, ON_SALE (the default) and DELETED.  product_count is the       *)
(* length of products whenever a cart is saved and is left out.  A request *)
(* refused before its first write changes nothing and is left out.         *)
(***************************************************************************)
EXTENDS Integers, FiniteSets

CONSTANTS
    Users,      \* active users, each with at most one cart
    Products,   \* ids that products can have
    LineIds,    \* ids that the lines of one product in one cart can have
    Prices,     \* sale prices an administrator types
    Quantities, \* quantities an administrator types
    Pairs,      \* pair quantities an administrator types
    MinUnits, MaxUnits, \* bounds: units in one place
    MinPrice, MaxPrice, \* bounds: the price of a row
    None        \* null value

(* A row of cart_product_link: what its line shows. *)
LineRow == [quantity : Int, price : Int]

Product == [status : {"absent", "ON_SALE", "DELETED"}, price : Prices \cup {0},
            inStock : BOOLEAN, quantity : Nat \cup Quantities, pair : Nat \cup Pairs]

Lines == [Users -> [LineIds -> LineRow \cup {None}]]

(* A product of the list, as it was loaded. *)
Entry == [row : Product, lines : Lines]

ASSUME ShopAssumption ==
    /\ IsFiniteSet(Users) /\ IsFiniteSet(Products) /\ IsFiniteSet(LineIds)
    /\ Prices \subseteq Nat /\ Quantities \subseteq Int /\ Pairs \subseteq Int
    /\ {MinUnits, MaxUnits, MinPrice, MaxPrice} \subseteq Int
    /\ None \notin LineRow /\ None \notin Entry
    /\ None \notin [Products -> Entry \cup {None}]

VARIABLES
    product,  \* product_general: the columns a handler below reads or writes
    cart,     \* cart: its products (table cart_product) and its sub_total
    row,      \* cart_product_link: row[u][p][i] is row i of p in u's cart
    cache,    \* the list under the cache key, by product, or None
    owed,     \* history: units of p the shop answers for, see Restock
    returned  \* history: carts to which a removed line came back

vars == <<product, cart, row, cache, owed, returned>>

Absent == [status |-> "absent", price |-> 0, inStock |-> FALSE, quantity |-> 0, pair |-> 0]

EmptyCart == [products |-> {}, subTotal |-> 0]

OnSale == {p \in Products : product[p].status = "ON_SALE"}

LinesOf(p) == [u \in Users |-> row[u][p]]

(* The lines of p in u's cart, of which find gives the first. *)
Has(u, p) == {i \in LineIds : row[u][p][i] # None}

(* The sum of the values of f, by counting: one for each number from 1 to   *)
(* f[x], and one to take away for each from 1 to -f[x].                    *)
Pile(f) == UNION {{x} \X (1 .. f[x]) : x \in DOMAIN f}

Total(f) == Cardinality(Pile(f)) - Cardinality(Pile([x \in DOMAIN f |-> -f[x]]))

(* Units of p on a line, and on all lines. *)
UnitsIn(l) == IF l = None THEN 0 ELSE l.quantity

Units(p) == Total([x \in Users \X LineIds |-> UnitsIn(row[x[1]][p][x[2]])])

Stock(r) == r.quantity + r.pair

(* Mutant: Math.max(0, ...) is missing. *)
Unclamped(n) == n

AtLeast0(n) == IF n < 0 THEN 0 ELSE n

Init ==
    /\ product = [p \in Products |-> Absent]
    /\ cart = [u \in Users |-> EmptyCart]
    /\ row = [u \in Users |-> [p \in Products |-> [i \in LineIds |-> None]]]
    /\ cache = None
    /\ owed = [p \in Products |-> 0]
    /\ returned = {}

-----------------------------------------------------------------------------
(* The list: found, set, updated.                                          *)

(* What findOne gives: the row and its lines. *)
Loaded(p) == [row |-> product[p], lines |-> LinesOf(p)]

(* get(...) || [] *)
OrEmpty == IF cache = None THEN [p \in Products |-> None] ELSE cache

(* Mutant: the update of the entry names the product's id as the key. *)
ShowsElsewhere(p, e) ==
    cache' = IF OrEmpty[p] = None THEN [OrEmpty EXCEPT ![p] = e] ELSE cache

(* A push and a set, or an update of the entry that was found. *)
Shows(p, e) == cache' = [OrEmpty EXCEPT ![p] = e]

(* The same without || []: find fails on a missing list, after the writes. *)
ShowsIfListed(p, e) ==
    cache' = IF cache = None THEN None ELSE [cache EXCEPT ![p] = e]

(* CacheService.update alone. *)
Updates(p, e) ==
    cache' = IF OrEmpty[p] = None THEN cache ELSE [cache EXCEPT ![p] = e]

-----------------------------------------------------------------------------
(* Stock: what a handler writes to the product's row.  A product that is   *)
(* not in stock is counted in pairs.                                       *)

TakeOne(r) ==
    IF r.inStock
    THEN [r EXCEPT !.quantity = AtLeast0(r.quantity - 1), !.inStock = r.quantity - 1 > 0]
    ELSE [r EXCEPT !.pair = AtLeast0(r.pair - 1)]

ReturnOne(r) ==
    IF r.inStock
    THEN [r EXCEPT !.quantity = AtLeast0(r.quantity + 1)]
    ELSE [r EXCEPT !.pair = AtLeast0(r.pair + 1)]

(* Mutant: a product taken out of a cart gives back one unit. *)
ReturnSingle(r, n) ==
    IF r.inStock THEN [r EXCEPT !.quantity = @ + 1] ELSE [r EXCEPT !.pair = @ + 1]

ReturnMany(r, n) ==
    IF r.inStock THEN [r EXCEPT !.quantity = AtLeast0(r.quantity + n)]
                 ELSE [r EXCEPT !.pair = AtLeast0(r.pair + n)]

-----------------------------------------------------------------------------
(* Carts.                                                                  *)

(* A new row has an id of its own, not one that the list still shows. *)
Unused(u, p) ==
    {i \in LineIds \ Has(u, p) : OrEmpty[p] # None => OrEmpty[p].lines[u][i] = None}

(* If the list does not have the product, the one loaded at first, before   *)
(* the sale, is pushed.                                                    *)
AddToCart(u, p) ==
    /\ p \in OnSale \ cart[u].products
    /\ cart' = [cart EXCEPT ![u] = [products |-> @.products \cup {p},
                                    subTotal |-> @.subTotal + product[p].price]]
    /\ \E i \in Unused(u, p) :
          row' = [row EXCEPT ![u][p][i] = [quantity |-> 1, price |-> product[p].price]]
    /\ product' = [product EXCEPT ![p] = TakeOne(@)]
    /\ Shows(p, IF OrEmpty[p] = None THEN Loaded(p) ELSE Loaded(p)')
    /\ UNCHANGED <<owed, returned>>

(* Mutant: the sub_total keeps the price of the product that left. *)
RemovePriced(c, p, price) == [products |-> c.products \ {p}, subTotal |-> c.subTotal]

RemoveLine(c, p, price) == [products |-> c.products \ {p}, subTotal |-> c.subTotal - price]

(* The product is looked up with a status filter, the cart's products are  *)
(* not: for a deleted product the handler saves the cart and then fails on *)
(* the null, and the row stays.  The list is given the product as it was   *)
(* loaded again, before the row goes.                                      *)
RemoveProductFromCart(u, p) ==
    /\ p \in cart[u].products
    /\ \E i \in Has(u, p) :
          /\ cart' = [cart EXCEPT ![u] = RemoveLine(@, p, row[u][p][i].price)]
          /\ IF p \in OnSale
             THEN /\ product' = [product EXCEPT ![p] = ReturnMany(@, row[u][p][i].quantity)]
                  /\ row' = [row EXCEPT ![u][p][i] = None]
                  /\ Shows(p, [row |-> product'[p], lines |-> LinesOf(p)])
             ELSE UNCHANGED <<product, row, cache>>
    /\ UNCHANGED <<owed, returned>>

(* Both quantity handlers: row and cart are saved before the product, which *)
(* may be null.                                                            *)
ChangeQuantity(u, p, n, r) ==
    /\ p \in cart[u].products
    /\ \E i \in Has(u, p) :
          row' = [row EXCEPT ![u][p][i] = [quantity |-> @.quantity + n,
                                           price |-> @.price + n * product[p].price]]
    /\ cart' = [cart EXCEPT ![u].subTotal = @ + n * product[p].price]
    /\ IF p \in OnSale
       THEN product' = [product EXCEPT ![p] = r] /\ ShowsIfListed(p, Loaded(p)')
       ELSE UNCHANGED <<product, cache>>
    /\ UNCHANGED <<owed, returned>>

UpdateCartQuantity(u, p) == ChangeQuantity(u, p, 1, TakeOne(product[p]))

UpdateCartQuantityDecrease(u, p) == ChangeQuantity(u, p, -1, ReturnOne(product[p]))

(* What viewCart shows: every line, of the cart's products or not, and the *)
(* sub_total.                                                              *)
Shown(u) == {x \in Products \X LineIds : row[u][x[1]][x[2]] # None}

ViewCart(u) == [lines |-> [x \in Shown(u) |-> row[u][x[1]][x[2]]],
                subTotal |-> cart[u].subTotal]

-----------------------------------------------------------------------------
(* Products.                                                               *)

(* quantity is not among the keys toCreateEntity copies. *)
CreateProduct(p) ==
    /\ product[p] = Absent
    /\ \E price \in Prices, inStock \in BOOLEAN :
          product' = [product EXCEPT ![p] = [Absent EXCEPT !.status = "ON_SALE",
                                                !.price = price, !.inStock = inStock]]
    /\ UNCHANGED <<cart, row, owed, returned>>
    /\ Shows(p, Loaded(p)')

(* An edit restates the stock: from then on the shop answers for what the  *)
(* row says and for what is in carts.                                      *)
Restock(p, r) ==
    /\ product' = [product EXCEPT ![p] = r]
    /\ owed' = [owed EXCEPT ![p] = IF r.quantity = product[p].quantity THEN @
                                   ELSE Stock(r) + Units(p)]
    /\ UNCHANGED <<cart, row, returned>>
    /\ Updates(p, Loaded(p)')

(* A dto leaves out the keys it does not change. *)
UpdateProductInventory(p) ==
    /\ p \in OnSale
    /\ \E q \in Quantities \cup {product[p].quantity}, inStock \in BOOLEAN :
          Restock(p, [product[p] EXCEPT !.quantity = q, !.inStock = inStock])

UpdateProductGeneral(p) ==
    /\ p \in OnSale
    /\ \E price \in Prices, q \in Quantities \cup {product[p].quantity}, inStock \in BOOLEAN :
          Restock(p, [product[p] EXCEPT !.price = price, !.quantity = q, !.inStock = inStock])

DeleteProduct(p) ==
    /\ p \in OnSale
    /\ product' = [product EXCEPT ![p].status = "DELETED"]
    /\ cache' = IF cache = None THEN None ELSE [cache EXCEPT ![p] = None]
    /\ owed' = [owed EXCEPT ![p] = 0]
    /\ UNCHANGED <<cart, row, returned>>

(* The pairs are set; SINGLE sets pairs and quantity to zero, before or     *)
(* after, as the keys of the dto come.                                     *)
PairEdits(r, n) ==
    {[r EXCEPT !.pair = n]} \cup {[r EXCEPT !.pair = m, !.quantity = 0] : m \in {n, 0}}

(* The entity that updatePairQuantity saves. *)
Taken(p) == IF OrEmpty[p] = None THEN Loaded(p) ELSE OrEmpty[p]

(* Every column and every line of the entity is saved.  The list is not     *)
(* written: the update names the product's id as the key.                  *)
UpdatePairQuantity(p) ==
    LET e == Taken(p) IN
    /\ e.row.status = "ON_SALE"
    /\ \A u \in Users : \A i \in Has(u, p) : e.lines[u][i] # None
    /\ row' = [u \in Users |-> [row[u] EXCEPT ![p] = e.lines[u]]]
    /\ \E n \in Pairs : \E r \in PairEdits(e.row, n) :
          /\ product' = [product EXCEPT ![p] = r]
          /\ owed' = [owed EXCEPT ![p] = Stock(r) + Units(p)']
    /\ returned' = returned \cup
          {u \in Users : \E i \in LineIds \ Has(u, p) : e.lines[u][i] # None}
    /\ UNCHANGED <<cart, cache>>

-----------------------------------------------------------------------------
(* getAllProducts, when the list is missing or empty. *)
GetAllProducts ==
    /\ \A p \in Products : OrEmpty[p] = None
    /\ cache' = [p \in Products |-> IF p \in OnSale THEN Loaded(p) ELSE None]
    /\ UNCHANGED <<product, cart, row, owed, returned>>

(* The key outlives its ttl. *)
CacheExpires ==
    /\ cache # None
    /\ cache' = None
    /\ UNCHANGED <<product, cart, row, owed, returned>>

CartHandler(u, p) ==
    \/ AddToCart(u, p) \/ RemoveProductFromCart(u, p)
    \/ UpdateCartQuantity(u, p) \/ UpdateCartQuantityDecrease(u, p)

ProductHandler(p) ==
    \/ CreateProduct(p) \/ UpdateProductInventory(p) \/ UpdateProductGeneral(p)
    \/ DeleteProduct(p) \/ UpdatePairQuantity(p)

Handler ==
    \/ \E u \in Users, p \in Products : CartHandler(u, p)
    \/ \E p \in Products : ProductHandler(p)
    \/ GetAllProducts

Bounded ==
    \A p \in Products :
        /\ Stock(product[p]) \in MinUnits .. MaxUnits
        /\ \A u \in Users : \A i \in Has(u, p) :
              /\ row[u][p][i].quantity \in MinUnits .. MaxUnits
              /\ row[u][p][i].price \in MinPrice .. MaxPrice

Next == (Handler /\ Bounded') \/ CacheExpires

Spec == Init /\ [][Next]_vars

-----------------------------------------------------------------------------
TypeOK ==
    /\ product \in [Products -> Product]
    /\ cart \in [Users -> [products : SUBSET Products, subTotal : Int]]
    /\ row \in [Users -> [Products -> [LineIds -> LineRow \cup {None}]]]
    /\ cache \in [Products -> Entry \cup {None}] \cup {None}
    /\ owed \in [Products -> Int]
    /\ returned \subseteq Users

(* Until a pair edit puts a removed line back into the cart: each product  *)
(* of the cart has one line, the sub_total a user sees is the sum of the   *)
(* prices on them, through price edits between the additions and through   *)
(* handlers that failed half-way on a deleted product, and a line outside  *)
(* the cart is one of those.                                               *)
CartTotals ==
    \A u \in Users \ returned :
        LET lines == ViewCart(u).lines
            mine  == {x \in DOMAIN lines : x[1] \in cart[u].products}
        IN  /\ \A p \in cart[u].products : \E i \in LineIds :
                   {x \in mine : x[1] = p} = {<<p, i>>}
            /\ ViewCart(u).subTotal = Total([x \in mine |-> lines[x].price])
            /\ \A x \in DOMAIN lines \ mine : product[x[1]].status = "DELETED"

(* No sequence of cart operations makes a unit of a product on sale        *)
(* disappear: what is in stock, in pairs and in carts is never less than   *)
(* what the last edit of the quantity or of the pairs left there.  It can  *)
(* be more: the stock is clamped at zero while the carts count on.         *)
UnitsNeverVanish == \A p \in OnSale : Stock(product[p]) + Units(p) >= owed[p]

(* The lines on which the list and the table differ. *)
Behind(p) ==
    {x \in Users \X LineIds : OrEmpty[p].lines[x[1]][x[2]] # row[x[1]][p][x[2]]}

(* What the list has of a product is a product on sale and its lines, but  *)
(* for one: the line that a removal has just taken, or that an addition    *)
(* has just made.  So a pair edit, however old the list, puts back one     *)
(* line at most and never one with an older quantity or price.             *)
ListLagsOneLine ==
    \A p \in Products : OrEmpty[p] # None =>
        /\ p \in OnSale
        /\ \A x, y \in Behind(p) : x = y
        /\ \A x \in Behind(p) : None \in {OrEmpty[p].lines[x[1]][x[2]], row[x[1]][p][x[2]]}

(* 'Removed product from your cart': what is on sale and shown in a cart   *)
(* is among the cart's products.                                           *)
RemovedIsGone ==
    \A u \in Users : \A x \in Shown(u) : x[1] \in OnSale => x[1] \in cart[u].products

-----------------------------------------------------------------------------
(* The inductive invariant, cart by cart and product by product. *)
Mine(u) == {x \in Shown(u) : x[1] \in cart[u].products}

PricesOf(u) == [x \in Mine(u) |-> row[u][x[1]][x[2]].price]

CartOK(u) ==
    /\ \A p \in cart[u].products : \E i \in LineIds : Has(u, p) = {i}
    /\ cart[u].subTotal = Total(PricesOf(u))
    /\ \A p \in Products \ cart[u].products :
          Has(u, p) # {} => product[p].status = "DELETED"

UnitsOK(p) == p \in OnSale => Stock(product[p]) + Units(p) >= owed[p]

(* An id nobody has created has no line and is not answered for. *)
UncreatedOK(p) ==
    product[p].status = "absent" => owed[p] = 0 /\ \A u \in Users : Has(u, p) = {}

ShopInv ==
    /\ TypeOK /\ ListLagsOneLine
    /\ \A u \in Users \ returned : CartOK(u)
    /\ \A p \in Products : UnitsOK(p) /\ UncreatedOK(p)
=============================================================================
