------------------------------ MODULE Listing -------------------------------
(***************************************************************************)
(* Paged and searched lists (pagination-params.decorator.ts,               *)
(* pagination.helper.ts, product.service.ts, users.service.ts and the      *)
(* lists of permissions and login logs), read page by page while rows are  *)
(* added, edited and deleted.                                              *)
(*                                                                         *)
(* One list is read in a behaviour.  A row's id is its place in the table, *)
(* which is the order the reader of a table asks for (orderBy createdAt);  *)
(* the products come in the order of the cached list.  A word is a         *)
(* sequence of lower-case letters.                                         *)
(***************************************************************************)
EXTENDS Integers, SequencesExt, Filters

CONSTANTS
    Names,        \* words that rows are named
    Searches,     \* words that are searched for; <<>> is no search
    Words,        \* words that are compared, names and searches among them
    Limits,       \* limits a client asks for; 0 is none
    DefaultLimit, \* 10 in the code
    MaxAllowed,   \* 100 in the code
    MaxRows,      \* bound: rows of the table
    MaxEdits,     \* bound: changes of the list in a behaviour
    None          \* null value

ASSUME ListingAssumption ==
    /\ Names \cup Searches \subseteq Words /\ \A w \in Words : Len(w) <= 16
    /\ Limits \subseteq Nat
    /\ DefaultLimit \in 1 .. MaxAllowed /\ MaxAllowed \in Nat
    /\ MaxRows \in Nat \ {0} /\ MaxEdits \in Nat
    /\ None \notin Nat /\ None \notin Seq(Nat)

VARIABLES
    route, \* the list that is read
    table, \* its rows
    list,  \* ids in the cached list of products, None when it is not cached
    walk,  \* the reader: what is asked, what was shown, see FirstPage
    edits  \* changes so far

vars == <<route, table, list, walk, edits>>

Routes == {"products", "users", "permissions"}

Row == [name : Names, tagged : BOOLEAN, deleted : BOOLEAN]

(* tagged: in the category that is asked for. *)
RowsOf(r) == {x \in Row : /\ x.tagged => r = "products"
                          /\ x.deleted => r # "permissions"}

(* What a request asks of a route, apart from the page. *)
QueriesOf(r) ==
    {q \in [search : Searches, category : BOOLEAN, deleted : BOOLEAN] :
        /\ q.category => r = "products"
        /\ q.deleted => r = "users"}

Smaller(a, b) == IF a < b THEN a ELSE b
Larger(a, b) == IF a > b THEN a ELSE b

(* Mutant: Math.floor for Math.ceil. *)
Floor(n, d) == n \div d

Ceil(n, d) == (n + d - 1) \div d

-----------------------------------------------------------------------------
(* isAlmostMatch: at least 88 % similar by the Levenshtein distance, of    *)
(* which FoldLeft carries one row of the matrix to the next.               *)

MatrixRow(a, b, above, i) ==
    FoldLeft(LAMBDA row, j : Append(row,
                Min({above[j + 1] + 1, row[j] + 1,
                     above[j] + IF a[i] = b[j] THEN 0 ELSE 1})),
             <<i>>, [j \in 1 .. Len(b) |-> j])

LevenshteinDistance(a, b) ==
    Last(FoldLeft(LAMBDA above, i : MatrixRow(a, b, above, i),
                  [j \in 1 .. Len(b) + 1 |-> j - 1], [i \in 1 .. Len(a) |-> i]))

IsAlmostMatch(a, b) ==
    100 * LevenshteinDistance(a, b) <= 12 * Larger(Len(a), Len(b))

(* Constant, so that TLC computes the matrices once. *)
AlmostMatches == UNION {{a} \X {b \in Words : IsAlmostMatch(a, b)} : a \in Words}

(* Mutant: without a search every category is shown. *)
AnyCategory(x, q) ==
    \/ q.search = <<>>
    \/ q.search # <<>> /\ (x.name = q.search \/ <<x.name, q.search>> \in AlmostMatches)
    \/ q.category /\ x.tagged

(* A search or a category is enough. *)
Filtered(x, q) ==
    \/ q.search = <<>> /\ ~q.category
    \/ q.search # <<>> /\ (x.name = q.search \/ <<x.name, q.search>> \in AlmostMatches)
    \/ q.category /\ x.tagged

(* ILIKE %search%, on every row of the table. *)
LikeMatches == UNION {{n} \X (Searches \cap SubSeqs(n)) : n \in Names}

Like(x, q) == <<x.name, q.search>> \in LikeMatches

-----------------------------------------------------------------------------
(* Pages.                                                                  *)

OrDefault(limit) == IF limit > 0 THEN limit ELSE DefaultLimit

PageSize(limit) == Smaller(OrDefault(limit), MaxAllowed)

(* skip, when it is given, is turned into a page by the limit before that  *)
(* is cut to the maximum: to skip one page's worth is to ask for page 1.   *)
PaginationParams(ask) ==
    [page |-> IF ask.skip # None THEN ask.skip \div OrDefault(ask.limit)
              ELSE IF ask.page # None THEN ask.page ELSE 1,
     limit |-> PageSize(ask.limit)]

(* The ways to ask for page k. *)
Asks(k, limit) ==
    {[page |-> k, skip |-> None, limit |-> limit],
     [page |-> None, skip |-> k * OrDefault(limit), limit |-> limit]}
    \cup {[page |-> None, skip |-> None, limit |-> limit] : one \in {k} \cap {1}}

(* Array.prototype.slice from a start that is not negative. *)
Slice(s, start, end) == SubSeq(s, start + 1, Smaller(end, Len(s)))

(* Mutant: the end of the page is included. *)
LongPage(s, p) == Slice(s, (p.page - 1) * p.limit, p.page * p.limit + 1)

Page(s, p) == Slice(s, (p.page - 1) * p.limit, p.page * p.limit)

Answer(items, matching, p) == [items |-> items, totalPages |-> Ceil(matching, p.limit)]

(* t is the table and l the cached list. *)
FilterProducts(t, l, q) == Selected(l, {i \in DOMAIN l : Filtered(t[l[i]], q)})

(* Mutant: the page is cut before the filter. *)
CutFirst(t, l, q, p) ==
    LET found == FilterProducts(t, l, q) IN
    Answer(FilterProducts(t, Page(l, p), q), Len(found), p)

GetAllProducts(t, l, q, p) ==
    LET found == FilterProducts(t, l, q) IN
    Answer(Page(found, p), Len(found), p)

Matching(t, q) == Selected([id \in DOMAIN t |-> id], {id \in DOMAIN t : Like(t[id], q)})

(* handlePaginate: a page of the matching rows, and how many there are. *)
HandlePaginate(t, q, p) == Answer(Page(Matching(t, q), p), Len(Matching(t, q)), p)

(* The status is looked at on the page, and the totals are those of the    *)
(* page.                                                                   *)
GetUsers(t, q, p) ==
    LET page == HandlePaginate(t, q, p).items
        items == Selected(page, {i \in DOMAIN page : t[page[i]].deleted = q.deleted})
    IN  Answer(items, Len(items), p)

GetPermissions(t, q, p) == HandlePaginate(t, q, p)

Reply(l, q, p) ==
    CASE route = "products" -> GetAllProducts(table, l, q, p)
      [] route = "users" -> GetUsers(table, q, p)
      [] route = "permissions" -> GetPermissions(table, q, p)

(* The pages there are: the totals say it, except those of getUsers. *)
LastPage(l, q, p) ==
    IF route = "users" THEN Ceil(Len(Matching(table, q)), p.limit)
    ELSE Reply(l, q, p).totalPages

-----------------------------------------------------------------------------
(* What a reader looks for, stated without the code's filter: a product    *)
(* whose name is the search or, from nine letters on, one letter away.     *)

OneTypo(a, b) ==
    \/ \E i \in DOMAIN a : RemoveAt(a, i) = b
    \/ \E i \in DOMAIN b : RemoveAt(b, i) = a
    \/ Len(a) = Len(b) /\ \E i \in DOMAIN a : a = [b EXCEPT ![i] = a[i]]

Near ==
    UNION {{a} \X {b \in Words :
                      a = b \/ (Larger(Len(a), Len(b)) > 8 /\ OneTypo(a, b))} : a \in Words}

(* What the code takes for almost the word searched for is one typo away.  *)
(* The theorems on searches assume it, MCListing checks it for some words. *)
MatchesAreNear ==
    \A a, b \in Words : (a = b \/ <<a, b>> \in AlmostMatches) <=> <<a, b>> \in Near

Wanted(r, x, q) ==
    IF r = "products"
    THEN \/ q.search # <<>> /\ <<x.name, q.search>> \in Near
         \/ q.category /\ x.tagged
         \/ q.search = <<>> /\ ~q.category
    ELSE Like(x, q) /\ (r = "users" => x.deleted = q.deleted)

(* The rows that pages are cut from, and those that answer the question. *)
Found(r, t, l, q) ==
    IF r # "products" THEN Matching(t, q)
    ELSE IF l = None THEN <<>>
    ELSE FilterProducts(t, l, q)

Listed(r, t, l) ==
    IF r # "products" THEN DOMAIN t
    ELSE IF l = None THEN {}
    ELSE ToSet(l)

Visible(r, t, l, q) == {id \in Listed(r, t, l) : Wanted(r, t[id], q)}

-----------------------------------------------------------------------------
(* The reader.  stay, gained, lost and mixed are history: the rows to be   *)
(* seen all along, the rows that edits put between others or took away,    *)
(* and whether the cached list was made anew.                              *)

Live == {id \in DOMAIN table : ~table[id].deleted}

(* The list a listing pages over: read from the table, which gives no      *)
(* order, when it is not cached or empty.                                  *)
Lists ==
    IF route # "products" THEN {list}
    ELSE IF list \in {None, <<>>} THEN SetToSeqs(Live) ELSE {list}

FirstPage ==
    /\ walk = None
    /\ \E q \in QueriesOf(route), limit \in Limits, l \in Lists :
       \E ask \in Asks(1, limit) :
          /\ list' = l
          /\ walk' = [query |-> q, limit |-> limit, next |-> 2,
                      last |-> LastPage(l, q, PaginationParams(ask)),
                      shown |-> Reply(l, q, PaginationParams(ask)).items,
                      stay |-> Visible(route, table, l, q),
                      gained |-> 0, lost |-> 0, mixed |-> FALSE]
    /\ UNCHANGED <<route, table, edits>>

NextPage ==
    /\ walk # None /\ walk.next <= walk.last
    /\ \E l \in Lists, ask \in Asks(walk.next, walk.limit) :
          /\ list' = l
          /\ walk' = [walk EXCEPT !.next = @ + 1,
                      !.last = LastPage(l, walk.query, PaginationParams(ask)),
                      !.shown = @ \o Reply(l, walk.query, PaginationParams(ask)).items,
                      !.mixed = @ \/ l # list]
    /\ UNCHANGED <<route, table, edits>>

-----------------------------------------------------------------------------
(* The writers.  Watch keeps the history; added are ids put at the end.    *)

(* Bound: nothing happens after the last page. *)
Reading == walk # None => walk.next <= walk.last

Watch(added) ==
    /\ Reading
    /\ edits < MaxEdits /\ edits' = edits + 1
    /\ IF walk = None THEN UNCHANGED walk
       ELSE LET before == ToSet(Found(route, table, list, walk.query))
                after == ToSet(Found(route, table', list', walk.query)) IN
            walk' = [walk EXCEPT
                !.stay = @ \cap Visible(route, table', list', walk.query),
                !.gained = @ + Cardinality(after \ (before \cup added)),
                !.lost = @ + Cardinality(before \ after)]
    /\ UNCHANGED route

Cached == IF list = None THEN <<>> ELSE list

(* A new product joins the cached list, or is the whole of it. *)
CreateRow ==
    /\ Len(table) < MaxRows
    /\ \E x \in RowsOf(route) : ~x.deleted /\ table' = Append(table, x)
    /\ list' = IF route = "products" THEN Append(Cached, Len(table')) ELSE list
    /\ Watch({Len(table')})

(* An edit keeps the place of a row, in the cached list too. *)
EditRow ==
    /\ \E id \in Live, x \in RowsOf(route) :
          ~x.deleted /\ table' = [table EXCEPT ![id] = x]
    /\ UNCHANGED list
    /\ Watch({})

(* Mutant: the row is taken from the list by its place. *)
DropPlace(l, id) == IF id \in DOMAIN l THEN RemoveAt(l, id) ELSE l

(* CacheService.delete *)
DropEntry(l, id) == Selected(l, {i \in DOMAIN l : l[i] # id})

DeleteRow ==
    /\ route # "permissions"
    /\ \E id \in Live :
          /\ table' = [table EXCEPT ![id].deleted = TRUE]
          /\ list' = IF list = None THEN list ELSE DropEntry(list, id)
    /\ Watch({})

(* A cart handler puts a product back that the list does not have. *)
PushEntry ==
    /\ route = "products"
    /\ \E id \in Live \ ToSet(Cached) :
          /\ list' = Append(Cached, id)
          /\ UNCHANGED table
          /\ Watch({id})

CacheExpires ==
    /\ Reading
    /\ list # None
    /\ list' = None
    /\ walk' = IF walk = None THEN walk ELSE [walk EXCEPT !.mixed = TRUE]
    /\ UNCHANGED <<route, table, edits>>

-----------------------------------------------------------------------------
Init ==
    /\ route \in Routes
    /\ table \in BoundedSeq(RowsOf(route), MaxRows - 1)
    /\ list = None
    /\ walk = None
    /\ edits = 0

Next == FirstPage \/ NextPage \/ CreateRow \/ EditRow \/ DeleteRow \/ PushEntry \/ CacheExpires

Spec == Init /\ [][Next]_vars

-----------------------------------------------------------------------------
Walks ==
    [query : QueriesOf(route), limit : Limits, next : Nat \ {0}, last : Nat,
     shown : Seq(DOMAIN table), stay : SUBSET DOMAIN table,
     gained : Nat, lost : Nat, mixed : BOOLEAN]

TypeOK ==
    /\ route \in Routes
    /\ table \in Seq(RowsOf(route)) /\ Len(table) <= MaxRows
    /\ list # None => route = "products" /\ list \in Seq(Live) /\ IsInjective(list)
    /\ walk \in Walks \cup {None}
    /\ edits \in 0 .. MaxEdits

(* A reader who asks for one page after the other, by page or by skip and  *)
(* with any limit, meets every row that is there all along, but for one    *)
(* row per row that an edit took out of the pages meanwhile: without edits *)
(* nothing is missed, users behind a page of deleted ones included.        *)
NothingMissed ==
    ~Reading /\ ~walk.mixed =>
        Cardinality(walk.stay \ ToSet(walk.shown)) <= walk.lost

(* And meets no row twice, but for one per row that an edit put between    *)
(* the others: rows created, deleted or pushed by a cart repeat nothing.   *)
NothingRepeated ==
    walk # None /\ ~walk.mixed =>
        Len(walk.shown) - Cardinality(ToSet(walk.shown)) <= walk.gained

(* What the pages read so far amount to while rows come and go.  Behind    *)
(* are the rows that now stand where those pages were cut, ahead the rest. *)
Upto(s, n) == {s[i] : i \in {j \in DOMAIN s : j <= n}}

Passed == (walk.next - 1) * PageSize(walk.limit)

Behind == Upto(Found(route, table, list, walk.query), Passed)

Ahead == ToSet(Found(route, table, list, walk.query)) \ Behind

(* What was shown and is ahead will be shown again, and an edit has put a  *)
(* row in front of it.  A product that was shown is in the cached list     *)
(* while it lives: no cart puts it back.                                   *)
RepeatInv ==
    walk # None /\ ~walk.mixed =>
        /\ route = "products" => list # None /\ ToSet(walk.shown) \cap Live \subseteq ToSet(list)
        /\ Len(walk.shown) - Cardinality(ToSet(walk.shown))
               + Cardinality(ToSet(walk.shown) \cap Ahead) <= walk.gained

(* What is behind, not shown and to be seen has taken the place of a row   *)
(* that went; nothing is ahead when the pages are read.                    *)
MissInv ==
    walk # None /\ ~walk.mixed =>
        /\ walk.next > walk.last => Len(Found(route, table, list, walk.query)) <= Passed
        /\ walk.stay \subseteq Visible(route, table, list, walk.query)
        /\ Cardinality((walk.stay \ ToSet(walk.shown)) \cap Behind) <= walk.lost

(* The bookkeeping of pages that the two promises rest on: between any two *)
(* steps of a reader and the writers, the rows shown and still ahead and   *)
(* the rows behind and never shown are paid for by the edits so far.       *)
WalkInv == RepeatInv /\ MissInv

(* A page holds what was asked for at the moment it is cut: names at most  *)
(* a typo away from the search, the category, users of the status; and no  *)
(* more than the maximum of them.                                          *)
Answered ==
    walk' # None /\ (walk = None \/ walk'.shown # walk.shown) =>
        LET page == IF walk = None THEN walk'.shown
                    ELSE SubSeq(walk'.shown, Len(walk.shown) + 1, Len(walk'.shown)) IN
        /\ Len(page) <= MaxAllowed
        /\ \A id \in ToSet(page) : Wanted(route, table[id], walk'.query)

PagesAreToTheQuestion == [][Answered]_vars
=============================================================================
