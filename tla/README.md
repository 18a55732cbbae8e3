# Verification of the Jivah Collections backend

The repository is a NestJS service over PostgreSQL (TypeORM) and Redis: accounts
and sessions, roles and permissions, a product catalogue and carts. This directory
holds TLA+ models of its core, TLC configurations that check them on small
instances, and TLAPS proofs. Paths below are relative to the repository.

## 1. The system

One Node process serves every request. There is no database transaction around a
handler: each `await` on a repository, the cache or the mailer lets the steps of other
requests in, and a failing query leaves what the handler wrote before it. Nothing runs
in the background and nothing is retried; the only time-driven events are expiries (JWTs, OTPs, the
cached list). So the hard behaviours are interleavings at awaits, values
read before an await and used after it, and handlers that stop half-way.

| Component | State it keeps | Operations | Interacts with | Correct when |
|---|---|---|---|---|
| tokens (`src/modules/tokens`) | `users.tokens`: type, owner, parent, `isActive`, a JWT that expires | generate, verify, refresh, deactivate one or all | auth and the guard call it | access tokens hang from refresh tokens of the same user; what is closed stays closed; few access tokens per session |
| auth (`src/modules/auth`) | `users.users` rows it creates | register, login, firebase login, refresh, logout, logoutAll | tokens, users, login-logs, mailer | a blocked user opens no session; an answered logout has logged out |
| guards (`src/modules/auth/guards`) | none | verify the token and load the user; match permissions | tokens, mappers | as tokens; a route is open to whoever holds its permission |
| otp, reset-password, password handlers of users | `users.otps`, `users.reset-passwords`, the password column | request, verify, reset, change | mailer | an OTP and a reset token are used once, by their owner, in time; only the newest OTP works |
| users, roles, permissions | profile columns, status, `users-roles`, `users-permissions`, `roles-permissions` | create, update, delete (a status), add and remove permissions, lists | auth reads the status, the guard the grants | a merge adds or removes what it was asked to, nothing else |
| product and cart (`src/modules/product`, `cart`) | `product_general`, `cart`, `cart_product` (join), `cart_product_link` (lines) | create, edit, delete, list, add to cart, remove, increase, decrease, view | caching | totals agree with lines; stock is not lost; the list shows what is on sale |
| caching | one Redis key: the list of products | get, set, update, delete | product handlers | the list agrees with the table |
| login-logs, payment | one insert each | create, list | auth | - |
| mailer, cloudinary, firebase | none | output and SDK calls | auth, users, product | - |
| pagination helpers, search | none | page a list, similarity of strings | lists | a reader of pages misses and repeats nothing but what edits moved |
| seeds | roles, permissions, an administrator | run | - | a second run changes nothing |
| config, templates, DTOs, filters | none | wiring and formatting | - | - |

`PROJECT.json` lists each of them with its status, and the hazards at their lines.

## 2. The modules

### Tokens.tla - sessions

A token row is `row[t]` (type, owner, parent; written once), a member of `live`
(`isActive`) and perhaps of `expired`. `status` is the users table as far as sessions
see it. A request sits in one of `Slots`: `req[s]` has its handler (`op`), the query it
runs next (`pc`) and the locals it carries across awaits (`user`, `tok`, `ref`). Every
awaited query that reads or writes these tables is one action; the code between two
awaits goes with the action before it.

| Action | Code |
|---|---|
| `BeginLogin`, `FindUser`, `CreateUser` | `login`, `register`, `loginWithFirebase` up to the tokens (auth.service.ts) |
| `InsertRefresh`, `InsertAccess` | `generateRefreshToken`, `generateAccessToken` (token.service.ts) |
| `BeginRefresh`, `VerifyRefresh`, `KillSiblings`, `InsertAccess` | `refreshAccessToken` |
| `RejectRefresh` | the catch of `verifyRefreshToken`, then the catch of the handler that called it |
| `BeginGuarded`, `VerifyAccess`, `RejectAccess` | `JwtAuthGuard.canActivate` |
| `FindAccess`, `FindParent`, `VerifyRefresh`, `KillRefresh`, `KillChildren` | `logout` and `deactivateRefreshToken` |
| `KillAll` | `deactivateAllRefreshTokens` |
| `QueryFails` | any query rejects; `AfterFault` says which catch takes over |
| `Expire`, `SetStatus` | JWT expiry; `deleteUser`, or a status set by hand in the row (no dto declares one) |

A client presents any token string the server has issued, also an access token where a
refresh token belongs. Passwords, signatures, mails and the login log are left out:
they come before the first or after the last query that matters here.

### Sessions.tla and TokensRefinement.tla - what the tokens implement

`Sessions` is the service without queries: a registry of sessions, each with at most
one access token, opened, refreshed, closed. It has one concession to the code: a
session can be *stranded*, no longer refreshable although its access token works. That
is what is left when a refresh token is rejected (it expired, or a query failed), since
the catch blocks deactivate the refresh row and not its children.
`TokensRefinement` maps the tables to the registry. With one request at a time the
mapping is a refinement, failures included (`Refinement` in `TokensProofs`). With two it is not, and the bounds and
action properties of `Tokens` say what is left of it.

### PasswordReset.tla - OTPs, reset tokens, passwords

Rows of the two tables, the sets of active ones, a clock in minutes, the password
column, and requests in slots as above. `granted` and `written` are history variables
that count what an OTP and a reset token have been good for; the `otp` column of a
reset token is history too. A lookup that precedes a handler's first write is one step
with the request's arrival.

### Accounts.tla - users, roles, permissions

The rows of users with what they hold (`account`), of roles (`role`), the active flag of
permissions (`permission`), and edits in slots. TypeORM decides what an edit writes. A
handler loads an entity with its eager relations, changes it and calls `save`, which
compares the entity with the row of that moment and writes every difference: the row
becomes what was loaded, plus the edit. `users-roles` and `users-permissions` cascade
(users.entity.ts:65, 80), so the save writes back the role's flag as loaded, the role's
permission list if it was loaded, and the flags of loaded permissions. An entity made of
an id alone (`new PermissionEntity({ id })`) writes no column.

| Action | Code |
|---|---|
| `LoadForCreate` | `createUser`, `register`, `loginWithFirebase`: the role loaded `relations: ['permissions']` |
| `LoadForUpdate` | `updateUser`; also the cart handlers, which save the user's cart and the user with it |
| `LoadForDelete`, `LoadForChange` | `deleteUser`, `changePassword` |
| `LoadForGrant`, `LoadForRevoke`, `ReadRoles` | `addPermissions`, `removePermissions`, with the queries of `toDtoPermRoles` |
| `SaveAccount` | the save of all of them, cascade included; the unique columns refuse a second insert |
| `LoadForRoleUpdate`, `LoadForRoleGrant`, `LoadForRoleRevoke`, `ReadRole`, `SaveRole` | `updateRole`, `addPermissions`, `removePermissions` of roles |
| `ResetPassword` | the column update at the end of `resetPassword` |
| `CreatePermission`, `UpdatePermission` | permissions.service.ts |
| `QueryFails` | any query rejects |

`Allowed` is what `PermissionsGuard.matchPermissions` lets through. `settled`,
`revoked` and `switched` are history: what an edit with no other edit of the same row in
flight has established (a deletion, a password, permissions taken away, a permission
switched on or off), until someone asks for the contrary. Overlapping edits do undo each other, and settle nothing; the properties say
that this is the only way to lose an edit. A list of permissions to add starts from the
active ones, so adding one drops those switched off at the moment (`Merged(Active(..))`).

The profile, names and slugs are left out, and the statuses other than active and
deleted: no handler sets them through a declared field of a dto. (`Tokens` allows them,
since the login and the strategy test for them and a row can be edited by hand.) Users get
roles at creation only: `UserMapper.addRoles` and `removeRoles` have no caller.
The role's lists are read by one step although the seeded administrator, who has several roles, takes
one query each, all issued together.

### Catalogue.tla - the product rows and the cached list, query by query

`product` is the table, `cart` the products joined to each user's cart, `cache` the list
under the one Redis key. A request in a slot has its handler (`op`), the query it makes
next (`at`) and what it holds: the rows of the cart as loaded (`rows`), the product as
loaded (`held`) and as loaded again after the write (`fresh`), and the list it will set
(`list`). Copies are values: an entity is not shared between requests, and the list is
JSON in Redis, so every `get` makes a new one.

| Action | Code |
|---|---|
| `ReadForCreate`, `SaveNew`, `SetList` | `createProduct` |
| `LoadForEdit`, `SaveEdit`, `GetForUpdate`, `SetList` | `updateProductGeneral`, `updateProductInventory` (without a price), `CacheService.update` |
| `LoadForDelete`, `UpdateStatus`, `ReadForDelete`, `GetForDelete`, `SetList` | `deleteProduct`, `CacheService.delete` |
| `LoadCart`, `LoadForCart`, `SaveCart`, `UpdateStock`, `Refetch`, `ReadForShow`, `GetForUpdate`, `SetList` | `addToCart`, `removeProductFromCart`, `updateCartQuantity`, `updateCartQuantityDecrease` |
| `ReadForPair`, `LoadForPair`, `SavePair`, `SaveRefused` | `updatePairQuantity`, up to its update of the list, which names the product's id as the key and finds nothing |
| `ReadForList`, `FindAll`, `SetList` | `getAllProducts` when the list is missing or empty |
| `CacheExpires`, `QueryFails` | the key expires; a query of the tables or of Redis is rejected |

`save` of a loaded entity makes the row what was loaded, plus the edit. The products of a
cart cascade (cart.entity.ts:26): `Written` is what a cart save writes to the rows of
all its products. `update` writes only the columns it names. A `find` that meets a null
in the list throws, and so does `product.id` of a null; a handler that throws leaves what
it wrote.

History: `alone` is the one request that nothing has overlapped so far; when it answers,
`settled[p]` remembers the status and the price an edit left and `counted[p]` the units a
cart handler or a pair edit left, until the next request of that kind for that product
arrives. `disturbed` says what happened since the key was last absent with no request in
flight: an overlap, a failed query, a pair edit.

Left out: the lines of a cart, which are in `Shop`. What is left of them here is that a save can be refused (`SaveRefused`):
an entity that lacks a line which its product has by now would leave that line without a product, which the column does not allow,
and the handler throws. With nothing overlapping only `updatePairQuantity` meets this, since only it saves an
entity it has not loaded. What overlapping requests do to lines and totals is in neither module.
Products are counted in pairs (`in_stock` is false, as `createProduct` leaves units): the other
column is handled by the same expressions, and `Shop` has both. A reply, too, except what
`getAllProducts` shows (`Page`) and `getProductById` finds (`Listed`).

### Shop.tla - carts, lines and stock

One request at a time, an action per handler of product.service.ts that writes: rows,
carts with their totals, lines (`row[u][p][i]`, the row `i` of `cart_product_link` for p in u's cart) and
the cached list. The stock rules (`TakeOne`, `ReturnOne`, `ReturnMany`) are operators. Handlers that fail on
a null in the middle do so here, on a deleted product; the quantity handlers also fail after their writes when the list is not there
(`ShowsIfListed`).

| Action | Code |
|---|---|
| `AddToCart`, `RemoveProductFromCart`, `UpdateCartQuantity`, `UpdateCartQuantityDecrease` | the handlers of those names |
| `CreateProduct`, `UpdateProductGeneral`, `UpdateProductInventory`, `DeleteProduct`, `UpdatePairQuantity` | the same |
| `GetAllProducts` | the refill of a missing or empty list |
| `CacheExpires` | the key expires |

A loaded product comes with its lines (product-general.entity.ts:82, eager), so an entry of the list has them too
(`Entry`), and saving a product saves its lines (cascade): one that the table does not have any more is inserted again.
`updatePairQuantity` saves the entry of the list (`Taken`), which need not show the lines of the moment:
`removeProductFromCart` lists the product while its line is still there and removes the line afterwards, and
`addToCart` pushes the product as it was before the line came. The first brings a removed line back (see the findings), the
second refuses the pair edit, since TypeORM would take the product from the line. How stale the list can be, and
so what else a pair edit could do, is `ListLagsOneLine`. New lines have new ids (`Unused`); an id that
neither the table nor the list has can be used again in the model, since nothing tells it from a new one.

History: `owed`, the units the shop answers for since the quantity or the pairs were last edited; `returned`, the carts to which
a pair edit has brought a line back, of which `CartTotals` says nothing more. Quantities and pairs are any numbers an
administrator types, below zero too. `UpdateProductInventory` writes the keys its dto declares
that matter here; `toUpdateEntity` would copy others too. `Total` states a sum by counting, so that it can be proved
about; `MCShop` has TLC compare it with the library's sum (`TotalIsTheSum`).

### Listing.tla - pages and searches

One reader goes through one list, page after page, while others change it: the products
(`GetAllProducts`, cut from the cached list), the users (`GetUsers`, a page of the table
of which those of one status are kept) or the permissions (`GetPermissions`, a page of the table; the
login logs are paged the same way). `PaginationParams`, `Filtered`,
`LevenshteinDistance` and the three listings are operators on the table, the list and
the question; `FirstPage` and `NextPage` apply them, and `CreateRow`, `EditRow`, `DeleteRow`,
`PushEntry` (a cart handler) and `CacheExpires` are what the writers do to the list. The
history in `walk` counts the rows that edits put between the others (`gained`) or took out
of the pages (`lost`), and remembers who was there all along (`stay`). What a reader wants
(`Wanted`) is stated apart from the code's filter: a name at most one letter away (`Near`),
where the code computes a matrix (`AlmostMatches`). `MatchesAreNear` says that the two come to the
same; it is a fact about words, not about a step, and `MCListing` has TLC evaluate it
(`WordsMatchWhenNear`) for words of 7 to 16 letters with a letter lost, changed or added at the
ends and in between.

`Found` is the sequence that pages are cut from, `Listed` the rows it is filtered from and
`Visible` those that answer the question. `RepeatInv` and `MissInv`, together `WalkInv`, keep the
books of a walk: at the cut between the pages read and those to come (`Passed`), rows shown
that now stand ahead of it, and rows behind it that were never shown, are each paid for by an edit.
`Array.prototype.filter` is in `Filters.tla` (`Selected`), which `Catalogue` uses too: the places
that are kept, in ascending order, by their rank and without recursion.

| Action | Code |
|---|---|
| `FirstPage`, `NextPage` | `getAllProducts`, `getUsers`, `getPermissions` behind `PaginationParams`; `Lists` is the refill from the table, in whatever order PostgreSQL answers |
| `CreateRow` | `createProduct`; a registration; `createPermission` |
| `EditRow` | the updates of a product (in place in the list, `CacheService.update`), a user, a permission |
| `DeleteRow` | `deleteProduct` and `CacheService.delete`; `deleteUser` |
| `PushEntry` | the push of `addToCart` and `removeProductFromCart` |
| `CacheExpires` | the key expires |

The rows of users and of permissions are presumed to be read in the order of their creation, page after page. The code asks for an order only when the
client does (`orderBy`, pagination-params.decorator.ts:14, 33-35); without it PostgreSQL may answer each page in another order, and
`NothingMissed` and `NothingRepeated` say nothing of that.

Left out: a page below 1 (`skip=0` is page 0 and answers nothing), wildcards in a
search, and `getRoles`, whose `ILIKE` on an enum column PostgreSQL refuses. The reader
of products follows `totalPages`; the reader of users goes to the end of the table, since
`getUsers` counts the users of one page and never announces a second.

`MCTokens`, `MCPasswordReset`, `MCAccounts`, `MCShop`, `MCCatalogue` add symmetry for TLC, `MCListing` words. Operators commented
*Mutant* are wrong variants of the operator below them, used to test the properties.

## 3. The runs

| Run | Instance | Question | Result |
|---|---|---|---|
| tokens_faults | 1 user, 4 tokens, 2 requests, 1 failing query, blocking | types, families, the inductive invariant; access tokens per session; closed sessions stay closed; a blocked user opens none; what an answered logout has done | holds, 217 000 states |
| tokens_sequential | 2 users, 3 tokens, 1 request, 1 failing query, expiry, fairness | refinement of `Sessions`; a logout past its first update finishes, unless one more query fails | holds, 237 000 states |
| reset_race | 1 user, 3 OTPs, 2 reset tokens, 2 requests, 1 failing query | active OTPs of a user, the newest one and older ones; uses of an OTP and of a reset token; the chain OTP - token - password; the inductive invariant of all of them | holds, 636 000 states |
| reset_expiry | 1 OTP, minutes 0 and 31 | the OTP expires when the mail says | violated, see findings |
| accounts_race | 1 user, 1 role, 1 permission, 2 passwords, 2 edits | what an edit that nothing overlapped has settled stays, flags of permissions included; the two inductive invariants | holds, 284 000 states |
| accounts_password | the same | a password changes only on request | violated, see findings |
| listing_walk | up to 3 rows, 2 names, 5 searches, pages of 1 and 2, 3 changes, expiry | what a reader of pages misses, sees twice, or did not ask for; the inductive invariant of the first two | holds, 2.2 million states |
| shop_carts | 1 cart, 1 product, 2 line ids, 2 prices, units from -1 to 2, price, stock and pair edits, deletion, expiry | totals against lines; no unit is lost; the lines in the list against the table; the inductive invariant | holds, 1.1 million states |
| shop_removed | 1 cart, 1 product | what is on sale and shown in a cart is one of its products | violated, see findings |
| catalogue_race | 1 product, 2 prices, 1 unit, 1 cart, 2 requests, expiry | edits and counts that nothing overlapped stay, in the row and in the list; a null in the list needs an overlap; the inductive invariant of the three | holds, 3.1 million states |
| catalogue_quiet | 2 products, 2 prices, units from -1 to 1, 1 request, 1 failing query, expiry | the cached list against the table, with the inductive invariant | holds, 1.8 million states |
| catalogue_listing | 2 products, 1 request, expiry | the list shows every product on sale | violated, see findings |

Bounds, and why they are enough. Three tokens are a session and two access tokens, the
least that lets a refresh replace one; four, in tokens_faults, let two racing refreshes both insert, or
two sessions coexist. JWTs expire in tokens_sequential only; an expired
token is rejected like one that is not active. Two requests are the least that interleave, and no handler takes part
in more than a pairwise race: the code shared between handlers is a row read in
one query and written in another. One failing query reaches every catch; a second would have to
hit a catch block, which only repeats its update. The instants of the reset runs lie on both sides of the two validities (5 minutes; 900
minutes, which is what the code makes of 30). `Shop` bounds the stock of a
product and the units and the price on a line from both sides (`MinUnits` to `MaxUnits`, `MinPrice` to `MaxPrice`): enough for a
line of two units, one at zero, one below, and a sold-out product. A price edit falls between two additions or
before a decrease, which is how a line of one unit gets a price that is not its product's. The second line id lets the product have
two lines in one cart, one brought back and one new. Two carts meet only in the stock, which
is a sum over lines, and in the list; with units from 0 to 1 and no edits of quantities the same properties hold for two carts (1.0 million states) and for two
products in one cart (1.4 million), too slow to keep all three, and section 4 proves them for any number of both. The proofs use none of these bounds. In
`Catalogue`, `MaxUnits` is the largest value of the column, past which an update fails, and `MaxList` the
longest list the store takes, past which a set fails: bounds that behave like failures the
handlers have anyway. Units go below zero in catalogue_quiet (an administrator types any number of pairs, and a decrease takes a line below zero), where `MinUnits` is -1; in catalogue_race it is 0.
One product and two requests make every pairwise race of a row and its entry; a
cart with two products is in catalogue_quiet, and with two products in two requests (one
price, no units) the properties of catalogue_race hold on 5 million states, too slow to keep.
Failing queries are in catalogue_quiet: a handler that fails is one that stops early. In `Accounts` one user, one role and two edits are enough for every pairwise
race, two edits of the user, two of the role, or one of each that meet in the cascade; two
passwords tell an old one from a new one. With two roles the run also holds (3.2
million states), too slow to keep. In `Listing` three rows and pages of one or two make a first, a
middle and a last page; the default limit is scaled to 1 and the maximum to 2, both reached by
the limits 0 and 3. Names of nine and eight letters lie on both sides of the length from which
88 % allows a typo; names up to 16 allow at most one (`ListingAssumption`). The two bounds on
what is missed and repeated are tight: each fails with one less, and each fails without
`mixed`, the reader whose cached list expired half-way. Nobody changes the list after the last page, a
bound of the model (`Reading`); deadlock is not checked there, since reader and changes
end. The theorems of section 4 lift the bounds of every property of a passing run but `ClosingCompletes`: the
number of users, ids, rows, prices, lists, words, edits, requests and faults, and the values of
the clock. The refinement keeps the one request of tokens_sequential.

Fairness. `FairSpec` asks weak fairness of each request in flight: Node runs the
continuation of every settled promise, and a query settles by answering or failing.
Arrivals, expiries and administrators have none.

Symmetry is used only in runs without liveness, not in tokens_sequential; no formula names an id or a slot.

### Findings

* `OtpExpiresAsMailed`: `OTPEntity.isValid` multiplies by 30 once too often
  (otp.entity.ts:37); the mail says 30 minutes (users.service.ts:398), the code
  accepts the OTP for 15 hours.
* `GetAllIsComplete`: `createProduct` caches a list of one product when no list is
  cached (product.service.ts:127-131), and `/products/all`, 'Get all products'
  (product.controller.ts:56), then shows that product alone until the key expires.
* `PasswordsChangeOnRequest`: an edit of a user (`updateUser`, `deleteUser`, the permission
  edits) that was loaded before a password reset saves the old password back
  (users.service.ts:302, 503; users.mapper.ts:126, 147), after 'Password reset
  successfully' (users.service.ts:472) was answered.
* `RemovedIsGone`: a pair edit saves the entry of the cached list (product.service.ts:520-528) with the lines it
  had when it was listed, and `removeProductFromCart` lists the product before it removes the line (486-497). The cascade
  (product-general.entity.ts:82) inserts the line again: after 'Removed product from your cart' (product.service.ts:499)
  the cart shows the product, its price is not in the total, and adding it again gives it two lines. One request at a
  time and nothing failing is enough.

Seen while modelling, and not kept as runs: `category` is validated in
a default value that is never taken (product.service.ts:178), and combines with
`search` by *or* (166); `skip` is documented as a number of records to skip
(pagination-request.interface.ts:8) and is divided into a page one too low
(pagination-params.decorator.ts:48), so skipping one page's worth answers the first page.

## 4. The proofs

`TokensProofs.tla` proves, for any finite sets of tokens and requests, any set of users and any
number of failing queries, from `TokensAssumption` alone:

| Theorem | States |
|---|---|
| `SessionInvariant` | `Spec => []SessionInv` |
| `TypeCorrect`, `Families`, `LiveAccessIsBounded` | `TypeOK`, `FamilyIntegrity`, `LiveAccessBound` always hold |
| `ClosedForGood`, `LogoutTellsTheTruth`, `BlockedOpensNothing` | the action properties `ClosedStaysClosed`, `LogoutIsTruthful`, `BlockedUserOpensNoSession` |

The argument. None of the invariants is inductive alone. A family is intact after an insert only
if the request's `user` and `ref` agree with the row they were read from, several
awaits ago; so `SessionInv` says for each query what the locals know of the rows
(`LocalsOK`), and that survives other requests because columns of a row never change and
a dead row never revives (`Advance`). The bound on live access tokens needs the
requests about to insert to be counted with the rows: `KillSiblings` may let many
requests pass while no row is live, and `Cardinality(LiveChildren(r)) +
Cardinality(Pending(r))` is what never exceeds the number of slots. The proof has a
lemma per concern (types, locals, rows, bound) with a step per action, and
`InitInv`/`NextInv` put them together. The action properties follow from the invariant
and from lemmas on what one step does to one slot.

The same module proves `Refinement`, from `TokensAssumption` and one slot: `Spec` implements
the registry (`ImplementsSessions`). Every query either takes one step of the registry
(`Opens`, `Grants`, `Retires`, `Strands` and the like say which, in terms of the mapped
variables) or changes nothing the registry sees. What only a lone request can rely on is
`SerialInv`: the refresh row it verified is still live when it acts on it, no child appears between
`KillSiblings` and the insert, and so no session has two live access tokens. The single slot
is the hypothesis of the theorem because the statement is false without it.

`AccountsProofs.tla` proves, for any users, roles, permissions, passwords and edits in
flight, from `AccountsAssumption` (ids of users and roles are distinct, and none is the null value):

| Theorem | States |
|---|---|
| `EditsSettled` | `Spec => []EditsInv` |
| `AccountsTyped`, `DeletedForGood`, `PasswordKept`, `RevokedOpensNothing` | `TypeOK`, `DeletedStaysDeleted`, `ChosenPasswordStays`, `RevokedIsRefused` always hold |
| `FlagsSettled`, `SwitchKept` | `FlagsInv`, and with it `SwitchStays`, always hold |

The argument. What the tables say of a settled edit is not inductive: an entity loaded
before it could undo it. `EditsInv` adds that no entity in memory disagrees with
`settled` and `revoked` either, roles hanging from users included (`LocalsOK`). A load
reads tables that agree, an edit in memory changes nothing settled unless its arrival
un-settled it, and a save settles something new only when no other request holds the row.
`Moves` covers every step that writes no table, `Ends` every save, and each load has a
lemma that its entity agrees. `FlagsInv` does the same for the flags of permissions: the
flags a request will write (`FlagsLoaded`) are those that are settled, since a switch settles nothing
while a request holds the permission.

`PasswordResetProofs.tla` proves, for any users, passwords, reset tokens, instants, validity and
faults, any finite set of OTP ids and any positive number of requests, from `ResetAssumption`:

| Theorem | States |
|---|---|
| `ResetInvariant` | `Spec => []ResetInv` |
| `TypeCorrect`, `ActiveOtpsAreBounded`, `OutdatedOtpsAreFewer` | `TypeOK`, `ActiveOtpBound`, `OnlyNewestOtpWorks` always hold |
| `OtpsAreSpent`, `KeysAreSpent`, `ChainHolds` | `OtpUseBound`, `KeyUseBound`, `ResetChain` always hold |

The argument is the counting one again: a request that has retired the OTPs and is about to save its own
counts as a row (`Saving`), so active rows and such requests are at most the slots; what
an OTP has bought plus the requests about to buy with it, likewise. `OnlyNewestOtpWorks` needs
more: while some OTP of a user is active, one that no newer OTP has replaced is, or the active ones and
the requests about to save another are together fewer than the slots (`Outnumbered`), so that one more
request would have to run beside them to reach the bound.

`CatalogueProofs.tla` and `CatalogueListProofs.tla` prove, for any
finite set of products, any users, prices, requests, faults, largest column value and longest
list, from `CatalogueAssumption`:

| Theorem | States |
|---|---|
| `CopiesInvariant` | `Spec => []CopiesInv` |
| `TypeCorrect`, `EditsAreKept`, `UnitsAreKept`, `NullsNeedOverlaps` | `TypeOK`, `EditsStay`, `UnitsStay`, `NullNeedsOverlap` always hold |
| `ListInvariant`, `ListIsTrue` | `ListInv`, and with it `ListAgrees`, always hold |

`CatalogueProofs` starts with the list operations, for lists of any length: where a search stops, what
it finds after a push, a merge and a filter (`FilterProofs`: a filter keeps the order and exactly the entries it selects). `CopiesInv` says of every copy of a row, in a
handler, in a loaded cart, in a list about to be set, that it agrees with `settled` and `counted`
(`CopiesOK`); a write then cannot undo what was settled, and an edit can settle only what no
copy contradicts, since it ran alone (`AloneOK`, `InFlightOK`). `UndisturbedOK` keeps nulls out: without
an overlap the product a cart handler found is on sale when it is loaded again.
`ListInv` is about the time in which nothing overlaps and nothing fails. At most one request runs then, so what
it holds is what the table holds (`HeldOK`, `FreshOK`), the list has one entry per product
and no null (`Tidy`), and an entry disagrees with its row only for the product whose write that
request has not yet carried to the list (`Changing`). A set that the store refuses as too long
leaves the old list in place, so `SetOK` asks that in this case the old list has no entry of that product.

`ShopProofs.tla` proves, for any finite sets of users, products and line ids, any prices and
counts, from `ShopAssumption`, and without using the bounds on units and prices:

| Theorem | States |
|---|---|
| `ShopInvariant` | `Spec => []ShopInv` |
| `TypeCorrect`, `CartsAddUp`, `UnitsAreKept`, `ListLagsBehind` | `TypeOK`, `CartTotals`, `UnitsNeverVanish`, `ListLagsOneLine` always hold |

`TotalSplit` and `TotalChange` say what a sum does when one term comes, goes or changes, which
is all a cart handler does to a cart or to the units of a product; they are proved by counting, without
induction. A pair edit writes every line of a product, and what makes it harmless but for one line is `ListLagsOneLine`:
the entry it saves differs from the table in one line at most, one that is missing on either side. If the table has
the line, the edit is refused; if the entry has it, the line comes back and its cart is in `returned`; so a cart outside
`returned` is left as it was. That the list lags by one line and no more rests on every handler:
each leaves the list as it was or sets the entry to the row and the lines as they are, but for the line that it is about to add or has just removed. `ShopInv` adds
that products nobody created have no line and are not answered for.

`ListingProofs.tla` proves, for any words, limits, tables and cached lists of any length and any
number of edits, from `ListingAssumption`:

| Theorem | States |
|---|---|
| `TypeCorrect` | `Spec => []TypeOK` |
| `ShownOnce` | `NothingRepeated` always holds |
| `PagesAccountedFor`, `NoneMissed` | `WalkInv` and `NothingMissed` always hold, if `Searched` |
| `PagesAnswer` | the action property `PagesAreToTheQuestion`, if `Searched` |

`Searched` is `route = "products" => MatchesAreNear`: nothing is assumed of users and permissions,
and of products that the code's edit distance finds the words a reader means. It is needed where a
theorem speaks of what a reader *wants*; that no row is shown twice holds whatever the filter lets
through. `Searched` is constant, and TLC finds it true for the words of `MCListing`.

The argument. Neither property is inductive: a row shown twice was first shown, then pushed over the
cut by a row put in front of it. `RepeatInv` counts the repeats there are and those there will be:
`Len(shown) - Cardinality(shown)` plus the rows shown and ahead of the cut never exceed `gained`. A
page moves rows from ahead to behind, and each that was shown before leaves the second count for the
first (`ShownAgain`, `NextKeeps`). An edit changes one row z, and the list without z keeps its order
(`Edited`, `EditedFound`). Counting the rows up to an element by rank gives what that does at the cut
(`Removed`, `Inserted`, `Unmoved`): a row that goes pulls one row at most over the cut, one that
comes pushes one at most, and one put at the end pushes none. `Shift` turns this into the two bounds.
A row that a cart pushes to the end could have been shown: that it was not is the other clause of
`RepeatInv`, a product that was shown and is active is in the list. `MissInv` is the dual: rows to be
seen, behind the cut and not shown, never exceed `lost`; the last page is read when the list ends
before the cut (`CeilIsEnough`), and then all there is stands behind it.

Only model-checked. `ClosingCompletes`: liveness under fairness and `ENABLED` are outside the
prover. `MatchesAreNear`: the edit distance is a fold over two words, and what a fold computes for
every input needs an induction the prover does not have. The three violations, which are
counterexamples.

## 5. What is left

Every invariant and action property of a passing run is a theorem. Open: overlapping requests that save a product's lines, for
which `Catalogue` would need the lines of `Shop`; the seeds, run against tables
that are in use, and an unconditional proof of `MatchesAreNear`.

Not modelled: mails, uploads, logs, payments (one insert nobody reads), formatting,
validation of single fields, configuration.
