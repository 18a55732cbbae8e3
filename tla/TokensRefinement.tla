-------------------------- MODULE TokensRefinement --------------------------
(***************************************************************************)
(* With one request in flight at a time, Tokens implements Sessions,       *)
(* whatever fails, expires or is presented in the wrong place.  With two   *)
(* it does not: concurrent refreshes give a session two access tokens, and *)
(* a refresh that passed its check revives a session a logout closed.      *)
(***************************************************************************)
EXTENDS Tokens

(* deactivateRefreshToken closes a session with two updates; it counts as   *)
(* closed at the second.                                                   *)
Closing(r) == \E s \in Slots : At(s, "killChildren") /\ req[s].ref = r

RefreshRows == {r \in TokenIds : row[r].type = "refresh"}

SessionOwner == [r \in TokenIds |-> IF r \in RefreshRows THEN {row[r].user} ELSE {}]

Refreshable == {r \in RefreshRows : r \in live \/ Closing(r)}

AccessTokens == [r \in TokenIds |-> LiveChildren(r)]

Registry == INSTANCE Sessions WITH
    Ids    <- TokenIds,
    Owners <- Users,
    owner  <- SessionOwner,
    usable <- Refreshable,
    access <- AccessTokens

(* A client that calls one endpoint at a time sees the abstract registry:  *)
(* one access token per session, retired before it is replaced, never      *)
(* granted to a session that is closed or stranded.                        *)
ImplementsSessions == Registry!SessionSpec

(* A logout that has begun to close a session leaves nothing of it alive,  *)
(* unless one more query fails before it ends: once the refresh token is   *)
(* dead the access tokens follow.                                          *)
ClosingCompletes ==
    \A r \in TokenIds, k \in 0 .. MaxFaults :
        Closing(r) /\ faults = k ~> Closed(r) \/ faults > k
=============================================================================
