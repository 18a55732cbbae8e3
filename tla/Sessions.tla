------------------------------ MODULE Sessions ------------------------------
(***************************************************************************)
(* What the token service promises, without queries: a registry of         *)
(* sessions, each with at most one access token.  A session can be         *)
(* refreshed until it is closed; closing takes its access token too.       *)
(* A stranded session can no longer be refreshed or logged out although    *)
(* its access token still works: what the service leaves of a session      *)
(* whose refresh token it rejects.                                         *)
(***************************************************************************)
CONSTANTS Ids,     \* session and access-token ids
          Owners   \* users

VARIABLES owner,   \* owner[r]: the user of session r, or {} before it exists
          usable,  \* sessions that can be refreshed
          access   \* access[r]: the access tokens of session r that work

svars == <<owner, usable, access>>

Open == {r \in Ids : owner[r] # {}}

SessionInit ==
    /\ owner = [r \in Ids |-> {}]
    /\ usable = {}
    /\ access = [r \in Ids |-> {}]

(* A login. *)
OpenSession(r, u) ==
    /\ r \notin Open
    /\ owner' = [owner EXCEPT ![r] = {u}]
    /\ usable' = usable \cup {r}
    /\ UNCHANGED access

(* The one access token of a session is replaced by way of none. *)
Grant(r, a) ==
    /\ r \in usable
    /\ access[r] = {}
    /\ \A q \in Ids : a \notin access[q]
    /\ access' = [access EXCEPT ![r] = {a}]
    /\ UNCHANGED <<owner, usable>>

Retire(r) ==
    /\ access[r] # {}
    /\ access' = [access EXCEPT ![r] = {}]
    /\ UNCHANGED <<owner, usable>>

(* One session, or every session of a user. *)
CloseSessions(S) ==
    /\ usable' = usable \ S
    /\ access' = [r \in Ids |-> IF r \in S THEN {} ELSE access[r]]
    /\ UNCHANGED owner

Strand(r) ==
    /\ r \in usable
    /\ usable' = usable \ {r}
    /\ UNCHANGED <<owner, access>>

SessionNext ==
    \/ \E r \in Ids, u \in Owners : OpenSession(r, u)
    \/ \E r, a \in Ids : Grant(r, a)
    \/ \E r \in Ids : Retire(r)
    \/ \E r \in Open : CloseSessions({r})
    \/ \E u \in Owners : CloseSessions({r \in Open : owner[r] = {u}})
    \/ \E r \in Ids : Strand(r)

SessionSpec == SessionInit /\ [][SessionNext]_svars
=============================================================================
