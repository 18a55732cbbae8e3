------------------------------- MODULE Tokens -------------------------------
(***************************************************************************)
(* Sessions of the backend: the rows of users.tokens and the requests that *)
(* write them (token.service.ts, auth.service.ts, jwt-auth.guard.ts).      *)
(*                                                                         *)
(* The server is one Node process and opens no database transaction, so    *)
(* every `await` lets the steps of other requests in.  A request occupies  *)
(* one of Slots and moves through its awaited queries one action at a      *)
(* time.  A session is a refresh row and its children, the access rows     *)
(* whose parentId is the refresh row's id.                                 *)
(***************************************************************************)
EXTENDS Naturals, FiniteSets

CONSTANTS
    Users,          \* people who can have a row in users.users
    TokenIds,       \* ids that rows of users.tokens can have (uuid v4)
    Slots,          \* requests that can be in flight at once
    AdminStatuses,  \* statuses an administrator sets while requests run
    MaxFaults,      \* bound: failing queries in a behaviour
    Expiry,         \* do JWTs expire while the system is observed?
    NoUser, NoToken \* null values

ASSUME TokensAssumption ==
    /\ IsFiniteSet(TokenIds) /\ IsFiniteSet(Slots)
    /\ NoUser \notin Users /\ NoToken \notin TokenIds
    /\ AdminStatuses \subseteq {"active", "blocked", "inactive", "deleted"}
    /\ MaxFaults \in Nat
    /\ Expiry \in BOOLEAN

VARIABLES
    row,      \* the columns of a token row that never change
    live,     \* ids of the rows whose isActive is true
    expired,  \* ids of the rows whose JWT has expired
    status,   \* users.users: "absent" or the status column
    req,      \* the request in each slot: its handler, next query and locals
    faults    \* queries that have failed

vars == <<row, live, expired, status, req, faults>>

-----------------------------------------------------------------------------
(* Rows and requests.                                                      *)

NoRow == [type |-> "none", user |-> NoUser, parent |-> NoToken]

Row == [type : {"none", "refresh", "access"},
        user : Users \cup {NoUser}, parent : TokenIds \cup {NoToken}]

Status == {"active", "blocked", "inactive", "deleted"}

Ops == {"none", "login", "firebase", "register", "refresh", "logout", "logoutAll"}

LoginOps == {"login", "firebase", "register"}

(* The query a request runs next. *)
Labels == {"idle", "findUser", "createUser", "insertRefresh", "insertAccess",
           "verifyRefresh", "verifyCatch", "handlerCatch", "killSiblings",
           "verifyAccess", "rejectAccess", "findAccess", "findParent",
           "killRefresh", "killChildren", "killAll"}

Request == [op : Ops, pc : Labels, user : Users \cup {NoUser},
            tok : TokenIds \cup {NoToken}, ref : TokenIds \cup {NoToken}]

Call(o, label, u, t, r) == [op |-> o, pc |-> label, user |-> u, tok |-> t, ref |-> r]

Idle == Call("none", "idle", NoUser, NoToken, NoToken)

Unused == {t \in TokenIds : row[t].type = "none"}

Children(r) == {a \in TokenIds : row[a].type = "access" /\ row[a].parent = r}

LiveChildren(r) == Children(r) \cap live

TokensOf(u) == {t \in TokenIds : row[t].type # "none" /\ row[t].user = u}

At(s, label) == req[s].pc = label

Continue(s, label, u, r) ==
    req' = [req EXCEPT ![s] = Call(req[s].op, label, u, req[s].tok, r)]

Goto(s, label) == Continue(s, label, req[s].user, req[s].ref)

Answer(s) == req' = [req EXCEPT ![s] = Idle]

Init ==
    /\ row = [t \in TokenIds |-> NoRow]
    /\ live = {}
    /\ expired = {}
    /\ status \in [Users -> {"absent", "active"}]
    /\ req = [s \in Slots |-> Idle]
    /\ faults = 0

-----------------------------------------------------------------------------
(* A request arrives.  A client presents a token string the server once    *)
(* issued, in the place it belongs to or in the other one.                 *)

BeginLogin(s) ==
    /\ At(s, "idle")
    /\ \E o \in LoginOps, u \in Users :
          req' = [req EXCEPT ![s] = Call(o, "findUser", u, NoToken, NoToken)]
    /\ UNCHANGED <<row, live, expired, status, faults>>

BeginRefresh(s) ==
    /\ At(s, "idle")
    /\ \E t \in TokenIds \ Unused :
          req' = [req EXCEPT ![s] = Call("refresh", "verifyRefresh", NoUser, NoToken, t)]
    /\ UNCHANGED <<row, live, expired, status, faults>>

BeginGuarded(s) ==
    /\ At(s, "idle")
    /\ \E o \in {"logout", "logoutAll"}, t \in TokenIds \ Unused :
          req' = [req EXCEPT ![s] = Call(o, "verifyAccess", NoUser, t, NoToken)]
    /\ UNCHANGED <<row, live, expired, status, faults>>

-----------------------------------------------------------------------------
(* login, register, loginWithFirebase: look the user up, perhaps create    *)
(* the row, then save the refresh row, save the access row, send a mail.   *)

(* Mutant: the firebase login forgets the blocked status. *)
BlockedMaySignIn(o, st) ==
    CASE o = "login"    -> st \in {"absent", "blocked"}
      [] o = "firebase" -> st = "inactive"
      [] OTHER          -> st # "absent"

RejectedAtLogin(o, st) ==
    CASE o = "login"    -> st \in {"absent", "blocked"}
      [] o = "firebase" -> st \in {"blocked", "inactive"}
      [] OTHER          -> st # "absent"

FindUser(s) ==
    /\ At(s, "findUser")
    /\ LET st == status[req[s].user] IN
          IF RejectedAtLogin(req[s].op, st) THEN Answer(s)
          ELSE Goto(s, IF st = "absent" THEN "createUser" ELSE "insertRefresh")
    /\ UNCHANGED <<row, live, expired, status, faults>>

(* Mutant: the handler goes on before the user's row is saved. *)
UserNotSaved(s) ==
    /\ At(s, "createUser")
    /\ Goto(s, "insertRefresh")
    /\ UNCHANGED <<row, live, expired, status, faults>>

(* The unique constraint on email and username refuses a second row. *)
CreateUser(s) ==
    /\ At(s, "createUser")
    /\ IF status[req[s].user] = "absent"
       THEN /\ status' = [status EXCEPT ![req[s].user] = "active"]
            /\ Goto(s, "insertRefresh")
       ELSE Answer(s) /\ UNCHANGED status
    /\ UNCHANGED <<row, live, expired, faults>>

(* Mutant: user and parent are passed in the wrong order. *)
InsertSwapped(t, type, user, parent) ==
    /\ row' = [row EXCEPT ![t] = [type |-> type, user |-> parent, parent |-> user]]
    /\ live' = live \cup {t}

Insert(t, type, user, parent) ==
    /\ row' = [row EXCEPT ![t] = [type |-> type, user |-> user, parent |-> parent]]
    /\ live' = live \cup {t}

InsertRefresh(s) ==
    /\ At(s, "insertRefresh")
    /\ \E t \in Unused :
          /\ Insert(t, "refresh", req[s].user, NoToken)
          /\ Continue(s, "insertAccess", req[s].user, t)
    /\ UNCHANGED <<expired, status, faults>>

(* The last write of a login and of a refresh.  The login log and the mail *)
(* that follow a login touch no token, whether they succeed or fail.       *)
InsertAccess(s) ==
    /\ At(s, "insertAccess")
    /\ \E t \in Unused : Insert(t, "access", req[s].user, req[s].ref)
    /\ Answer(s)
    /\ UNCHANGED <<expired, status, faults>>

-----------------------------------------------------------------------------
(* verifyRefreshToken, and the two handlers that call it.                  *)

(* Mutant: the signature is checked, the row's isActive is not. *)
RefreshIsSigned(t) == row[t].type = "refresh" /\ t \notin expired

RefreshIsValid(t) == row[t].type = "refresh" /\ t \notin expired /\ t \in live

(* The payload's sub is the owner's id. *)
VerifyRefresh(s) ==
    /\ At(s, "verifyRefresh")
    /\ IF RefreshIsValid(req[s].ref)
       THEN Continue(s, IF req[s].op = "refresh" THEN "killSiblings" ELSE "killRefresh",
                     row[req[s].ref].user, req[s].ref)
       ELSE Goto(s, "verifyCatch")
    /\ UNCHANGED <<row, live, expired, status, faults>>

(* The catch of verifyRefreshToken, then that of the handler that called   *)
(* it: each sets the presented token inactive, and the second answers.     *)
RejectRefresh(s) ==
    /\ \/ At(s, "verifyCatch") /\ Goto(s, "handlerCatch")
       \/ At(s, "handlerCatch") /\ Answer(s)
    /\ live' = live \ {req[s].ref}
    /\ UNCHANGED <<row, expired, status, faults>>

(* Mutant: a refresh leaves the access tokens it replaces. *)
ForgetSiblings(s) ==
    /\ At(s, "killSiblings")
    /\ Goto(s, "insertAccess")
    /\ UNCHANGED <<row, live, expired, status, faults>>

(* refreshAccessToken: update {parentId} to inactive before a new child. *)
KillSiblings(s) ==
    /\ At(s, "killSiblings")
    /\ live' = live \ Children(req[s].ref)
    /\ Goto(s, "insertAccess")
    /\ UNCHANGED <<row, expired, status, faults>>

-----------------------------------------------------------------------------
(* JwtAuthGuard and the handlers behind it.                                *)

AccessIsValid(t) == row[t].type = "access" /\ t \notin expired /\ t \in live

(* verifyAccessToken, then the guard's load of the user. *)
VerifyAccess(s) ==
    /\ At(s, "verifyAccess")
    /\ IF AccessIsValid(req[s].tok)
       THEN Continue(s, IF req[s].op = "logout" THEN "findAccess" ELSE "killAll",
                     row[req[s].tok].user, req[s].ref)
       ELSE Goto(s, "rejectAccess")
    /\ UNCHANGED <<row, live, expired, status, faults>>

RejectAccess(s) ==
    /\ At(s, "rejectAccess")
    /\ live' = live \ {req[s].tok}
    /\ Answer(s)
    /\ UNCHANGED <<row, expired, status, faults>>

FindAccess(s) ==
    /\ At(s, "findAccess")
    /\ IF req[s].tok \in live
       THEN Continue(s, "findParent", req[s].user, row[req[s].tok].parent)
       ELSE Answer(s)
    /\ UNCHANGED <<row, live, expired, status, faults>>

FindParent(s) ==
    /\ At(s, "findParent")
    /\ IF req[s].ref \in live THEN Goto(s, "verifyRefresh") ELSE Answer(s)
    /\ UNCHANGED <<row, live, expired, status, faults>>

(* Mutant: the first update of a logout matches no row. *)
KeepRefresh(s) ==
    /\ At(s, "killRefresh")
    /\ Goto(s, "killChildren")
    /\ UNCHANGED <<row, live, expired, status, faults>>

(* deactivateRefreshToken: the refresh row first, then its children. *)
KillRefresh(s) ==
    /\ At(s, "killRefresh")
    /\ live' = live \ {req[s].ref}
    /\ Goto(s, "killChildren")
    /\ UNCHANGED <<row, expired, status, faults>>

(* Mutant: the second update matches id where it should match parentId. *)
KillTwice(s) ==
    /\ At(s, "killChildren")
    /\ live' = live \ {req[s].ref}
    /\ Answer(s)
    /\ UNCHANGED <<row, expired, status, faults>>

KillChildren(s) ==
    /\ At(s, "killChildren")
    /\ live' = live \ Children(req[s].ref)
    /\ Answer(s)
    /\ UNCHANGED <<row, expired, status, faults>>

(* deactivateAllRefreshTokens: update {userId} to inactive, every type. *)
KillAll(s) ==
    /\ At(s, "killAll")
    /\ live' = live \ TokensOf(req[s].user)
    /\ Answer(s)
    /\ UNCHANGED <<row, expired, status, faults>>

-----------------------------------------------------------------------------
(* The environment.                                                        *)

(* Where the catch blocks take a request whose query failed. *)
AfterFault(s) ==
    CASE req[s].pc = "verifyAccess"  -> "rejectAccess"
      [] req[s].pc = "verifyRefresh" -> "verifyCatch"
      [] \/ req[s].pc \in {"verifyCatch", "killSiblings", "killRefresh", "killChildren"}
         \/ req[s].pc = "insertAccess" /\ req[s].op = "refresh" -> "handlerCatch"
      [] OTHER -> "answer"

(* A query fails: the connection drops, or the table takes no more rows.   *)
QueryFails(s) ==
    /\ ~At(s, "idle")
    /\ \/ faults < MaxFaults /\ faults' = faults + 1
       \/ req[s].pc \in {"insertRefresh", "insertAccess"} /\ Unused = {} /\ UNCHANGED faults
    /\ IF AfterFault(s) = "answer" THEN Answer(s) ELSE Goto(s, AfterFault(s))
    /\ UNCHANGED <<row, live, expired, status>>

Expire(t) ==
    /\ Expiry
    /\ t \in TokenIds \ (Unused \cup expired)
    /\ expired' = expired \cup {t}
    /\ UNCHANGED <<row, live, status, req, faults>>

(* An administrator edits a user's row, deleteUser among the ways. *)
SetStatus(u) ==
    /\ status[u] # "absent"
    /\ \E st \in AdminStatuses \ {status[u]} : status' = [status EXCEPT ![u] = st]
    /\ UNCHANGED <<row, live, expired, req, faults>>

-----------------------------------------------------------------------------
Begin(s) == BeginLogin(s) \/ BeginRefresh(s) \/ BeginGuarded(s)

Proceed(s) ==
    \/ FindUser(s) \/ CreateUser(s) \/ InsertRefresh(s) \/ InsertAccess(s)
    \/ VerifyRefresh(s) \/ RejectRefresh(s) \/ KillSiblings(s)
    \/ VerifyAccess(s) \/ RejectAccess(s) \/ FindAccess(s) \/ FindParent(s)
    \/ KillRefresh(s) \/ KillChildren(s) \/ KillAll(s)

Next ==
    \/ \E s \in Slots : Begin(s) \/ Proceed(s) \/ QueryFails(s)
    \/ \E t \in TokenIds : Expire(t)
    \/ \E u \in Users : SetStatus(u)

Spec == Init /\ [][Next]_vars

(* Node runs the continuation of every settled query: a request in flight  *)
(* goes on, by its next query or by its failure.                           *)
FairSpec == Spec /\ \A s \in Slots : WF_vars(Proceed(s) \/ QueryFails(s))

-----------------------------------------------------------------------------
(* What the sessions promise.                                              *)

TypeOK ==
    /\ row \in [TokenIds -> Row]
    /\ live \subseteq TokenIds
    /\ expired \subseteq TokenIds
    /\ status \in [Users -> Status \cup {"absent"}]
    /\ req \in [Slots -> Request]
    /\ faults \in 0 .. MaxFaults

(* An access token hangs from a refresh token of the same user, whichever  *)
(* of the two handlers wrote it, and that user has a row: the ids come     *)
(* from a login's locals in one case and from a JWT's payload in the other.*)
FamilyIntegrity ==
    \A a \in TokenIds :
        row[a].type = "access" =>
            /\ row[a].parent \in TokenIds
            /\ row[row[a].parent].type = "refresh"
            /\ row[row[a].parent].user = row[a].user
            /\ status[row[a].user] # "absent"

(* Requests about to insert an access row under r. *)
Pending(r) == {s \in Slots : At(s, "insertAccess") /\ req[s].ref = r}

(* A refresh retires the access tokens it replaces before it inserts its   *)
(* own, but concurrent refreshes retire them all and then each insert one. *)
(* However the requests interleave, a session never has more live access   *)
(* tokens than requests can be in flight; one at a time, it has one.       *)
LiveAccessBound ==
    \A r \in TokenIds : Cardinality(LiveChildren(r)) <= Cardinality(Slots)

(* Requests that have passed the check of r and can still extend it. *)
Extending(r) == {s \in Slots : req[s].pc \in {"killSiblings", "insertAccess"}
                                  /\ req[s].ref = r}

Closed(r) ==
    /\ row[r].type = "refresh"
    /\ r \notin live
    /\ LiveChildren(r) = {}
    /\ Extending(r) = {}

(* A session with nothing live and no request past its check is over: no   *)
(* token presented later, valid or not, in either place, revives it.       *)
ClosedStaysClosed == [][\A r \in TokenIds : Closed(r) => Closed(r)']_vars

(* When logout answers 'Logged out successfully', the token it was called  *)
(* with, its refresh token and every access token of the session are dead, *)
(* also those a refresh inserted since logout looked the session up.  When *)
(* logoutAll answers, so is every token of the caller's user.              *)
LogoutIsTruthful ==
    [][\A s \in Slots :
        /\ At(s, "killChildren") /\ At(s, "idle")' =>
              /\ req[s].ref \notin live' /\ req[s].tok \notin live'
              /\ \A r \in TokenIds : r = req[s].ref => LiveChildren(r)' = {}
        /\ At(s, "killAll") /\ At(s, "idle")' /\ faults' = faults =>
              live' \cap TokensOf(row[req[s].tok].user) = {}]_vars

(* Logins of u that have passed the check of its status. *)
LoggingIn(u) == {s \in Slots : req[s].pc \in {"createUser", "insertRefresh"}
                                  /\ req[s].user = u}

(* Once a user is blocked and the logins that had already read the status  *)
(* have drained, no handler opens a session for that user.                 *)
BlockedUserOpensNoSession ==
    [][\A u \in Users :
        status[u] = "blocked" /\ LoggingIn(u) = {} =>
            /\ \A t \in Unused : row'[t].type = "refresh" => row'[t].user # u
            /\ LoggingIn(u)' = {}]_vars

-----------------------------------------------------------------------------
(* What a request's locals say of the rows, at each of its queries. *)
LocalsOK(s) ==
    LET q == req[s]
        Owns(t, type) == /\ t \in TokenIds /\ row[t].type = type
                         /\ row[t].user = q.user
        LoggingOut == /\ q.op = "logout" /\ q.ref \in TokenIds /\ q.tok \in TokenIds
                      /\ row[q.tok].type = "access" /\ row[q.tok].parent = q.ref
    IN  /\ q.pc \in {"findUser", "createUser", "insertRefresh", "insertAccess"} =>
              q.user \in Users
        /\ q.pc \in {"findUser", "createUser", "insertRefresh"} => q.op \in LoginOps
        /\ q.pc \in {"insertRefresh", "insertAccess"} => status[q.user] # "absent"
        /\ q.pc \in {"insertAccess", "killSiblings", "killRefresh", "killChildren"} =>
              Owns(q.ref, "refresh")
        /\ q.pc = "killSiblings" => q.op = "refresh"
        /\ q.pc \in {"findAccess", "killAll"} => Owns(q.tok, "access")
        /\ q.pc \in {"verifyRefresh", "verifyCatch", "handlerCatch"} => q.ref \in TokenIds
        /\ q.pc = "verifyRefresh" => q.op = "refresh" \/ LoggingOut
        /\ q.pc \in {"findParent", "killRefresh", "killChildren"} => LoggingOut
        /\ q.pc = "verifyAccess" => q.op \in {"logout", "logoutAll"}
        /\ q.pc = "findAccess" => q.op = "logout"
        /\ q.pc \in {"verifyAccess", "rejectAccess"} => q.tok \in TokenIds
        /\ q.pc = "killChildren" => q.ref \notin live

(* The inductive invariant: rows exist before they are live, belong to a   *)
(* user that exists and hang together; locals agree with the rows they     *)
(* were read from; a request about to insert counts as its row.            *)
SessionInv ==
    /\ TypeOK
    /\ FamilyIntegrity
    /\ \A t \in TokenIds \ Unused : row[t].user \in Users /\ status[row[t].user] # "absent"
    /\ live \cap Unused = {}
    /\ \A s \in Slots : LocalsOK(s)
    /\ \A r \in TokenIds :
          Cardinality(LiveChildren(r)) + Cardinality(Pending(r)) <= Cardinality(Slots)

=============================================================================
