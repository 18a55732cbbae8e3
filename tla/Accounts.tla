------------------------------- MODULE Accounts -------------------------------
(***************************************************************************)
(* The rows of users.users with their permissions and roles, the roles,    *)
(* the permissions, and the handlers that edit them (users.service.ts,     *)
(* users.mapper.ts, roles.service.ts, role.mapper.ts,                      *)
(* permissions.service.ts), with what the permissions guard makes of them. *)
(*                                                                         *)
(* A handler loads an entity with its eager relations, edits it in memory  *)
(* and saves it.  The save writes every column and every join row in which *)
(* the entity differs from the table when the save runs, so it makes the   *)
(* row equal to what was loaded earlier, plus the edit; and it cascades:   *)
(* the roles and permissions hanging from a user are written back too.     *)
(* Load and save are two steps, and other requests run between them.       *)
(* Profile columns, names and slugs are left out, and so is a request      *)
(* refused at its load.  An update sets the columns its dto declares,      *)
(* which are all of the profile.                                           *)
(***************************************************************************)
EXTENDS Naturals, FiniteSets

CONSTANTS
    Users, Passwords,
    Roles,  \* ids of the roles the seed inserts
    Perms,  \* ids that permissions can have
    Slots,  \* requests that can be in flight at once
    None    \* null value

ASSUME AccountsAssumption ==
    /\ None \notin Users \cup Roles \cup Passwords
    /\ Users \cap Roles = {}

VARIABLES
    account,    \* users.users with users-permissions and users-roles
    role,       \* users.roles with roles-permissions
    permission, \* users.permissions: the active flag, or absent
    req,        \* the request in each slot
    settled,    \* history: edits of an account no other edit overlapped
    revoked,    \* history: what such an edit took from a role
    switched    \* history: flags set while no request held the permission

vars == <<account, role, permission, req, settled, revoked, switched>>
rest == <<role, permission, revoked, switched>>

NoAccount == [status |-> "none", password |-> None, perms |-> {}, roles |-> {}]

NewAccount(p, r) == [status |-> "active", password |-> p, perms |-> {}, roles |-> {r}]

Administrator(p) == [status |-> "active", password |-> p, perms |-> {}, roles |-> Roles]

Account == [status : {"none", "active", "deleted"}, password : Passwords \cup {None},
            perms : SUBSET Perms, roles : SUBSET Roles]

RoleRow == [active : BOOLEAN, perms : SUBSET Perms]

Flags == {"absent", "on", "off"}

(* What is known to stay: the account is deleted, these permissions are    *)
(* taken away, this is the password (None: it may be about to change).     *)
Settled == [deleted : BOOLEAN, perms : SUBSET Perms, password : Passwords \cup {None}]

NothingSettled == [deleted |-> FALSE, perms |-> {}, password |-> None]

(* The next query of a request: it saves a user,                           *)
Saves == {"create", "update", "delete", "change", "grant", "revoke"}

(* loads the permissions of the user's roles for toDtoPermRoles,           *)
Reads == {"readGrant", "readRevoke"}

(* loads the permissions of a role, or saves the role.                     *)
RoleReads == {"readRoleGrant", "readRoleRevoke"}
RoleSaves == {"roleUpdate", "roleGrant", "roleRevoke"}

(* In memory: the user, the roles, the flags of the permissions.  ask and  *)
(* pw are what the client sent.                                            *)
Request == [pc : {"idle"} \cup Saves \cup Reads \cup RoleReads \cup RoleSaves,
            who : Users \cup Roles \cup {None}, row : Account,
            roles : [Roles -> RoleRow], flags : [Perms -> Flags],
            ask : SUBSET Perms, pw : Passwords \cup {None}]

Call(label, w, a, rs, fs, P, p) ==
    [pc |-> label, who |-> w, row |-> a, roles |-> rs, flags |-> fs, ask |-> P, pw |-> p]

NoRoles == [r \in Roles |-> [active |-> FALSE, perms |-> {}]]

(* One role in memory, the others not loaded. *)
Holding(r, a, P) == [NoRoles EXCEPT ![r] = [active |-> a, perms |-> P]]

NoFlags == [p \in Perms |-> "absent"]

Idle == Call("idle", None, NoAccount, NoRoles, NoFlags, {}, None)

At(s, label) == req[s].pc = label

Become(s, q) == req' = [req EXCEPT ![s] = q]

(* Does a request in another slot hold an entity of w, user or role? *)
Holds(t, w) == req[t].who = w \/ w \in req[t].row.roles

Alone(s) == \A t \in Slots \ {s} : ~Holds(t, req[s].who)

Known == {p \in Perms : permission[p] # "absent"}

Active(P) == {p \in P : permission[p] = "on"}

(* The roles of an account as its load finds them, their lists not loaded. *)
RolesOf(a) == [r \in Roles |-> [active |-> r \in a.roles /\ role[r].active, perms |-> {}]]

(* Ids a client sends; an id of no permission fails on a foreign key. *)
Lists == SUBSET Known \ {{}}

(* The seed gives its administrator every role. *)
Init ==
    /\ account \in [Users -> {NoAccount} \cup {Administrator(p) : p \in Passwords}]
    /\ permission \in [Perms -> {"absent", "on"}]
    /\ role \in [Roles -> [active : {TRUE}, perms : SUBSET Known]]
    /\ req = [s \in Slots |-> Idle]
    /\ settled = [u \in Users |-> NothingSettled]
    /\ revoked = [r \in Roles |-> {}]
    /\ switched = [p \in Perms |-> None]

-----------------------------------------------------------------------------
(* The edits, on entities in memory.                                       *)

Deleted(a) == [a EXCEPT !.status = "deleted"]

(* Mutant: the entity saved is a new one, with the default status. *)
WithPasswordAndDefaults(a, p) == [a EXCEPT !.password = p, !.status = "active"]

(* Mutant: the entity is saved without the new hash. *)
WithoutPassword(a, p) == a

WithPassword(a, p) == [a EXCEPT !.password = p]

(* Mutant: the list is pushed as one element. *)
Pushed(held, P) == held \cup {P}

(* Merges start from the permissions found active by toDtoPermRoles for a  *)
(* user, from all of them for a role.                                      *)
Merged(held, P) == held \cup P

(* Mutant: the filter lost its negation. *)
Kept(held, P) == held \cap P

Filtered(held, P) == held \ P

-----------------------------------------------------------------------------
(* Users.                                                                  *)

(* createUser, register and loginWithFirebase look for a user of that name *)
(* and load the role with its permissions; the insert saves both.          *)
LoadForCreate(s, u, p, r) ==
    /\ At(s, "idle") /\ account[u] = NoAccount
    /\ Become(s, Call("create", u, NewAccount(p, r),
                      Holding(r, role[r].active, role[r].perms), NoFlags, {}, None))
    /\ UNCHANGED <<account, rest, settled>>

(* updateUser; the cart handlers, which save a user along with the cart. *)
LoadForUpdate(s, u) ==
    /\ At(s, "idle") /\ account[u].status = "active"
    /\ Become(s, Call("update", u, account[u], RolesOf(account[u]), permission, {}, None))
    /\ UNCHANGED <<account, rest, settled>>

LoadForDelete(s, u) ==
    /\ At(s, "idle") /\ account[u] # NoAccount
    /\ Become(s, Call("delete", u, Deleted(account[u]), RolesOf(account[u]), permission,
                      {}, None))
    /\ UNCHANGED <<account, rest, settled>>

LoadForChange(s, u, p) ==
    /\ At(s, "idle") /\ account[u] # NoAccount
    /\ Become(s, Call("change", u, WithPassword(account[u], p), RolesOf(account[u]),
                      permission, {}, p))
    /\ settled' = [settled EXCEPT ![u].password = None]
    /\ UNCHANGED <<account, rest>>

(* The merged list is made of ids: the flags are not in it.  A list of     *)
(* nothing but permissions already held, inactive ones too, is refused.    *)
LoadForGrant(s, u, P) ==
    /\ At(s, "idle") /\ account[u].status = "active"
    /\ P \ account[u].perms # {}
    /\ Become(s, Call("readGrant", u, [account[u] EXCEPT !.perms = Merged(Active(@), P)],
                      RolesOf(account[u]), NoFlags, P, None))
    /\ settled' = [settled EXCEPT ![u].perms = @ \ P]
    /\ UNCHANGED <<account, rest>>

LoadForRevoke(s, u, P) ==
    /\ At(s, "idle") /\ account[u].status = "active"
    /\ Become(s, Call("readRevoke", u, [account[u] EXCEPT !.perms = Filtered(Active(@), P)],
                      RolesOf(account[u]), NoFlags, P, None))
    /\ UNCHANGED <<account, rest, settled>>

(* toDtoPermRoles reads the lists of the active roles, all at once, and    *)
(* the entities keep what they read.                                       *)
WithLists(rs) == [r \in Roles |-> IF rs[r].active THEN [active |-> TRUE, perms |-> role[r].perms]
                                                  ELSE rs[r]]

ReadRoles(s) ==
    /\ \/ /\ At(s, "readGrant")
          /\ Become(s, Call("grant", req[s].who, req[s].row, WithLists(req[s].roles), NoFlags,
                            req[s].ask, None))
       \/ /\ At(s, "readRevoke")
          /\ Become(s, Call("revoke", req[s].who, req[s].row, WithLists(req[s].roles), NoFlags,
                            req[s].ask, None))
    /\ UNCHANGED <<account, rest, settled>>

(* The cascade: a role is written as loaded, its list where it was loaded; *)
(* so is a permission, unless the entity holds nothing but its id.         *)
ListsLoaded(q) == CASE q.pc = "create" -> q.row.roles
                    [] q.pc \in {"grant", "revoke"} -> {r \in q.row.roles : q.roles[r].active}
                    [] OTHER -> {}

(* Mutant: the entities of a merged list are saved as if they were loaded. *)
FlagsAlwaysLoaded(q) == IF q.pc \in Saves \ {"create"} THEN q.row.perms ELSE {}

FlagsLoaded(q) == IF q.pc \in {"update", "delete", "change"} THEN q.row.perms ELSE {}

CascadeRoles(q) ==
    role' = [r \in Roles |->
                [active |-> IF r \in q.row.roles THEN q.roles[r].active ELSE role[r].active,
                 perms  |-> IF r \in ListsLoaded(q) THEN q.roles[r].perms ELSE role[r].perms]]

CascadeFlags(q) ==
    permission' = [p \in Perms |-> IF p \in FlagsLoaded(q) THEN q.flags[p] ELSE permission[p]]

(* What a save nobody overlaps settles for good. *)
Settle(e, q) ==
    [deleted  |-> e.deleted \/ q.pc = "delete",
     perms    |-> IF q.pc = "revoke" THEN e.perms \cup q.ask ELSE e.perms,
     password |-> IF q.pc = "change" THEN q.pw ELSE e.password]

(* User names are unique: a second insert fails. *)
SaveAccount(s) ==
    /\ req[s].pc \in Saves
    /\ At(s, "create") => account[req[s].who] = NoAccount
    /\ account' = [account EXCEPT ![req[s].who] = req[s].row]
    /\ CascadeRoles(req[s])
    /\ CascadeFlags(req[s])
    /\ settled' = IF Alone(s) THEN [settled EXCEPT ![req[s].who] = Settle(@, req[s])]
                              ELSE settled
    /\ Become(s, Idle)
    /\ UNCHANGED <<revoked, switched>>

(* The last query of resetPassword writes one column, without an entity. *)
ResetPassword(u) ==
    /\ account[u] # NoAccount
    /\ \E p \in Passwords \ {account[u].password} :
          /\ account' = [account EXCEPT ![u].password = p]
          /\ settled' = [settled EXCEPT ![u].password =
                           IF \A t \in Slots : ~Holds(t, u) THEN p ELSE None]
    /\ UNCHANGED <<rest, req>>

-----------------------------------------------------------------------------
(* Roles.  Their permissions are loaded by a query of their own.           *)

(* The dto of an update restates the flag and the list. *)
LoadForRoleUpdate(s, r, a, P) ==
    /\ At(s, "idle")
    /\ Become(s, Call("roleUpdate", r, NoAccount,
                      Holding(r, a, P), NoFlags, {}, None))
    /\ revoked' = [revoked EXCEPT ![r] = @ \ P]
    /\ UNCHANGED <<account, role, permission, settled, switched>>

LoadForRoleGrant(s, r, P) ==
    /\ At(s, "idle")
    /\ Become(s, Call("readRoleGrant", r, NoAccount,
                      Holding(r, role[r].active, {}), NoFlags, P, None))
    /\ revoked' = [revoked EXCEPT ![r] = @ \ P]
    /\ UNCHANGED <<account, role, permission, settled, switched>>

LoadForRoleRevoke(s, r, P) ==
    /\ At(s, "idle")
    /\ Become(s, Call("readRoleRevoke", r, NoAccount,
                      Holding(r, role[r].active, {}), NoFlags, P, None))
    /\ UNCHANGED <<account, rest, settled>>

ReadRole(s, r) ==
    /\ req[s].who = r
    /\ \/ /\ At(s, "readRoleGrant")
          /\ Become(s, Call("roleGrant", r, NoAccount,
                  Holding(r, req[s].roles[r].active, Merged(role[r].perms, req[s].ask)),
                  NoFlags, req[s].ask, None))
       \/ /\ At(s, "readRoleRevoke")
          /\ Become(s, Call("roleRevoke", r, NoAccount,
                  Holding(r, req[s].roles[r].active, Filtered(role[r].perms, req[s].ask)),
                  NoFlags, req[s].ask, None))
    /\ UNCHANGED <<account, rest, settled>>

(* What a save of a role takes away. *)
Taken(q) == CASE q.pc = "roleUpdate" -> Perms \ q.roles[q.who].perms
              [] q.pc = "roleRevoke" -> q.ask
              [] OTHER               -> {}

SaveRole(s) ==
    /\ req[s].pc \in RoleSaves
    /\ role' = [role EXCEPT ![req[s].who] = req[s].roles[req[s].who]]
    /\ revoked' = IF Alone(s) THEN [revoked EXCEPT ![req[s].who] = @ \cup Taken(req[s])]
                              ELSE revoked
    /\ Become(s, Idle)
    /\ UNCHANGED <<account, permission, settled, switched>>

-----------------------------------------------------------------------------
(* Permissions.  The dto of an update restates every column.               *)

CreatePermission(p) ==
    /\ permission[p] = "absent"
    /\ permission' = [permission EXCEPT ![p] = "on"]
    /\ UNCHANGED <<account, role, req, settled, revoked, switched>>

UpdatePermission(p) ==
    /\ permission[p] # "absent"
    /\ \E flag \in {"on", "off"} :
          /\ permission' = [permission EXCEPT ![p] = flag]
          /\ switched' = [switched EXCEPT ![p] =
                            IF \A s \in Slots : p \notin FlagsLoaded(req[s]) THEN flag ELSE None]
    /\ UNCHANGED <<account, role, req, settled, revoked>>

-----------------------------------------------------------------------------
(* A query fails: the handler answers an error, nothing is written. *)
QueryFails(s) ==
    /\ ~At(s, "idle")
    /\ Become(s, Idle)
    /\ UNCHANGED <<account, rest, settled>>

UserEdit(s, u) ==
    \/ \E p \in Passwords, r \in Roles : LoadForCreate(s, u, p, r)
    \/ LoadForUpdate(s, u) \/ LoadForDelete(s, u)
    \/ \E p \in Passwords : LoadForChange(s, u, p)
    \/ \E P \in Lists : LoadForGrant(s, u, P) \/ LoadForRevoke(s, u, P)

RoleEdit(s, r) ==
    \/ \E P \in SUBSET Known, a \in BOOLEAN : LoadForRoleUpdate(s, r, a, P)
    \/ \E P \in Lists : LoadForRoleGrant(s, r, P) \/ LoadForRoleRevoke(s, r, P)
    \/ ReadRole(s, r)

PermissionEdit(p) == CreatePermission(p) \/ UpdatePermission(p)

Next ==
    \/ \E s \in Slots :
          \/ \E u \in Users : UserEdit(s, u)
          \/ \E r \in Roles : RoleEdit(s, r)
          \/ ReadRoles(s) \/ SaveAccount(s) \/ SaveRole(s) \/ QueryFails(s)
    \/ \E u \in Users : ResetPassword(u)
    \/ \E p \in Perms : PermissionEdit(p)

Spec == Init /\ [][Next]_vars

-----------------------------------------------------------------------------
TypeOK ==
    /\ account \in [Users -> Account]
    /\ role \in [Roles -> RoleRow]
    /\ permission \in [Perms -> Flags]
    /\ req \in [Slots -> Request]
    /\ settled \in [Users -> Settled]
    /\ revoked \in [Roles -> SUBSET Perms]
    /\ switched \in [Perms -> {"on", "off", None}]

(* matchPermissions: a route that asks for p is open to u. *)
Allowed(u, p) ==
    \/ p \in Active(account[u].perms)
    \/ \E r \in account[u].roles : role[r].active /\ p \in role[r].perms

(* An account deleted while no other edit of it is in flight is never      *)
(* active again, whatever edits follow, fail or overlap.                   *)
DeletedStaysDeleted ==
    \A u \in Users : settled[u].deleted => account[u].status = "deleted"

(* A password set while no other edit of the account is in flight is the   *)
(* password until someone asks for another.                                *)
ChosenPasswordStays ==
    \A u \in Users : settled[u].password # None => account[u].password = settled[u].password

(* A permission taken from a user and from the user's roles, each time     *)
(* with no other edit of that row in flight, opens no route, until someone *)
(* asks for it to be given to one of them again.                           *)
RevokedIsRefused ==
    \A u \in Users : \A p \in settled[u].perms :
        (\A r \in account[u].roles : p \in revoked[r]) => ~Allowed(u, p)

(* A permission switched on or off while no request holds its row stays    *)
(* so until the next update of it: a save of a user writes the flags of    *)
(* the user's permissions, but none that is older than the switch.         *)
SwitchStays ==
    \A p \in Perms : switched[p] # None => permission[p] = switched[p]

(* What a request's locals know of the history.                            *)
UserOK(q, e) ==
    /\ q.pc = "delete" => q.row.status = "deleted"
    /\ q.pc = "change" => q.row.password = q.pw
    /\ q.pc \in {"readRevoke", "revoke"} => q.ask \cap q.row.perms = {}
    /\ e.perms \cap q.row.perms = {}
    /\ q.pc # "create" =>
          /\ e.deleted => q.row.status = "deleted"
          /\ e.password # None => q.pc # "change" /\ q.row.password = e.password

RoleOK(q, r, taken) ==
    /\ taken \cap q.roles[r].perms = {}
    /\ q.roles[r].active \/ q.roles[r].perms # {} => q.who = r \/ r \in q.row.roles
    /\ q.who = r /\ q.pc = "readRoleGrant" => taken \cap q.ask = {}
    /\ q.who = r /\ q.pc = "roleRevoke" => q.ask \cap q.roles[r].perms = {}

LocalsOK(q, st, rv) ==
    /\ q.pc \in Saves \cup Reads => q.who \in Users
    /\ q.pc \in RoleReads \cup RoleSaves => q.who \in Roles
    /\ \A u \in Users : q.who = u => UserOK(q, st[u])
    /\ \A r \in Roles : RoleOK(q, r, rv[r])

(* The three invariants above made inductive: the entities in memory know  *)
(* what is settled too, so that no later save can undo it.                 *)
EditsInv ==
    /\ TypeOK
    /\ DeletedStaysDeleted
    /\ ChosenPasswordStays
    /\ \A u \in Users : settled[u].perms \cap account[u].perms = {}
    /\ \A r \in Roles : revoked[r] \cap role[r].perms = {}
    /\ \A s \in Slots : LocalsOK(req[s], settled, revoked)

(* Made inductive like the others: a flag in memory that a save will write *)
(* is the one that is settled.                                             *)
FlagsInv ==
    /\ TypeOK
    /\ SwitchStays
    /\ \A s \in Slots : \A p \in FlagsLoaded(req[s]) :
          switched[p] # None => req[s].flags[p] = switched[p]

(* 'Password changed successfully' (users.service.ts): the old password    *)
(* does not come back through a request that was not asked to set one.     *)
PasswordsChangeOnRequest ==
    [][\A s \in Slots, u \in Users :
          req[s].pc \in Saves \ {"create", "change"} /\ req[s].who = u /\ req'[s] # req[s]
              => account'[u].password = account[u].password]_vars
=============================================================================
