---------------------------- MODULE AccountsProofs ----------------------------
(***************************************************************************)
(* Proofs about Accounts, for any users, roles, permissions, passwords and *)
(* any number of requests in flight.  EditsInv is inductive, and so is     *)
(* FlagsInv beside it; the properties follow from them.                    *)
(***************************************************************************)
EXTENDS Accounts, TLAPS

-----------------------------------------------------------------------------
(* Requests.                                                               *)

(* Every label is a query of some handler. *)
Labels == {"idle"} \cup Saves \cup Reads \cup RoleReads \cup RoleSaves

(* A request made of typed parts is a request. *)
LEMMA CallType ==
  ASSUME NEW l \in Labels, NEW w \in Users \cup Roles \cup {None}, NEW a \in Account,
         NEW rs \in [Roles -> RoleRow], NEW fs \in [Perms -> Flags],
         NEW P \in SUBSET Perms, NEW p \in Passwords \cup {None}
  PROVE  Call(l, w, a, rs, fs, P, p) \in Request
  BY DEF Labels, Call, Request

(* The parts of a request. *)
LEMMA CallFields ==
  ASSUME NEW l, NEW w, NEW a, NEW rs, NEW fs, NEW P, NEW p
  PROVE  /\ Call(l, w, a, rs, fs, P, p).pc = l
         /\ Call(l, w, a, rs, fs, P, p).who = w
         /\ Call(l, w, a, rs, fs, P, p).row = a
         /\ Call(l, w, a, rs, fs, P, p).roles = rs
         /\ Call(l, w, a, rs, fs, P, p).flags = fs
         /\ Call(l, w, a, rs, fs, P, p).ask = P
         /\ Call(l, w, a, rs, fs, P, p).pw = p
  BY DEF Call

(* The parts of a typed request. *)
LEMMA RequestFields ==
  ASSUME NEW q \in Request
  PROVE  /\ q.who \in Users \cup Roles \cup {None} /\ q.row \in Account
         /\ q.roles \in [Roles -> RoleRow] /\ q.flags \in [Perms -> Flags]
         /\ q.ask \in SUBSET Perms /\ q.pw \in Passwords \cup {None}
         /\ q.pc \in Labels
  BY DEF Request, Labels

(* The empty entities have their types. *)
LEMMA Empties ==
  /\ NoAccount \in Account
  /\ NoRoles \in [Roles -> RoleRow]
  /\ NoFlags \in [Perms -> Flags]
  /\ NothingSettled \in Settled
  BY DEF NoAccount, Account, NoRoles, RoleRow, NoFlags, Flags, NothingSettled, Settled

(* A free slot is a request. *)
LEMMA IdleType == Idle \in Request
  BY CallType, Empties DEF Idle, Labels

(* A free slot knows nothing that could be wrong. *)
LEMMA IdleOK ==
  ASSUME AccountsAssumption, NEW st, NEW rv PROVE LocalsOK(Idle, st, rv)
<1>1. /\ Idle.pc = "idle" /\ Idle.who = None /\ Idle.roles = NoRoles
  BY CallFields DEF Idle
<1>2. \A r \in Roles : NoRoles[r].active = FALSE /\ NoRoles[r].perms = {}
  BY DEF NoRoles
<1>3. \A r \in Roles : RoleOK(Idle, r, rv[r])
  BY <1>1, <1>2 DEF RoleOK
<1> QED
  BY <1>1, <1>3 DEF LocalsOK, AccountsAssumption, Saves, Reads, RoleReads, RoleSaves

(* What a request knows stays true when less is settled. *)
LEMMA Weaker ==
  ASSUME NEW q, NEW st, NEW rv, NEW st2, NEW rv2, LocalsOK(q, st, rv),
         \A u \in Users : /\ st2[u].deleted => st[u].deleted
                          /\ st2[u].perms \subseteq st[u].perms
                          /\ st2[u].password # None => st2[u].password = st[u].password,
         \A r \in Roles : rv2[r] \subseteq rv[r]
  PROVE  LocalsOK(q, st2, rv2)
<1>1. ASSUME NEW u \in Users, q.who = u PROVE UserOK(q, st2[u])
  <2>1. UserOK(q, st[u])
    BY <1>1 DEF LocalsOK
  <2> QED BY <2>1 DEF UserOK
<1>2. ASSUME NEW r \in Roles PROVE RoleOK(q, r, rv2[r])
  <2>1. RoleOK(q, r, rv[r])
    BY DEF LocalsOK
  <2> QED BY <2>1 DEF RoleOK
<1> QED BY <1>1, <1>2 DEF LocalsOK

-----------------------------------------------------------------------------
(* Steps that write no table: a request moves on, and at most forgets what *)
(* was settled.                                                            *)
LEMMA Moves ==
  ASSUME EditsInv, NEW s \in Slots, NEW q \in Request, Become(s, q),
         UNCHANGED <<account, role, permission, switched>>,
         settled' \in [Users -> Settled], revoked' \in [Roles -> SUBSET Perms],
         \A u \in Users : /\ settled'[u].deleted => settled[u].deleted
                          /\ settled'[u].perms \subseteq settled[u].perms
                          /\ settled'[u].password # None =>
                                settled'[u].password = settled[u].password,
         \A r \in Roles : revoked'[r] \subseteq revoked[r],
         LocalsOK(q, settled', revoked')
  PROVE  EditsInv'
<1>1. TypeOK'
  BY DEF EditsInv, TypeOK, Become
<1>2. ASSUME NEW t \in Slots PROVE LocalsOK(req'[t], settled', revoked')
  <2>1. CASE t = s
    <3>1. req'[t] = q
      BY <2>1 DEF EditsInv, TypeOK, Become
    <3> QED BY <3>1
  <2>2. CASE t # s
    <3>1. req'[t] = req[t]
      BY <2>2 DEF EditsInv, TypeOK, Become
    <3>2. LocalsOK(req[t], settled, revoked)
      BY DEF EditsInv
    <3>3. LocalsOK(req[t], settled', revoked')
      BY <3>2, Weaker
    <3> QED BY <3>1, <3>3
  <2> QED BY <2>1, <2>2
<1>3. DeletedStaysDeleted' /\ ChosenPasswordStays'
  BY DEF EditsInv, DeletedStaysDeleted, ChosenPasswordStays
<1>4. /\ \A u \in Users : settled'[u].perms \cap account'[u].perms = {}
      /\ \A r \in Roles : revoked'[r] \cap role'[r].perms = {}
  BY DEF EditsInv
<1> QED BY <1>1, <1>2, <1>3, <1>4 DEF EditsInv

(* Steps that move one request and change nothing else. *)
LEMMA PlainMoves ==
  ASSUME EditsInv, NEW s \in Slots, NEW q \in Request, Become(s, q),
         UNCHANGED <<account, role, permission, settled, revoked, switched>>,
         LocalsOK(q, settled, revoked)
  PROVE  EditsInv'
<1>1. settled' \in [Users -> Settled] /\ revoked' \in [Roles -> SUBSET Perms]
  BY DEF EditsInv, TypeOK
<1>2. LocalsOK(q, settled', revoked')
  OBVIOUS
<1> QED BY <1>1, <1>2, Moves

(* An answer, whatever the handler did before it. *)
LEMMA Answered ==
  ASSUME AccountsAssumption, EditsInv, NEW s \in Slots, QueryFails(s) PROVE EditsInv'
  BY PlainMoves, IdleType, IdleOK DEF QueryFails, rest

(* The roles as a load finds them: no list, and only the user's roles. *)
LEMMA RolesOfFacts ==
  ASSUME NEW a \in Account
  PROVE  /\ TypeOK => RolesOf(a) \in [Roles -> RoleRow]
         /\ \A r \in Roles : /\ RolesOf(a)[r].perms = {}
                             /\ RolesOf(a)[r].active => r \in a.roles
  BY DEF RolesOf, RoleRow, TypeOK, Account

-----------------------------------------------------------------------------
(* Loads.                                                                  *)

(* A request that holds a user and the user's roles, their lists unread.   *)
LEMMA LoadedOK ==
  ASSUME AccountsAssumption, NEW l \in Saves \cup Reads, NEW u \in Users, NEW a, NEW b \in Account,
         a.roles = b.roles, NEW fs, NEW P, NEW p, NEW st, NEW rv,
         UserOK(Call(l, u, a, RolesOf(b), fs, P, p), st[u])
  PROVE  LocalsOK(Call(l, u, a, RolesOf(b), fs, P, p), st, rv)
<1> DEFINE q == Call(l, u, a, RolesOf(b), fs, P, p)
<1>1. /\ q.pc = l /\ q.who = u /\ q.row = a /\ q.roles = RolesOf(b)
  BY CallFields
<1>2. \A r \in Roles : u # r
  BY DEF AccountsAssumption
<1>3. \A r \in Roles : RolesOf(b)[r].perms = {} /\ (RolesOf(b)[r].active => r \in a.roles)
  BY RolesOfFacts
<1>4. \A r \in Roles : RoleOK(q, r, rv[r])
  BY <1>1, <1>2, <1>3 DEF RoleOK
<1>5. l \notin RoleReads \cup RoleSaves
  BY DEF Saves, Reads, RoleReads, RoleSaves
<1> QED BY <1>1, <1>4, <1>5 DEF LocalsOK

(* register and createUser: a row that does not exist yet. *)
LEMMA CreateLoads ==
  ASSUME AccountsAssumption, EditsInv, NEW s \in Slots, NEW u \in Users, NEW p \in Passwords,
         NEW r \in Roles, LoadForCreate(s, u, p, r)
  PROVE  EditsInv'
<1> DEFINE a == NewAccount(p, r)
           rs == Holding(r, role[r].active, role[r].perms)
           q == Call("create", u, a, rs, NoFlags, {}, None)
<1>1. a.perms = {} /\ a.roles = {r}
  BY DEF NewAccount
<1>2. a \in Account
  BY DEF NewAccount, Account
<1>3. rs \in [Roles -> RoleRow]
  BY Empties DEF EditsInv, TypeOK, Holding, RoleRow
<1>4. q \in Request
  BY <1>2, <1>3, CallType, Empties DEF Labels, Saves
<1>5. /\ q.pc = "create" /\ q.who = u /\ q.row = a /\ q.roles = rs /\ q.ask = {}
  BY CallFields
<1> HIDE DEF a, q
<1>6. UserOK(q, settled[u])
  BY <1>1, <1>5 DEF UserOK
<1>7. ASSUME NEW r2 \in Roles PROVE RoleOK(q, r2, revoked[r2])
  <2>1. u # r2
    BY DEF AccountsAssumption
  <2>2. CASE r2 = r
    <3>1. rs[r2].perms = role[r2].perms /\ revoked[r2] \cap role[r2].perms = {}
      BY <2>2 DEF EditsInv, NoRoles, Holding
    <3> QED BY <1>1, <1>5, <2>1, <2>2, <3>1 DEF RoleOK
  <2>3. CASE r2 # r
    <3>1. rs[r2].active = FALSE /\ rs[r2].perms = {}
      BY <2>3 DEF NoRoles, Holding
    <3> QED BY <1>5, <2>1, <3>1 DEF RoleOK
  <2> QED BY <2>2, <2>3
<1>8. LocalsOK(q, settled, revoked)
  BY <1>5, <1>6, <1>7 DEF LocalsOK, Saves, Reads, RoleReads, RoleSaves
<1>9. Become(s, q) /\ UNCHANGED <<account, role, permission, settled, revoked, switched>>
  BY DEF LoadForCreate, rest, a, q
<1> QED BY <1>4, <1>8, <1>9, PlainMoves

(* What the tables say of a user, when the inductive invariant holds. *)
LEMMA AccountFacts ==
  ASSUME EditsInv, NEW u \in Users
  PROVE  /\ account[u] \in Account
         /\ settled[u] \in Settled
         /\ RolesOf(account[u]) \in [Roles -> RoleRow]
         /\ permission \in [Perms -> Flags]
         /\ settled[u].deleted => account[u].status = "deleted"
         /\ settled[u].perms \cap account[u].perms = {}
         /\ settled[u].password # None => account[u].password = settled[u].password
  BY RolesOfFacts DEF EditsInv, TypeOK, DeletedStaysDeleted, ChosenPasswordStays

(* updateUser saves what it loaded. *)
LEMMA UpdateLoads ==
  ASSUME AccountsAssumption, EditsInv, NEW s \in Slots, NEW u \in Users, LoadForUpdate(s, u)
  PROVE  EditsInv'
<1> DEFINE q == Call("update", u, account[u], RolesOf(account[u]), permission, {}, None)
<1>1. q \in Request
  BY CallType, AccountFacts DEF Labels, Saves
<1>2. /\ q.pc = "update" /\ q.row = account[u]
  BY CallFields
<1>3. UserOK(q, settled[u])
  BY <1>2, AccountFacts DEF UserOK
<1>4. LocalsOK(q, settled, revoked)
  BY <1>3, LoadedOK, AccountFacts DEF Saves
<1>5. Become(s, q) /\ UNCHANGED <<account, role, permission, settled, revoked, switched>>
  BY DEF LoadForUpdate, rest
<1> HIDE DEF q
<1> QED BY <1>1, <1>4, <1>5, PlainMoves

(* deleteUser saves a deleted user. *)
LEMMA DeleteLoads ==
  ASSUME AccountsAssumption, EditsInv, NEW s \in Slots, NEW u \in Users, LoadForDelete(s, u)
  PROVE  EditsInv'
<1> DEFINE a == Deleted(account[u])
           q == Call("delete", u, a, RolesOf(account[u]), permission, {}, None)
<1>1. /\ a \in Account /\ a.status = "deleted" /\ a.password = account[u].password
      /\ a.perms = account[u].perms /\ a.roles = account[u].roles
  BY AccountFacts DEF Deleted, Account
<1>2. q \in Request
  BY <1>1, CallType, AccountFacts DEF Labels, Saves
<1>3. q.pc = "delete" /\ q.row = a
  BY CallFields
<1>4. UserOK(q, settled[u])
  BY <1>1, <1>3, AccountFacts DEF UserOK
<1>5. LocalsOK(q, settled, revoked)
  BY <1>1, <1>4, LoadedOK, AccountFacts DEF Saves
<1>6. Become(s, q) /\ UNCHANGED <<account, role, permission, settled, revoked, switched>>
  BY DEF LoadForDelete, rest
<1> HIDE DEF q
<1> QED BY <1>2, <1>5, <1>6, PlainMoves

(* changePassword saves another password; nothing is settled about the     *)
(* password while it is in flight.                                         *)
LEMMA ChangeLoads ==
  ASSUME AccountsAssumption, EditsInv, NEW s \in Slots, NEW u \in Users, NEW p \in Passwords,
         LoadForChange(s, u, p)
  PROVE  EditsInv'
<1> DEFINE a == WithPassword(account[u], p)
           q == Call("change", u, a, RolesOf(account[u]), permission, {}, p)
<1>1. /\ a \in Account /\ a.status = account[u].status /\ a.password = p
      /\ a.perms = account[u].perms /\ a.roles = account[u].roles
  BY AccountFacts DEF WithPassword, Account
<1>2. q \in Request
  BY <1>1, CallType, AccountFacts DEF Labels, Saves
<1>3. q.pc = "change" /\ q.row = a /\ q.pw = p
  BY CallFields
<1>4. /\ settled' \in [Users -> Settled]
      /\ settled'[u].password = None /\ settled'[u].perms = settled[u].perms
      /\ settled'[u].deleted = settled[u].deleted
      /\ \A v \in Users \ {u} : settled'[v] = settled[v]
  BY AccountFacts DEF LoadForChange, EditsInv, TypeOK, Settled
<1>5. UserOK(q, settled'[u])
  BY <1>1, <1>3, <1>4, AccountFacts DEF UserOK
<1>6. LocalsOK(q, settled', revoked')
  BY <1>1, <1>5, LoadedOK, AccountFacts DEF Saves
<1>7. Become(s, q) /\ UNCHANGED <<account, role, permission, revoked, switched>>
  BY DEF LoadForChange, rest
<1>8. revoked' \in [Roles -> SUBSET Perms] /\ \A r \in Roles : revoked'[r] \subseteq revoked[r]
  BY <1>7 DEF EditsInv, TypeOK
<1>9. \A v \in Users : /\ settled'[v].deleted => settled[v].deleted
                       /\ settled'[v].perms \subseteq settled[v].perms
                       /\ settled'[v].password # None =>
                             settled'[v].password = settled[v].password
  BY <1>4
<1> HIDE DEF q
<1> QED BY <1>2, <1>4, <1>6, <1>7, <1>8, <1>9, Moves

(* addPermissions of a user: the merged list holds nothing that is settled *)
(* as taken, for what it adds is no longer settled.                        *)
LEMMA GrantLoads ==
  ASSUME AccountsAssumption, EditsInv, NEW s \in Slots, NEW u \in Users, NEW P \in Lists,
         LoadForGrant(s, u, P)
  PROVE  EditsInv'
<1> DEFINE a == [account[u] EXCEPT !.perms = Merged(Active(@), P)]
           q == Call("readGrant", u, a, RolesOf(account[u]), NoFlags, P, None)
<1>0. P \in SUBSET Perms
  BY DEF Lists, Known
<1>1. /\ a.status = account[u].status /\ a.password = account[u].password
      /\ a.perms = Active(account[u].perms) \cup P /\ a.roles = account[u].roles
  BY AccountFacts DEF Merged, Account
<1>2. a \in Account
  BY <1>0, AccountFacts DEF Merged, Active, Account
<1>3. q \in Request
  BY <1>0, <1>2, CallType, AccountFacts, Empties DEF Labels, Reads
<1>4. q.pc = "readGrant" /\ q.row = a
  BY CallFields
<1>5. /\ settled' \in [Users -> Settled]
      /\ settled'[u].perms = settled[u].perms \ P
      /\ settled'[u].password = settled[u].password
      /\ settled'[u].deleted = settled[u].deleted
      /\ \A v \in Users \ {u} : settled'[v] = settled[v]
  BY AccountFacts DEF LoadForGrant, EditsInv, TypeOK, Settled
<1>6. UserOK(q, settled'[u])
  <2>1. settled'[u].perms \cap a.perms = {}
    BY <1>1, <1>5, AccountFacts DEF Active
  <2> QED BY <1>1, <1>4, <1>5, <2>1, AccountFacts DEF UserOK
<1>7. LocalsOK(q, settled', revoked')
  BY <1>1, <1>6, LoadedOK, AccountFacts DEF Reads
<1>8. Become(s, q) /\ UNCHANGED <<account, role, permission, revoked, switched>>
  BY DEF LoadForGrant, rest
<1>9. revoked' \in [Roles -> SUBSET Perms] /\ \A r \in Roles : revoked'[r] \subseteq revoked[r]
  BY <1>8 DEF EditsInv, TypeOK
<1>10. \A v \in Users : /\ settled'[v].deleted => settled[v].deleted
                        /\ settled'[v].perms \subseteq settled[v].perms
                        /\ settled'[v].password # None =>
                              settled'[v].password = settled[v].password
  BY <1>5
<1> HIDE DEF q
<1> QED BY <1>3, <1>5, <1>7, <1>8, <1>9, <1>10, Moves

(* removePermissions of a user: the filtered list holds nothing it was     *)
(* asked to take.                                                          *)
LEMMA RevokeLoads ==
  ASSUME AccountsAssumption, EditsInv, NEW s \in Slots, NEW u \in Users, NEW P \in Lists,
         LoadForRevoke(s, u, P)
  PROVE  EditsInv'
<1> DEFINE a == [account[u] EXCEPT !.perms = Filtered(Active(@), P)]
           q == Call("readRevoke", u, a, RolesOf(account[u]), NoFlags, P, None)
<1>0. P \in SUBSET Perms
  BY DEF Lists, Known
<1>1. /\ a.status = account[u].status /\ a.password = account[u].password
      /\ a.perms = Active(account[u].perms) \ P /\ a.roles = account[u].roles
  BY AccountFacts DEF Filtered, Account
<1>2. a \in Account
  BY <1>0, AccountFacts DEF Filtered, Active, Account
<1>3. q \in Request
  BY <1>0, <1>2, CallType, AccountFacts, Empties DEF Labels, Reads
<1>4. q.pc = "readRevoke" /\ q.row = a /\ q.ask = P
  BY CallFields
<1>5. UserOK(q, settled[u])
  <2>1. settled[u].perms \cap a.perms = {} /\ P \cap a.perms = {}
    BY <1>1, AccountFacts DEF Active
  <2> QED BY <1>1, <1>4, <2>1, AccountFacts DEF UserOK
<1>6. LocalsOK(q, settled, revoked)
  BY <1>1, <1>5, LoadedOK, AccountFacts DEF Reads
<1>7. Become(s, q) /\ UNCHANGED <<account, role, permission, settled, revoked, switched>>
  BY DEF LoadForRevoke, rest
<1> HIDE DEF q
<1> QED BY <1>3, <1>6, <1>7, PlainMoves

(* toDtoPermRoles adds to the entities what the roles hold now, and that   *)
(* is nothing settled as taken.                                            *)
LEMMA ReadsOK ==
  ASSUME AccountsAssumption, EditsInv, NEW s \in Slots, ReadRoles(s) PROVE EditsInv'
<1> DEFINE o == req[s]
           rs == WithLists(o.roles)
<1>1. o \in Request /\ LocalsOK(o, settled, revoked)
  BY DEF EditsInv, TypeOK
<1>2. PICK l \in {"grant", "revoke"} :
         /\ Become(s, Call(l, o.who, o.row, rs, NoFlags, o.ask, None))
         /\ o.pc \in Reads
         /\ l = "revoke" => o.pc = "readRevoke"
  BY DEF ReadRoles, At, Reads
<1>3. UNCHANGED <<account, role, permission, settled, revoked, switched>>
  BY DEF ReadRoles, rest
<1>4. /\ o.who \in Users /\ UserOK(o, settled[o.who])
      /\ \A r \in Roles : RoleOK(o, r, revoked[r])
  BY <1>1, <1>2 DEF LocalsOK
<1>5. \A r \in Roles : o.who # r
  BY <1>4 DEF AccountsAssumption
<1>6. o.row \in Account /\ o.roles \in [Roles -> RoleRow] /\ o.ask \in SUBSET Perms
  BY <1>1, RequestFields
<1>7. rs \in [Roles -> RoleRow]
  BY <1>6 DEF WithLists, RoleRow, EditsInv, TypeOK
<1> DEFINE q == Call(l, o.who, o.row, rs, NoFlags, o.ask, None)
<1>8. q \in Request
  BY <1>4, <1>6, <1>7, CallType, Empties DEF Labels, Saves
<1>9. /\ q.pc = l /\ q.who = o.who /\ q.row = o.row /\ q.roles = rs /\ q.ask = o.ask
  BY CallFields
<1>10. Become(s, q)
  BY <1>2
<1>11. \A r \in Roles : rs[r] = IF o.roles[r].active
                                 THEN [active |-> TRUE, perms |-> role[r].perms]
                                 ELSE o.roles[r]
  BY DEF WithLists
<1> HIDE DEF q, rs
<1>12. UserOK(q, settled[o.who])
  BY <1>2, <1>4, <1>9 DEF UserOK, Reads
<1>13. ASSUME NEW r \in Roles PROVE RoleOK(q, r, revoked[r])
  <2>1. revoked[r] \cap role[r].perms = {}
    BY DEF EditsInv
  <2>2. RoleOK(o, r, revoked[r])
    BY <1>4
  <2>3. revoked[r] \cap rs[r].perms = {}
    <3>1. rs[r].perms = role[r].perms \/ rs[r].perms = o.roles[r].perms
      <4>1. CASE o.roles[r].active
        <5>1. rs[r] = [active |-> TRUE, perms |-> role[r].perms]
          BY <1>11, <4>1
        <5> QED BY <5>1
      <4>2. CASE ~o.roles[r].active
        BY <1>11, <4>2
      <4> QED BY <4>1, <4>2
    <3>2. revoked[r] \cap o.roles[r].perms = {}
      BY <2>2 DEF RoleOK
    <3> QED BY <2>1, <3>1, <3>2
  <2>4. rs[r].active \/ rs[r].perms # {} => r \in o.row.roles
    BY <1>5, <1>11, <2>2 DEF RoleOK
  <2> QED BY <1>5, <1>9, <2>3, <2>4 DEF RoleOK
<1>14. LocalsOK(q, settled, revoked)
  BY <1>2, <1>4, <1>9, <1>12, <1>13 DEF LocalsOK, RoleReads, RoleSaves
<1> QED BY <1>3, <1>8, <1>10, <1>14, PlainMoves
-----------------------------------------------------------------------------
(* Roles.                                                                  *)

(* A request that holds one role, and what it knows of it. *)
LEMMA RoleCallOK ==
  ASSUME AccountsAssumption, EditsInv, NEW l \in RoleReads \cup RoleSaves, NEW r \in Roles,
         NEW a \in BOOLEAN, NEW Q \in SUBSET Perms, NEW P \in SUBSET Perms, NEW rv,
         rv[r] \cap Q = {},
         l = "readRoleGrant" => rv[r] \cap P = {},
         l = "roleRevoke" => P \cap Q = {}
  PROVE  /\ Call(l, r, NoAccount, Holding(r, a, Q), NoFlags, P, None) \in Request
         /\ \A st : LocalsOK(Call(l, r, NoAccount, Holding(r, a, Q), NoFlags, P, None), st, rv)
<1> DEFINE rs == Holding(r, a, Q)
           q == Call(l, r, NoAccount, rs, NoFlags, P, None)
<1>1. rs \in [Roles -> RoleRow]
  BY Empties DEF Holding, RoleRow
<1>2. q \in Request
  BY <1>1, CallType, Empties DEF Labels
<1>3. /\ q.pc = l /\ q.who = r /\ q.row = NoAccount /\ q.roles = rs /\ q.ask = P
  BY CallFields
<1>4. /\ rs[r].perms = Q
      /\ \A r2 \in Roles \ {r} : rs[r2].active = FALSE /\ rs[r2].perms = {}
  BY DEF NoRoles, Holding
<1>5. r \notin Users /\ l \notin Saves \cup Reads
  BY DEF AccountsAssumption, Saves, Reads, RoleReads, RoleSaves
<1> HIDE DEF q, rs
<1>6. ASSUME NEW r2 \in Roles PROVE RoleOK(q, r2, rv[r2])
  <2>1. CASE r2 = r
    BY <1>3, <1>4, <2>1 DEF RoleOK
  <2>2. CASE r2 # r
    BY <1>3, <1>4, <2>2 DEF RoleOK
  <2> QED BY <2>1, <2>2
<1>7. \A st : LocalsOK(q, st, rv)
  BY <1>3, <1>5, <1>6 DEF LocalsOK
<1> QED BY <1>2, <1>7 DEF q, rs

(* A step that moves one request to a role and forgets part of what was    *)
(* settled of that role.                                                   *)
LEMMA RoleMoves ==
  ASSUME AccountsAssumption, EditsInv, NEW s \in Slots, NEW r \in Roles,
         NEW q \in Request, Become(s, q), NEW P,
         UNCHANGED <<account, role, permission, settled, switched>>,
         revoked' = [revoked EXCEPT ![r] = @ \ P],
         \A st : LocalsOK(q, st, revoked')
  PROVE  EditsInv'
<1>1. /\ revoked' \in [Roles -> SUBSET Perms]
      /\ \A r2 \in Roles : revoked'[r2] \subseteq revoked[r2]
  BY DEF EditsInv, TypeOK
<1>2. settled' \in [Users -> Settled]
  BY DEF EditsInv, TypeOK
<1>3. LocalsOK(q, settled', revoked')
  OBVIOUS
<1> QED BY <1>1, <1>2, <1>3, Moves

(* updateRole: the dto's list is no longer settled as taken. *)
LEMMA RoleUpdateLoads ==
  ASSUME AccountsAssumption, EditsInv, NEW s \in Slots, NEW r \in Roles, NEW a \in BOOLEAN,
         NEW P \in SUBSET Known, LoadForRoleUpdate(s, r, a, P)
  PROVE  EditsInv'
<1> DEFINE q == Call("roleUpdate", r, NoAccount, Holding(r, a, P), NoFlags, {}, None)
<1>1. P \in SUBSET Perms /\ {} \in SUBSET Perms
  BY DEF Known
<1>2. revoked' = [revoked EXCEPT ![r] = @ \ P]
  BY DEF LoadForRoleUpdate
<1>3. revoked'[r] \cap P = {}
  BY <1>2 DEF EditsInv, TypeOK
<1>4. "roleUpdate" \in RoleReads \cup RoleSaves
  BY DEF RoleSaves
<1>5. Become(s, q) /\ UNCHANGED <<account, role, permission, settled, switched>>
  BY DEF LoadForRoleUpdate
<1>6. q \in Request /\ \A st : LocalsOK(q, st, revoked')
  BY <1>1, <1>3, <1>4, RoleCallOK
<1> HIDE DEF q
<1> QED BY <1>2, <1>5, <1>6, RoleMoves

(* addPermissions of a role: what is asked is no longer settled as taken.  *)
LEMMA RoleGrantLoads ==
  ASSUME AccountsAssumption, EditsInv, NEW s \in Slots, NEW r \in Roles, NEW P \in Lists,
         LoadForRoleGrant(s, r, P)
  PROVE  EditsInv'
<1> DEFINE q == Call("readRoleGrant", r, NoAccount, Holding(r, role[r].active, {}), NoFlags,
                     P, None)
<1>1. role[r].active \in BOOLEAN /\ {} \in SUBSET Perms
  BY DEF RoleRow, EditsInv, TypeOK
<1>2. revoked' = [revoked EXCEPT ![r] = @ \ P] /\ P \in SUBSET Perms
  BY DEF LoadForRoleGrant, Lists, Known
<1>3. revoked'[r] \cap P = {}
  BY <1>2 DEF EditsInv, TypeOK
<1>4. "readRoleGrant" \in RoleReads \cup RoleSaves
  BY DEF RoleReads
<1>5. Become(s, q) /\ UNCHANGED <<account, role, permission, settled, switched>>
  BY DEF LoadForRoleGrant
<1>6. q \in Request /\ \A st : LocalsOK(q, st, revoked')
  BY <1>1, <1>2, <1>3, <1>4, RoleCallOK
<1> HIDE DEF q
<1> QED BY <1>2, <1>5, <1>6, RoleMoves

(* removePermissions of a role, up to the read of its list. *)
LEMMA RoleRevokeLoads ==
  ASSUME AccountsAssumption, EditsInv, NEW s \in Slots, NEW r \in Roles, NEW P \in Lists,
         LoadForRoleRevoke(s, r, P)
  PROVE  EditsInv'
<1> DEFINE q == Call("readRoleRevoke", r, NoAccount, Holding(r, role[r].active, {}), NoFlags,
                     P, None)
<1>1. role[r].active \in BOOLEAN /\ {} \in SUBSET Perms
  BY DEF RoleRow, EditsInv, TypeOK
<1>2. P \in SUBSET Perms
  BY DEF Lists, Known
<1>3. "readRoleRevoke" \in RoleReads \cup RoleSaves
  BY DEF RoleReads
<1>4. Become(s, q) /\ UNCHANGED <<account, role, permission, settled, revoked, switched>>
  BY DEF LoadForRoleRevoke, rest
<1>5. q \in Request /\ \A st : LocalsOK(q, st, revoked)
  BY <1>1, <1>2, <1>3, RoleCallOK
<1> HIDE DEF q
<1> QED BY <1>4, <1>5, PlainMoves

(* The merge or the filter of a role's list: what is merged in is not      *)
(* settled as taken, what is filtered out is gone.                         *)
LEMMA RoleReadOK ==
  ASSUME AccountsAssumption, EditsInv, NEW s \in Slots, NEW r \in Roles, ReadRole(s, r)
  PROVE  EditsInv'
<1> DEFINE o == req[s]
           G == Merged(role[r].perms, o.ask)
           R == Filtered(role[r].perms, o.ask)
           q(l, Q) == Call(l, r, NoAccount, Holding(r, o.roles[r].active, Q), NoFlags, o.ask, None)
<1>1. /\ o \in Request /\ o.who = r /\ RoleOK(o, r, revoked[r])
      /\ UNCHANGED <<account, role, permission, settled, revoked, switched>>
  BY DEF EditsInv, TypeOK, LocalsOK, ReadRole, rest
<1>2. o.ask \in SUBSET Perms /\ o.roles[r].active \in BOOLEAN
  BY <1>1, RequestFields DEF RoleRow
<1>3. role[r].perms \in SUBSET Perms /\ revoked[r] \cap role[r].perms = {}
  BY DEF EditsInv, TypeOK, RoleRow
<1>4. CASE At(s, "readRoleGrant")
  <2>1. revoked[r] \cap o.ask = {}
    BY <1>1, <1>4 DEF At, RoleOK
  <2>2. G \in SUBSET Perms /\ revoked[r] \cap G = {}
    BY <1>2, <1>3, <2>1 DEF Merged
  <2>3. "roleGrant" \in RoleReads \cup RoleSaves
    BY DEF RoleSaves
  <2>4. Become(s, q("roleGrant", G))
    BY <1>4 DEF ReadRole, At
  <2> HIDE DEF G
  <2>5. q("roleGrant", G) \in Request /\ \A st : LocalsOK(q("roleGrant", G), st, revoked)
    BY <1>2, <2>2, <2>3, RoleCallOK
  <2> QED BY <1>1, <2>4, <2>5, PlainMoves
<1>5. CASE At(s, "readRoleRevoke")
  <2>1. R \in SUBSET Perms /\ revoked[r] \cap R = {} /\ o.ask \cap R = {}
    BY <1>2, <1>3 DEF Filtered
  <2>2. "roleRevoke" \in RoleReads \cup RoleSaves
    BY DEF RoleSaves
  <2>3. Become(s, q("roleRevoke", R))
    BY <1>5 DEF ReadRole, At
  <2> HIDE DEF R
  <2>4. q("roleRevoke", R) \in Request /\ \A st : LocalsOK(q("roleRevoke", R), st, revoked)
    BY <1>2, <2>1, <2>2, RoleCallOK
  <2> QED BY <1>1, <2>3, <2>4, PlainMoves
<1> QED BY <1>4, <1>5 DEF ReadRole

-----------------------------------------------------------------------------
(* Saves.                                                                  *)

(* A step that frees a slot preserves the invariant when the tables it     *)
(* leaves agree with what is settled and the other requests know of it.    *)
LEMMA Ends ==
  ASSUME AccountsAssumption, EditsInv, NEW s \in Slots, Become(s, Idle), UNCHANGED switched,
         account' \in [Users -> Account], role' \in [Roles -> RoleRow],
         permission' \in [Perms -> Flags],
         settled' \in [Users -> Settled], revoked' \in [Roles -> SUBSET Perms],
         \A u \in Users :
            /\ settled'[u].deleted => account'[u].status = "deleted"
            /\ settled'[u].password # None => account'[u].password = settled'[u].password
            /\ settled'[u].perms \cap account'[u].perms = {},
         \A r \in Roles : revoked'[r] \cap role'[r].perms = {},
         \A t \in Slots \ {s} : LocalsOK(req[t], settled', revoked')
  PROVE  EditsInv'
<1>1. TypeOK'
  BY IdleType DEF EditsInv, TypeOK, Become
<1>2. ASSUME NEW t \in Slots PROVE LocalsOK(req'[t], settled', revoked')
  <2>1. CASE t = s
    <3>1. req'[t] = Idle
      BY <2>1 DEF EditsInv, TypeOK, Become
    <3> QED BY <3>1, IdleOK
  <2>2. CASE t # s
    <3>1. req'[t] = req[t]
      BY <2>2 DEF EditsInv, TypeOK, Become
    <3> QED BY <2>2, <3>1
  <2> QED BY <2>1, <2>2
<1>3. DeletedStaysDeleted' /\ ChosenPasswordStays'
  BY DEF DeletedStaysDeleted, ChosenPasswordStays
<1> QED BY <1>1, <1>2, <1>3 DEF EditsInv

(* What is settled of a user matters only to the requests that hold it. *)
LEMMA NotHeld ==
  ASSUME NEW t \in Slots, LocalsOK(req[t], settled, revoked), NEW st,
         \A u \in Users : st[u] = settled[u] \/ ~Holds(t, u)
  PROVE  LocalsOK(req[t], st, revoked)
<1>1. ASSUME NEW u \in Users, req[t].who = u PROVE UserOK(req[t], st[u])
  <2>1. st[u] = settled[u]
    BY <1>1 DEF Holds
  <2>2. UserOK(req[t], settled[u])
    BY <1>1 DEF LocalsOK
  <2> QED BY <2>1, <2>2
<1> QED BY <1>1 DEF LocalsOK

(* A role written back by the cascade gets back a list that was read while *)
(* everything settled as taken was gone.                                   *)
LEMMA CascadeOK ==
  ASSUME EditsInv, NEW q \in Request, LocalsOK(q, settled, revoked),
         CascadeRoles(q), CascadeFlags(q)
  PROVE  /\ role' \in [Roles -> RoleRow] /\ permission' \in [Perms -> Flags]
         /\ \A r \in Roles : revoked[r] \cap role'[r].perms = {}
<1>1. /\ role \in [Roles -> RoleRow] /\ permission \in [Perms -> Flags]
      /\ q.roles \in [Roles -> RoleRow] /\ q.flags \in [Perms -> Flags]
  BY RequestFields DEF EditsInv, TypeOK
<1>2. permission' \in [Perms -> Flags]
  BY <1>1 DEF CascadeFlags
<1>3. role' \in [Roles -> RoleRow]
  BY <1>1 DEF CascadeRoles, RoleRow
<1>4. ASSUME NEW r \in Roles PROVE revoked[r] \cap role'[r].perms = {}
  <2>1. role'[r].perms = q.roles[r].perms \/ role'[r].perms = role[r].perms
    <3>1. CASE r \in ListsLoaded(q)
      BY <3>1 DEF CascadeRoles
    <3>2. CASE r \notin ListsLoaded(q)
      BY <3>2 DEF CascadeRoles
    <3> QED BY <3>1, <3>2
  <2>2. revoked[r] \cap role[r].perms = {} /\ revoked[r] \cap q.roles[r].perms = {}
    BY DEF EditsInv, LocalsOK, RoleOK
  <2> QED BY <2>1, <2>2
<1> QED BY <1>2, <1>3, <1>4

(* A save of a user: the row written agrees with all that was settled, and *)
(* with what it settles itself when no other request holds the user.       *)
LEMMA AccountSaved ==
  ASSUME AccountsAssumption, EditsInv, NEW s \in Slots, SaveAccount(s) PROVE EditsInv'
<1>1. PICK q \in Request : q = req[s]
  BY DEF EditsInv, TypeOK
<1>2. /\ LocalsOK(q, settled, revoked) /\ q.pc \in Saves
      /\ q.who \in Users /\ UserOK(q, settled[q.who])
      /\ q.row \in Account /\ q.ask \in SUBSET Perms /\ q.pw \in Passwords \cup {None}
  <2>1. LocalsOK(q, settled, revoked) /\ q.pc \in Saves
    BY <1>1 DEF EditsInv, SaveAccount
  <2>2. q.who \in Users /\ UserOK(q, settled[q.who])
    BY <2>1 DEF LocalsOK
  <2> QED BY <2>1, <2>2, RequestFields
<1>3. PICK u \in Users : u = q.who
  BY <1>2
<1>4. /\ q.pc = "create" => account[u] = NoAccount
      /\ account' = [account EXCEPT ![u] = q.row]
      /\ CascadeRoles(q) /\ CascadeFlags(q)
      /\ settled' = IF Alone(s) THEN [settled EXCEPT ![u] = Settle(@, q)] ELSE settled
      /\ Become(s, Idle) /\ UNCHANGED <<revoked, switched>>
  BY <1>1, <1>3 DEF SaveAccount, At
<1>5. account' \in [Users -> Account]
  BY <1>2, <1>4 DEF EditsInv, TypeOK
<1>6. /\ role' \in [Roles -> RoleRow] /\ permission' \in [Perms -> Flags]
      /\ \A r \in Roles : revoked'[r] \cap role'[r].perms = {}
  BY <1>2, <1>4, CascadeOK
<1>7. PICK e \in Settled : e = settled[u]
  BY AccountFacts
<1>8. /\ Settle(e, q) \in Settled
      /\ Settle(e, q).deleted => e.deleted \/ q.pc = "delete"
      /\ q.pc = "revoke" => Settle(e, q).perms = e.perms \cup q.ask
      /\ q.pc # "revoke" => Settle(e, q).perms = e.perms
      /\ q.pc = "change" => Settle(e, q).password = q.pw
      /\ q.pc # "change" => Settle(e, q).password = e.password
  BY <1>2 DEF Settle, Settled
<1>9. /\ settled' \in [Users -> Settled]
      /\ \A v \in Users \ {u} : settled'[v] = settled[v]
      /\ settled'[u] = e \/ (Alone(s) /\ settled'[u] = Settle(e, q))
  <2>1. settled \in [Users -> Settled]
    BY DEF EditsInv, TypeOK
  <2>2. CASE Alone(s)
    <3>1. settled' = [settled EXCEPT ![u] = Settle(e, q)]
      BY <1>4, <1>7, <2>2
    <3> QED BY <1>8, <2>1, <2>2, <3>1
  <2>3. CASE ~Alone(s)
    <3>1. settled' = settled
      BY <1>4, <2>3
    <3> QED BY <1>7, <2>1, <3>1
  <2> QED BY <2>2, <2>3
<1>10. /\ e.deleted => q.row.status = "deleted"
       /\ e.password # None => q.pc # "change" /\ q.row.password = e.password
       /\ e.perms \cap q.row.perms = {}
  <2>1. UserOK(q, e)
    BY <1>2, <1>3, <1>7
  <2>2. CASE q.pc = "create"
    <3>1. ~e.deleted /\ e.password = None
      BY <1>4, <1>7, <2>2, AccountFacts DEF NoAccount
    <3> QED BY <2>1, <3>1 DEF UserOK
  <2>3. CASE q.pc # "create"
    BY <2>1, <2>3 DEF UserOK
  <2> QED BY <2>2, <2>3
<1>11. /\ settled'[u].deleted => q.row.status = "deleted"
       /\ settled'[u].password # None => q.row.password = settled'[u].password
       /\ settled'[u].perms \cap q.row.perms = {}
  <2>1. /\ q.pc = "delete" => q.row.status = "deleted"
        /\ q.pc = "change" => q.row.password = q.pw
        /\ q.pc = "revoke" => q.ask \cap q.row.perms = {}
    BY <1>2 DEF UserOK
  <2>2. CASE settled'[u] = e
    BY <1>10, <2>2
  <2>3. CASE settled'[u] = Settle(e, q)
    <3>1. settled'[u].perms \cap q.row.perms = {}
      BY <1>8, <1>10, <2>1, <2>3
    <3>2. settled'[u].deleted => q.row.status = "deleted"
      BY <1>8, <1>10, <2>1, <2>3
    <3>3. settled'[u].password # None => q.row.password = settled'[u].password
      BY <1>8, <1>10, <2>1, <2>3
    <3> QED BY <3>1, <3>2, <3>3
  <2> QED BY <1>9, <2>2, <2>3
<1>12. account'[u] = q.row /\ \A v \in Users \ {u} : account'[v] = account[v]
  BY <1>4 DEF EditsInv, TypeOK
<1>13. ASSUME NEW v \in Users
       PROVE  /\ settled'[v].deleted => account'[v].status = "deleted"
              /\ settled'[v].password # None => account'[v].password = settled'[v].password
              /\ settled'[v].perms \cap account'[v].perms = {}
  <2>1. CASE v = u
    BY <1>11, <1>12, <2>1
  <2>2. CASE v # u
    <3>1. settled'[v] = settled[v] /\ account'[v] = account[v]
      BY <1>9, <1>12, <2>2
    <3> QED BY <3>1, AccountFacts
  <2> QED BY <2>1, <2>2
<1>14. ASSUME NEW t \in Slots \ {s} PROVE LocalsOK(req[t], settled', revoked')
  <2>1. LocalsOK(req[t], settled, revoked)
    BY DEF EditsInv
  <2>2. \A v \in Users : settled'[v] = settled[v] \/ ~Holds(t, v)
    BY <1>1, <1>3, <1>7, <1>9 DEF Alone
  <2>3. LocalsOK(req[t], settled', revoked)
    BY <2>1, <2>2, NotHeld
  <2> QED BY <1>4, <2>3
<1>15. revoked' \in [Roles -> SUBSET Perms]
  BY <1>4 DEF EditsInv, TypeOK
<1> QED BY <1>4, <1>5, <1>6, <1>9, <1>13, <1>14, <1>15, Ends

(* A save of a role: what it takes is gone from the list it writes, and    *)
(* from the lists of the other requests when none of them holds the role.  *)
LEMMA RoleSaved ==
  ASSUME AccountsAssumption, EditsInv, NEW s \in Slots, SaveRole(s) PROVE EditsInv'
<1>1. PICK q \in Request : q = req[s]
  BY DEF EditsInv, TypeOK
<1>2. /\ LocalsOK(q, settled, revoked) /\ q.pc \in RoleSaves /\ q.who \in Roles
      /\ q.roles \in [Roles -> RoleRow] /\ q.ask \in SUBSET Perms
  <2>1. LocalsOK(q, settled, revoked) /\ q.pc \in RoleSaves
    BY <1>1 DEF EditsInv, SaveRole
  <2>2. q.who \in Roles
    BY <2>1 DEF LocalsOK
  <2> QED BY <2>1, <2>2, RequestFields
<1>3. PICK r \in Roles : r = q.who
  BY <1>2
<1>4. /\ role' = [role EXCEPT ![r] = q.roles[r]]
      /\ revoked' = IF Alone(s) THEN [revoked EXCEPT ![r] = @ \cup Taken(q)] ELSE revoked
      /\ Become(s, Idle) /\ UNCHANGED <<account, permission, settled, switched>>
  BY <1>1, <1>3 DEF SaveRole
<1>5. PICK T \in SUBSET Perms : T = Taken(q)
  BY <1>2 DEF Taken
<1>6. T \cap q.roles[r].perms = {} /\ revoked[r] \cap q.roles[r].perms = {}
  <2>1. RoleOK(q, r, revoked[r])
    BY <1>2 DEF LocalsOK
  <2>2. q.pc = "roleRevoke" => q.ask \cap q.roles[r].perms = {}
    BY <1>3, <2>1 DEF RoleOK
  <2>3. T \cap q.roles[r].perms = {}
    BY <1>3, <1>5, <2>2 DEF Taken
  <2> QED BY <2>1, <2>3 DEF RoleOK
<1>7. /\ revoked' \in [Roles -> SUBSET Perms]
      /\ \A r2 \in Roles \ {r} : revoked'[r2] = revoked[r2]
      /\ revoked'[r] = revoked[r] \/ (Alone(s) /\ revoked'[r] = revoked[r] \cup T)
  <2>1. revoked \in [Roles -> SUBSET Perms]
    BY DEF EditsInv, TypeOK
  <2>2. CASE Alone(s)
    <3>1. revoked' = [revoked EXCEPT ![r] = @ \cup T]
      BY <1>4, <1>5, <2>2
    <3> QED BY <2>1, <2>2, <3>1
  <2>3. CASE ~Alone(s)
    <3>1. revoked' = revoked
      BY <1>4, <2>3
    <3> QED BY <2>1, <3>1
  <2> QED BY <2>2, <2>3
<1>8. /\ role' \in [Roles -> RoleRow]
      /\ role'[r] = q.roles[r] /\ \A r2 \in Roles \ {r} : role'[r2] = role[r2]
  BY <1>2, <1>4 DEF EditsInv, TypeOK
<1>9. ASSUME NEW r2 \in Roles PROVE revoked'[r2] \cap role'[r2].perms = {}
  <2>1. CASE r2 = r
    BY <1>6, <1>7, <1>8, <2>1
  <2>2. CASE r2 # r
    <3>1. revoked'[r2] = revoked[r2] /\ role'[r2] = role[r2]
      BY <1>7, <1>8, <2>2
    <3>2. revoked[r2] \cap role[r2].perms = {}
      BY DEF EditsInv
    <3> QED BY <3>1, <3>2
  <2> QED BY <2>1, <2>2
<1>10. ASSUME NEW t \in Slots \ {s} PROVE LocalsOK(req[t], settled', revoked')
  <2>1. LocalsOK(req[t], settled, revoked)
    BY DEF EditsInv
  <2>2. ASSUME NEW r2 \in Roles PROVE RoleOK(req[t], r2, revoked'[r2])
    <3>1. RoleOK(req[t], r2, revoked[r2])
      BY <2>1 DEF LocalsOK
    <3>2. CASE revoked'[r2] = revoked[r2]
      BY <3>1, <3>2
    <3>3. CASE revoked'[r2] # revoked[r2]
      <4>1. r2 = r /\ Alone(s)
        BY <1>7, <3>3
      <4>2. req[t].who # r2 /\ r2 \notin req[t].row.roles
        BY <1>1, <1>3, <4>1 DEF Alone, Holds
      <4>3. req[t].roles[r2].perms = {}
        BY <3>1, <4>2 DEF RoleOK
      <4> QED BY <3>1, <4>2, <4>3 DEF RoleOK
    <3> QED BY <3>2, <3>3
  <2> QED BY <1>4, <2>1, <2>2 DEF LocalsOK
<1>11. /\ account' \in [Users -> Account] /\ permission' \in [Perms -> Flags]
       /\ settled' \in [Users -> Settled]
  BY <1>4 DEF EditsInv, TypeOK
<1>12. ASSUME NEW v \in Users
       PROVE  /\ settled'[v].deleted => account'[v].status = "deleted"
              /\ settled'[v].password # None => account'[v].password = settled'[v].password
              /\ settled'[v].perms \cap account'[v].perms = {}
  BY <1>4, AccountFacts
<1> QED BY <1>4, <1>7, <1>8, <1>9, <1>10, <1>11, <1>12, Ends

-----------------------------------------------------------------------------
(* Steps of no request.                                                    *)

(* resetPassword settles the password it writes when no request in flight  *)
(* holds another one.                                                      *)
LEMMA PasswordWritten ==
  ASSUME AccountsAssumption, EditsInv, NEW u \in Users, ResetPassword(u) PROVE EditsInv'
<1>1. PICK p \in Passwords :
         /\ account' = [account EXCEPT ![u].password = p]
         /\ settled' = [settled EXCEPT ![u].password =
                          IF \A t \in Slots : ~Holds(t, u) THEN p ELSE None]
  BY DEF ResetPassword
<1>2. UNCHANGED <<role, permission, revoked, switched, req>>
  BY DEF ResetPassword, rest
<1>3. /\ account \in [Users -> Account] /\ settled \in [Users -> Settled]
  BY DEF EditsInv, TypeOK
<1>4. /\ account' \in [Users -> Account]
      /\ account'[u].password = p /\ account'[u].status = account[u].status
      /\ account'[u].perms = account[u].perms
      /\ \A v \in Users \ {u} : account'[v] = account[v]
  BY <1>1, <1>3 DEF Account
<1>5. PICK n \in Passwords \cup {None} : n = IF \A t \in Slots : ~Holds(t, u) THEN p ELSE None
  OBVIOUS
<1>6. /\ settled' \in [Users -> Settled]
      /\ settled'[u].password = n /\ settled'[u].deleted = settled[u].deleted
      /\ settled'[u].perms = settled[u].perms
      /\ \A v \in Users \ {u} : settled'[v] = settled[v]
  <2>1. settled' = [settled EXCEPT ![u].password = n]
    BY <1>1, <1>5
  <2> QED BY <1>3, <2>1 DEF Settled
<1>7. TypeOK'
  BY <1>2, <1>4, <1>6 DEF EditsInv, TypeOK
<1>8. ASSUME NEW v \in Users
      PROVE  /\ settled'[v].deleted => account'[v].status = "deleted"
             /\ settled'[v].password # None => account'[v].password = settled'[v].password
             /\ settled'[v].perms \cap account'[v].perms = {}
  <2>1. CASE v = u
    BY <1>4, <1>5, <1>6, <2>1, AccountFacts
  <2>2. CASE v # u
    <3>1. settled'[v] = settled[v] /\ account'[v] = account[v]
      BY <1>4, <1>6, <2>2
    <3> QED BY <3>1, AccountFacts
  <2> QED BY <2>1, <2>2
<1>9. ASSUME NEW t \in Slots PROVE LocalsOK(req[t], settled', revoked)
  <2>1. LocalsOK(req[t], settled, revoked)
    BY DEF EditsInv
  <2>2. ASSUME NEW v \in Users, req[t].who = v PROVE UserOK(req[t], settled'[v])
    <3>1. UserOK(req[t], settled[v])
      BY <2>1, <2>2 DEF LocalsOK
    <3>2. CASE v = u
      <4>1. settled'[v].password = None
        BY <1>5, <1>6, <2>2, <3>2 DEF Holds
      <4> QED BY <1>6, <3>1, <3>2, <4>1 DEF UserOK
    <3>3. CASE v # u
      <4>1. settled'[v] = settled[v]
        BY <1>6, <3>3
      <4> QED BY <3>1, <4>1
    <3> QED BY <3>2, <3>3
  <2> QED BY <2>1, <2>2 DEF LocalsOK
<1>10. DeletedStaysDeleted' /\ ChosenPasswordStays'
  BY <1>8 DEF DeletedStaysDeleted, ChosenPasswordStays
<1>11. \A r \in Roles : revoked'[r] \cap role'[r].perms = {}
  BY <1>2 DEF EditsInv
<1> QED BY <1>2, <1>7, <1>8, <1>9, <1>10, <1>11 DEF EditsInv

(* Flags of permissions, and steps that change nothing. *)
LEMMA FlagsWritten ==
  ASSUME EditsInv, permission' \in [Perms -> Flags],
         switched' \in [Perms -> {"on", "off", None}],
         UNCHANGED <<account, role, req, settled, revoked>>
  PROVE  EditsInv'
<1>1. TypeOK' /\ DeletedStaysDeleted' /\ ChosenPasswordStays'
  BY DEF EditsInv, TypeOK, DeletedStaysDeleted, ChosenPasswordStays
<1>2. ASSUME NEW s \in Slots PROVE LocalsOK(req'[s], settled', revoked')
  <2>1. LocalsOK(req[s], settled, revoked)
    BY DEF EditsInv
  <2> QED BY <2>1
<1> QED BY <1>1, <1>2 DEF EditsInv

-----------------------------------------------------------------------------
(* Nothing is settled at the start. *)
LEMMA InitInv == ASSUME AccountsAssumption, Init PROVE EditsInv
<1>1. \A u \in Users : settled[u] = NothingSettled
  BY DEF Init
<1>2. NothingSettled.deleted = FALSE /\ NothingSettled.perms = {} /\ NothingSettled.password = None
  BY DEF NothingSettled
<1>3. TypeOK
  <2>1. account \in [Users -> Account] /\ settled \in [Users -> Settled]
    BY Empties DEF Init, Administrator, Account
  <2>2. permission \in [Perms -> Flags] /\ req \in [Slots -> Request]
    BY IdleType DEF Init, Flags
  <2>3. role \in [Roles -> RoleRow]
    BY DEF Init, Known, RoleRow
  <2>4. revoked \in [Roles -> SUBSET Perms]
    BY DEF Init
  <2>5. switched \in [Perms -> {"on", "off", None}]
    BY DEF Init
  <2> QED BY <2>1, <2>2, <2>3, <2>4, <2>5 DEF TypeOK
<1>4. DeletedStaysDeleted /\ ChosenPasswordStays
  BY <1>1, <1>2 DEF DeletedStaysDeleted, ChosenPasswordStays
<1>5. ASSUME NEW s \in Slots PROVE LocalsOK(req[s], settled, revoked)
  <2>1. req[s] = Idle
    BY DEF Init
  <2> QED BY <2>1, IdleOK
<1>6. \A u \in Users : settled[u].perms \cap account[u].perms = {}
  BY <1>1, <1>2
<1>7. \A r \in Roles : revoked[r] \cap role[r].perms = {}
  BY DEF Init
<1> QED BY <1>3, <1>4, <1>5, <1>6, <1>7 DEF EditsInv

(* Every step keeps what is settled. *)
LEMMA NextInv == ASSUME AccountsAssumption, EditsInv, [Next]_vars PROVE EditsInv'
<1>1. ASSUME NEW s \in Slots, NEW u \in Users, UserEdit(s, u) PROVE EditsInv'
  BY <1>1, CreateLoads, UpdateLoads, DeleteLoads, ChangeLoads, GrantLoads, RevokeLoads
     DEF UserEdit
<1>2. ASSUME NEW s \in Slots, NEW r \in Roles, RoleEdit(s, r) PROVE EditsInv'
  BY <1>2, RoleUpdateLoads, RoleGrantLoads, RoleRevokeLoads, RoleReadOK DEF RoleEdit
<1>3. ASSUME NEW p \in Perms, PermissionEdit(p) PROVE EditsInv'
  <2>1. permission \in [Perms -> Flags]
    BY DEF EditsInv, TypeOK
  <2>2. permission' \in [Perms -> Flags]
    BY <1>3, <2>1 DEF PermissionEdit, CreatePermission, UpdatePermission, Flags
  <2>3. UNCHANGED <<account, role, req, settled, revoked>>
    BY <1>3 DEF PermissionEdit, CreatePermission, UpdatePermission
  <2>4. switched' \in [Perms -> {"on", "off", None}]
    BY <1>3 DEF PermissionEdit, CreatePermission, UpdatePermission, Flags, EditsInv, TypeOK
  <2> QED BY <2>2, <2>3, <2>4, FlagsWritten
<1>4. CASE UNCHANGED vars
  <2>1. /\ permission' \in [Perms -> Flags] /\ switched' \in [Perms -> {"on", "off", None}]
        /\ UNCHANGED <<account, role, req, settled, revoked>>
    BY <1>4 DEF vars, EditsInv, TypeOK
  <2> QED BY <2>1, FlagsWritten
<1>5. CASE Next
  BY <1>1, <1>2, <1>3, <1>5, ReadsOK, AccountSaved, RoleSaved, Answered, PasswordWritten
     DEF Next
<1> QED BY <1>4, <1>5

(* What an edit settled with no other edit of its row in flight, the       *)
(* tables and the entities of all requests know from then on.              *)
THEOREM EditsSettled == Spec => []EditsInv
<1>1. Init => EditsInv
  BY InitInv, AccountsAssumption
<1>2. EditsInv /\ [Next]_vars => EditsInv'
  BY NextInv, AccountsAssumption
<1> QED BY <1>1, <1>2, PTL DEF Spec

(* The tables and the requests in flight have their types. *)
THEOREM AccountsTyped == Spec => []TypeOK
<1>1. EditsInv => TypeOK
  BY DEF EditsInv
<1> QED BY <1>1, EditsSettled, PTL

(* deleteUser: an account deleted with no other edit of it in flight is    *)
(* never active again.                                                     *)
THEOREM DeletedForGood == Spec => []DeletedStaysDeleted
<1>1. EditsInv => DeletedStaysDeleted
  BY DEF EditsInv
<1> QED BY <1>1, EditsSettled, PTL

(* changePassword, resetPassword: a password set with no other edit of the *)
(* account in flight stays until someone asks for another.                 *)
THEOREM PasswordKept == Spec => []ChosenPasswordStays
<1>1. EditsInv => ChosenPasswordStays
  BY DEF EditsInv
<1> QED BY <1>1, EditsSettled, PTL

(* removePermissions: a permission taken from a user and from the user's   *)
(* roles opens no route in the permissions guard.                          *)
THEOREM RevokedOpensNothing == Spec => []RevokedIsRefused
<1>1. ASSUME EditsInv PROVE RevokedIsRefused
  <2>1. ASSUME NEW u \in Users, NEW p \in settled[u].perms,
               \A r \in account[u].roles : p \in revoked[r]
        PROVE  ~Allowed(u, p)
    <3>1. account[u].roles \subseteq Roles
      BY <1>1 DEF EditsInv, TypeOK, Account
    <3>2. p \notin account[u].perms
      BY <1>1 DEF EditsInv
    <3>3. \A r \in account[u].roles : p \notin role[r].perms
      BY <1>1, <2>1, <3>1 DEF EditsInv
    <3> QED BY <3>2, <3>3 DEF Allowed, Active
  <2> QED BY <2>1 DEF RevokedIsRefused
<1> QED BY <1>1, EditsSettled, PTL
-----------------------------------------------------------------------------
(* The flags of permissions.                                               *)

Loading == {"update", "delete", "change"}

(* A request moves on, with the flags as they are now or with none it      *)
(* would write.                                                            *)
LEMMA FlagsMove ==
  ASSUME FlagsInv, TypeOK', NEW s \in Slots, NEW q, Become(s, q),
         UNCHANGED <<permission, switched>>,
         q.pc \in Loading => q.flags = permission /\ q.row.perms \subseteq Perms
  PROVE  FlagsInv'
<1>1. SwitchStays'
  BY DEF FlagsInv, SwitchStays
<1>2. ASSUME NEW t \in Slots, NEW p \in FlagsLoaded(req'[t]), switched'[p] # None
      PROVE  req'[t].flags[p] = switched'[p]
  <2>1. CASE t = s
    <3>1. req'[t] = q
      BY <2>1 DEF FlagsInv, TypeOK, Become
    <3>2. q.pc \in Loading /\ p \in Perms
      BY <1>2, <3>1 DEF FlagsLoaded, Loading
    <3>3. permission[p] = switched[p]
      BY <1>2, <3>2 DEF FlagsInv, SwitchStays
    <3> QED BY <3>1, <3>2, <3>3
  <2>2. CASE t # s
    <3>1. req'[t] = req[t]
      BY <2>2 DEF FlagsInv, TypeOK, Become
    <3> QED BY <1>2, <3>1 DEF FlagsInv
  <2> QED BY <2>1, <2>2
<1> QED BY <1>1, <1>2 DEF FlagsInv

(* The loads of a user: the three that will write flags read them now. *)
LEMMA UserEditFlags ==
  ASSUME FlagsInv, TypeOK', NEW s \in Slots, NEW u \in Users, UserEdit(s, u)
  PROVE  FlagsInv'
<1>1. account[u] \in Account
  BY DEF FlagsInv, TypeOK
<1>2. UNCHANGED <<permission, switched>>
  BY DEF UserEdit, LoadForCreate, LoadForUpdate, LoadForDelete, LoadForChange, LoadForGrant,
         LoadForRevoke, rest
<1>3. ASSUME NEW p \in Passwords, NEW r \in Roles, LoadForCreate(s, u, p, r) PROVE FlagsInv'
  <2> DEFINE q == Call("create", u, NewAccount(p, r),
                       Holding(r, role[r].active, role[r].perms), NoFlags, {}, None)
  <2>1. Become(s, q) /\ q.pc = "create"
    BY <1>3, CallFields DEF LoadForCreate
  <2> HIDE DEF q
  <2> QED BY <1>2, <2>1, FlagsMove DEF Loading
<1>4. CASE LoadForUpdate(s, u)
  <2> DEFINE q == Call("update", u, account[u], RolesOf(account[u]), permission, {}, None)
  <2>1. Become(s, q) /\ q.flags = permission /\ q.row.perms \subseteq Perms
    BY <1>1, <1>4, CallFields DEF LoadForUpdate, Account
  <2> HIDE DEF q
  <2> QED BY <1>2, <2>1, FlagsMove
<1>5. CASE LoadForDelete(s, u)
  <2> DEFINE q == Call("delete", u, Deleted(account[u]), RolesOf(account[u]), permission,
                       {}, None)
  <2>1. Become(s, q) /\ q.flags = permission /\ q.row = Deleted(account[u])
    BY <1>5, CallFields DEF LoadForDelete
  <2>2. Deleted(account[u]).perms \subseteq Perms
    BY <1>1 DEF Deleted, Account
  <2> HIDE DEF q
  <2> QED BY <1>2, <2>1, <2>2, FlagsMove
<1>6. ASSUME NEW p \in Passwords, LoadForChange(s, u, p) PROVE FlagsInv'
  <2> DEFINE q == Call("change", u, WithPassword(account[u], p), RolesOf(account[u]),
                       permission, {}, p)
  <2>1. Become(s, q) /\ q.flags = permission /\ q.row = WithPassword(account[u], p)
    BY <1>6, CallFields DEF LoadForChange
  <2>2. WithPassword(account[u], p).perms \subseteq Perms
    BY <1>1 DEF WithPassword, Account
  <2> HIDE DEF q
  <2> QED BY <1>2, <2>1, <2>2, FlagsMove
<1>7. ASSUME NEW P \in Lists, LoadForGrant(s, u, P) \/ LoadForRevoke(s, u, P) PROVE FlagsInv'
  <2>1. PICK l, a : /\ Become(s, Call(l, u, a, RolesOf(account[u]), NoFlags, P, None))
                    /\ l \in Reads
    BY <1>7 DEF LoadForGrant, LoadForRevoke, Reads
  <2> DEFINE q == Call(l, u, a, RolesOf(account[u]), NoFlags, P, None)
  <2>2. q.pc \notin Loading
    BY <2>1, CallFields DEF Reads, Loading
  <2> HIDE DEF q
  <2> QED BY <1>2, <2>1, <2>2, FlagsMove DEF q
<1> QED BY <1>3, <1>4, <1>5, <1>6, <1>7 DEF UserEdit

(* Edits of roles, and the reads of lists, hold no flag. *)
LEMMA OtherEditFlags ==
  ASSUME FlagsInv, TypeOK', NEW s \in Slots,
         (\E r \in Roles : RoleEdit(s, r)) \/ ReadRoles(s) \/ SaveRole(s) \/ QueryFails(s)
  PROVE  FlagsInv'
<1>1. UNCHANGED <<permission, switched>>
  BY DEF RoleEdit, LoadForRoleUpdate, LoadForRoleGrant, LoadForRoleRevoke, ReadRole, ReadRoles,
         SaveRole, QueryFails, rest
<1>2. \E l, w, a, rs, fs, P, p : /\ Become(s, Call(l, w, a, rs, fs, P, p))
                                 /\ l \notin Loading
  BY DEF RoleEdit, LoadForRoleUpdate, LoadForRoleGrant, LoadForRoleRevoke, ReadRole, ReadRoles,
         SaveRole, QueryFails, Idle, Loading
<1>3. PICK l, w, a, rs, fs, P, p : /\ Become(s, Call(l, w, a, rs, fs, P, p))
                                   /\ l \notin Loading
  BY <1>2
<1> DEFINE q == Call(l, w, a, rs, fs, P, p)
<1>4. Become(s, q) /\ q.pc \notin Loading
  BY <1>3, CallFields
<1> HIDE DEF q
<1> QED BY <1>1, <1>4, FlagsMove

(* A save of a user writes flags that are not older than the switch. *)
LEMMA SaveFlags ==
  ASSUME FlagsInv, TypeOK', NEW s \in Slots, SaveAccount(s) PROVE FlagsInv'
<1>1. /\ CascadeFlags(req[s]) /\ Become(s, Idle) /\ switched' = switched
  BY DEF SaveAccount
<1>2. ASSUME NEW p \in Perms, switched[p] # None PROVE permission'[p] = switched[p]
  <2>1. CASE p \in FlagsLoaded(req[s])
    <3>1. permission'[p] = req[s].flags[p]
      BY <1>1, <2>1 DEF CascadeFlags
    <3> QED BY <1>2, <2>1, <3>1 DEF FlagsInv
  <2>2. CASE p \notin FlagsLoaded(req[s])
    <3>1. permission'[p] = permission[p]
      BY <1>1, <2>2 DEF CascadeFlags
    <3> QED BY <1>2, <3>1 DEF FlagsInv, SwitchStays
  <2> QED BY <2>1, <2>2
<1>3. SwitchStays'
  BY <1>1, <1>2 DEF SwitchStays
<1>4. ASSUME NEW t \in Slots, NEW p \in FlagsLoaded(req'[t]), switched'[p] # None
      PROVE  req'[t].flags[p] = switched'[p]
  <2>1. CASE t = s
    <3>1. req'[t] = Idle
      BY <1>1, <2>1 DEF FlagsInv, TypeOK, Become
    <3>2. FlagsLoaded(req'[t]) = {}
      BY <3>1, CallFields DEF Idle, FlagsLoaded
    <3> QED BY <3>2
  <2>2. CASE t # s
    <3>1. req'[t] = req[t]
      BY <1>1, <2>2 DEF FlagsInv, TypeOK, Become
    <3> QED BY <1>1, <1>4, <3>1 DEF FlagsInv
  <2> QED BY <2>1, <2>2
<1> QED BY <1>3, <1>4 DEF FlagsInv

(* updatePermission: the switch is settled when no request holds the flag. *)
LEMMA SwitchFlags ==
  ASSUME FlagsInv, TypeOK', NEW p \in Perms, PermissionEdit(p) PROVE FlagsInv'
<1>0. /\ permission \in [Perms -> Flags] /\ switched \in [Perms -> {"on", "off", None}]
      /\ req' = req
  BY DEF FlagsInv, TypeOK, PermissionEdit, CreatePermission, UpdatePermission
<1>1. ASSUME NEW o \in Perms \ {p}
      PROVE  permission'[o] = permission[o] /\ switched'[o] = switched[o]
  BY <1>0 DEF PermissionEdit, CreatePermission, UpdatePermission
<1>2. /\ switched'[p] # None => permission'[p] = switched'[p]
      /\ \/ switched'[p] = None
         \/ \A s \in Slots : p \notin FlagsLoaded(req[s])
  <2>1. CASE CreatePermission(p)
    <3>1. switched[p] = None
      BY <1>0, <2>1 DEF CreatePermission, FlagsInv, SwitchStays
    <3> QED BY <2>1, <3>1 DEF CreatePermission
  <2>2. CASE UpdatePermission(p)
    BY <1>0, <2>2 DEF UpdatePermission
  <2> QED BY <2>1, <2>2 DEF PermissionEdit
<1>3. SwitchStays'
  BY <1>1, <1>2 DEF FlagsInv, SwitchStays
<1>4. ASSUME NEW t \in Slots, NEW o \in FlagsLoaded(req'[t]), switched'[o] # None
      PROVE  req'[t].flags[o] = switched'[o]
  <2>1. o \in Perms
    BY <1>0, <1>4, RequestFields DEF FlagsLoaded, FlagsInv, TypeOK, Account
  <2>2. o # p
    BY <1>0, <1>2, <1>4
  <2> QED BY <1>0, <1>1, <1>4, <2>1, <2>2 DEF FlagsInv
<1> QED BY <1>3, <1>4 DEF FlagsInv

(* Every step keeps the switches that are settled. *)
LEMMA NextFlags == ASSUME FlagsInv, TypeOK', [Next]_vars PROVE FlagsInv'
<1>1. CASE UNCHANGED vars
  BY <1>1 DEF FlagsInv, SwitchStays, FlagsLoaded, vars
<1>2. ASSUME NEW u \in Users, ResetPassword(u) PROVE FlagsInv'
  BY <1>2 DEF ResetPassword, rest, FlagsInv, SwitchStays, FlagsLoaded
<1>3. CASE Next
  BY <1>2, <1>3, UserEditFlags, OtherEditFlags, SaveFlags, SwitchFlags DEF Next
<1> QED BY <1>1, <1>3

(* The flags in memory that a save will write are those that are settled.  *)
THEOREM FlagsSettled == Spec => []FlagsInv
<1>1. Init => FlagsInv
  <2> SUFFICES ASSUME Init PROVE FlagsInv
    OBVIOUS
  <2>1. TypeOK
    BY InitInv, AccountsAssumption DEF EditsInv
  <2>2. \A p \in Perms : switched[p] = None
    BY DEF Init
  <2>3. \A s \in Slots : FlagsLoaded(req[s]) = {}
    BY CallFields DEF Init, Idle, FlagsLoaded
  <2> QED BY <2>1, <2>2, <2>3 DEF FlagsInv, SwitchStays
<1>2. FlagsInv /\ TypeOK' /\ [Next]_vars => FlagsInv'
  BY NextFlags
<1> QED BY <1>1, <1>2, AccountsTyped, PTL DEF Spec

(* updatePermission: a permission switched while no request holds its row  *)
(* stays so until the next update of it.                                   *)
THEOREM SwitchKept == Spec => []SwitchStays
<1>1. FlagsInv => SwitchStays
  BY DEF FlagsInv
<1> QED BY <1>1, FlagsSettled, PTL
=============================================================================
