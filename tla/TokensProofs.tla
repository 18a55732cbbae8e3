---------------------------- MODULE TokensProofs ----------------------------
(***************************************************************************)
(* Proofs about Tokens, for any number of users, ids, slots and faults.    *)
(* SessionInv is inductive; the properties follow from it.  With one       *)
(* request in flight Tokens implements Sessions: every query is a step of  *)
(* the registry or changes nothing it sees.                                *)
(***************************************************************************)
EXTENDS TokensRefinement, FiniteSetTheorems, TLAPS

USE DEF At

(* Every action changes at most one request: it goes to another query or   *)
(* ends.  The row columns and the status never go back.                    *)
Advance ==
    /\ \A t \in TokenIds \ Unused : row'[t] = row[t]
    /\ \A t \in TokenIds \ Unused : t \notin live => t \notin live'
    /\ \A u \in Users : status[u] # "absent" => status'[u] # "absent"

-----------------------------------------------------------------------------
(* Type correctness: every handler writes rows, locals and statuses of     *)
(* their types, whatever it finds.                                         *)

(* An empty token table and idle slots have their types. *)
LEMMA InitType == ASSUME TokensAssumption, Init PROVE TypeOK
  BY DEF TokensAssumption, Init, TypeOK, Row, NoRow, Request, Idle, Call, Ops, Labels, Status

(* The queries a request can be at. *)
LEMMA LabelsOf ==
  /\ "findUser" \in Labels /\ "createUser" \in Labels /\ "insertRefresh" \in Labels
  /\ "insertAccess" \in Labels /\ "verifyRefresh" \in Labels /\ "verifyCatch" \in Labels
  /\ "handlerCatch" \in Labels /\ "killSiblings" \in Labels /\ "verifyAccess" \in Labels
  /\ "rejectAccess" \in Labels /\ "findAccess" \in Labels /\ "findParent" \in Labels
  /\ "killRefresh" \in Labels /\ "killChildren" \in Labels /\ "killAll" \in Labels
  BY DEF Labels

(* A request made of typed parts is a request. *)
LEMMA CallType ==
  ASSUME NEW o \in Ops, NEW l \in Labels, NEW u \in Users \cup {NoUser},
         NEW t \in TokenIds \cup {NoToken}, NEW r \in TokenIds \cup {NoToken}
  PROVE  Call(o, l, u, t, r) \in Request
  BY DEF Call, Request

(* The parts of a request. *)
LEMMA CallFields ==
  ASSUME NEW o, NEW l, NEW u, NEW t, NEW r
  PROVE  /\ Call(o, l, u, t, r).pc = l
         /\ Call(o, l, u, t, r).user = u
         /\ Call(o, l, u, t, r).ref = r
  BY DEF Call

(* A free slot is a request too. *)
LEMMA IdleType == Idle \in Request
  BY CallType DEF Idle, Ops, Labels

(* The three ways a handler leaves its slot. *)
LEMMA SlotType ==
  ASSUME req \in [Slots -> Request], NEW s \in Slots
  PROVE  /\ Answer(s) => req' \in [Slots -> Request]
         /\ \A l \in Labels : Goto(s, l) => req' \in [Slots -> Request]
         /\ \A l \in Labels, u \in Users \cup {NoUser}, r \in TokenIds \cup {NoToken} :
               Continue(s, l, u, r) => req' \in [Slots -> Request]
<1>1. /\ req[s].op \in Ops /\ req[s].user \in Users \cup {NoUser}
      /\ req[s].tok \in TokenIds \cup {NoToken} /\ req[s].ref \in TokenIds \cup {NoToken}
  BY DEF Request
<1>2. ASSUME NEW l \in Labels, NEW u \in Users \cup {NoUser},
             NEW r \in TokenIds \cup {NoToken}, Continue(s, l, u, r)
      PROVE  req' \in [Slots -> Request]
  <2>1. Call(req[s].op, l, u, req[s].tok, r) \in Request
    BY <1>1, CallType
  <2> QED BY <1>2, <2>1 DEF Continue
<1>3. ASSUME NEW l \in Labels, Goto(s, l) PROVE req' \in [Slots -> Request]
  BY <1>1, <1>2, <1>3 DEF Goto
<1>4. Answer(s) => req' \in [Slots -> Request]
  BY IdleType DEF Answer
<1> QED BY <1>2, <1>3, <1>4

(* An arriving request leaves every table as it was and every slot typed. *)
LEMMA BeginType ==
  ASSUME TypeOK, NEW s \in Slots, Begin(s) PROVE TypeOK'
<1> USE DEF TypeOK
<1>1. req' \in [Slots -> Request]
  <2>1. CASE BeginLogin(s)
    <3>1. PICK o \in LoginOps, u \in Users :
             req' = [req EXCEPT ![s] = Call(o, "findUser", u, NoToken, NoToken)]
      BY <2>1 DEF BeginLogin
    <3>2. Call(o, "findUser", u, NoToken, NoToken) \in Request
      BY CallType DEF Ops, Labels, LoginOps
    <3> QED BY <3>1, <3>2
  <2>2. CASE BeginRefresh(s)
    <3>1. PICK t \in TokenIds :
             req' = [req EXCEPT ![s] = Call("refresh", "verifyRefresh", NoUser, NoToken, t)]
      BY <2>2 DEF BeginRefresh
    <3>2. Call("refresh", "verifyRefresh", NoUser, NoToken, t) \in Request
      BY CallType DEF Ops, Labels
    <3> QED BY <3>1, <3>2
  <2>3. CASE BeginGuarded(s)
    <3>1. PICK o \in {"logout", "logoutAll"}, t \in TokenIds :
             req' = [req EXCEPT ![s] = Call(o, "verifyAccess", NoUser, t, NoToken)]
      BY <2>3 DEF BeginGuarded
    <3>2. Call(o, "verifyAccess", NoUser, t, NoToken) \in Request
      BY CallType DEF Ops, Labels
    <3> QED BY <3>1, <3>2
  <2> QED BY <2>1, <2>2, <2>3 DEF Begin
<1> QED BY <1>1 DEF Begin, BeginLogin, BeginRefresh, BeginGuarded

(* generateTokens saves rows of the row type. *)
LEMMA InsertType ==
  ASSUME TypeOK, NEW t \in TokenIds, NEW type \in {"refresh", "access"},
         NEW u \in Users \cup {NoUser}, NEW p \in TokenIds \cup {NoToken},
         Insert(t, type, u, p)
  PROVE  row' \in [TokenIds -> Row] /\ live' \subseteq TokenIds
  BY DEF TypeOK, Insert, Row

(* Every query of every handler keeps the types. *)
LEMMA ProceedType ==
  ASSUME TypeOK, NEW s \in Slots, Proceed(s), LocalsOK(s) PROVE TypeOK'
<1> USE DEF TypeOK
<1>a. /\ req[s].user \in Users \cup {NoUser}
      /\ req[s].tok \in TokenIds \cup {NoToken}
      /\ req[s].ref \in TokenIds \cup {NoToken}
  BY DEF Request
<1>b. \A t \in TokenIds : /\ row[t].user \in Users \cup {NoUser}
                          /\ row[t].parent \in TokenIds \cup {NoToken}
  BY DEF Row
<1>1. CASE FindUser(s)
  <2>1. Answer(s) \/ Goto(s, "createUser") \/ Goto(s, "insertRefresh")
    BY <1>1 DEF FindUser
  <2>2. req' \in [Slots -> Request]
    BY <2>1, LabelsOf, SlotType
  <2> QED BY <1>1, <2>2 DEF FindUser
<1>2. CASE CreateUser(s)
  <2>1. req' \in [Slots -> Request]
    BY <1>2, LabelsOf, SlotType DEF CreateUser
  <2>2. status' \in [Users -> Status \cup {"absent"}]
    BY <1>2 DEF CreateUser, Status
  <2> QED BY <1>2, <2>1, <2>2 DEF CreateUser
<1>3. CASE InsertRefresh(s)
  <2>1. PICK t \in Unused :
           /\ Insert(t, "refresh", req[s].user, NoToken)
           /\ Continue(s, "insertAccess", req[s].user, t)
    BY <1>3 DEF InsertRefresh
  <2>2. t \in TokenIds
    BY DEF Unused
  <2>3. req' \in [Slots -> Request]
    BY <1>a, <2>1, <2>2, LabelsOf, SlotType
  <2> QED BY <1>3, <1>a, <2>1, <2>2, <2>3, InsertType DEF InsertRefresh
<1>4. CASE InsertAccess(s)
  <2>1. PICK t \in Unused : Insert(t, "access", req[s].user, req[s].ref)
    BY <1>4 DEF InsertAccess
  <2>2. t \in TokenIds
    BY DEF Unused
  <2>3. req' \in [Slots -> Request]
    BY <1>4, LabelsOf, SlotType DEF InsertAccess
  <2> QED BY <1>4, <1>a, <2>1, <2>2, <2>3, InsertType DEF InsertAccess
<1>5. CASE VerifyRefresh(s)
  <2>1. RefreshIsValid(req[s].ref) => req[s].ref \in TokenIds
    BY <1>5 DEF VerifyRefresh, RefreshIsValid, LocalsOK
  <2>2. \/ Goto(s, "verifyCatch")
        \/ \E l \in {"killSiblings", "killRefresh"}, u \in Users \cup {NoUser} :
              Continue(s, l, u, req[s].ref)
    BY <1>5, <1>b, <2>1 DEF VerifyRefresh
  <2>3. req' \in [Slots -> Request]
    BY <1>a, <2>2, LabelsOf, SlotType
  <2> QED BY <1>5, <2>3 DEF VerifyRefresh
<1>6. CASE RejectRefresh(s)
  <2>1. req' \in [Slots -> Request]
    BY <1>6, LabelsOf, SlotType DEF RejectRefresh
  <2> QED BY <1>6, <2>1 DEF RejectRefresh
<1>7. CASE KillSiblings(s)
  <2>1. req' \in [Slots -> Request]
    BY <1>7, LabelsOf, SlotType DEF KillSiblings
  <2> QED BY <1>7, <2>1 DEF KillSiblings
<1>8. CASE VerifyAccess(s)
  <2>1. AccessIsValid(req[s].tok) => req[s].tok \in TokenIds
    BY <1>8 DEF VerifyAccess, AccessIsValid, LocalsOK
  <2>2. \/ Goto(s, "rejectAccess")
        \/ \E l \in {"findAccess", "killAll"}, u \in Users \cup {NoUser} :
              Continue(s, l, u, req[s].ref)
    BY <1>8, <1>b, <2>1 DEF VerifyAccess
  <2>3. req' \in [Slots -> Request]
    BY <1>a, <2>2, LabelsOf, SlotType
  <2> QED BY <1>8, <2>3 DEF VerifyAccess
<1>9. CASE RejectAccess(s)
  <2>1. req' \in [Slots -> Request]
    BY <1>9, LabelsOf, SlotType DEF RejectAccess
  <2> QED BY <1>9, <2>1 DEF RejectAccess
<1>10. CASE FindAccess(s)
  <2>1. req[s].tok \in TokenIds
    BY <1>10 DEF FindAccess, LocalsOK
  <2>2. req' \in [Slots -> Request]
    BY <1>10, <1>a, <1>b, <2>1, LabelsOf, SlotType DEF FindAccess
  <2> QED BY <1>10, <2>2 DEF FindAccess
<1>11. CASE FindParent(s)
  BY <1>11, LabelsOf, SlotType DEF FindParent
<1>12. CASE KillRefresh(s)
  <2>1. req' \in [Slots -> Request]
    BY <1>12, LabelsOf, SlotType DEF KillRefresh
  <2> QED BY <1>12, <2>1 DEF KillRefresh
<1>13. CASE KillChildren(s)
  <2>1. req' \in [Slots -> Request]
    BY <1>13, LabelsOf, SlotType DEF KillChildren
  <2> QED BY <1>13, <2>1 DEF KillChildren
<1>14. CASE KillAll(s)
  <2>1. req' \in [Slots -> Request]
    BY <1>14, LabelsOf, SlotType DEF KillAll
  <2> QED BY <1>14, <2>1 DEF KillAll
<1> QED BY <1>1, <1>2, <1>3, <1>4, <1>5, <1>6, <1>7, <1>8, <1>9, <1>10, <1>11,
           <1>12, <1>13, <1>14 DEF Proceed

(* So do failing queries, expiring JWTs and status edits. *)
LEMMA EnvironmentType ==
  ASSUME TokensAssumption, TypeOK,
         \/ \E s \in Slots : QueryFails(s)
         \/ \E t \in TokenIds : Expire(t)
         \/ \E u \in Users : SetStatus(u)
  PROVE  TypeOK'
<1> USE DEF TypeOK
<1>1. CASE \E s \in Slots : QueryFails(s)
  <2>1. PICK s \in Slots : QueryFails(s)
    BY <1>1
  <2>2. AfterFault(s) # "answer" => AfterFault(s) \in Labels
    BY DEF AfterFault, Labels
  <2>3. req' \in [Slots -> Request]
    BY <2>1, <2>2, SlotType DEF QueryFails
  <2>4. faults' \in 0 .. MaxFaults
    BY <2>1 DEF QueryFails, TokensAssumption
  <2> QED BY <2>1, <2>3, <2>4 DEF QueryFails
<1>2. CASE \E t \in TokenIds : Expire(t)
  BY <1>2 DEF Expire
<1>3. CASE \E u \in Users : SetStatus(u)
  <2>1. PICK u \in Users, st \in AdminStatuses : status' = [status EXCEPT ![u] = st]
    BY <1>3 DEF SetStatus
  <2>2. status' \in [Users -> Status \cup {"absent"}]
    BY <2>1 DEF TokensAssumption, Status
  <2> QED BY <1>3, <2>2 DEF SetStatus
<1> QED BY <1>1, <1>2, <1>3

-----------------------------------------------------------------------------
(* What a step leaves alone.                                               *)

(* A saved row takes an id that no row has. *)
LEMMA InsertAdvances ==
  ASSUME TypeOK, NEW t \in Unused, NEW type, NEW u, NEW p, Insert(t, type, u, p)
  PROVE  /\ \A x \in TokenIds \ Unused : row'[x] = row[x]
         /\ \A x \in TokenIds \ Unused : x \notin live => x \notin live'
  BY DEF TypeOK, Insert, Unused

(* No step of the service rewrites a row or revives a dead one. *)
LEMMA NextAdvances ==
  ASSUME TokensAssumption, TypeOK, Next PROVE Advance
<1> USE DEF TypeOK, Advance
<1>1. ASSUME NEW s \in Slots, Begin(s) PROVE Advance
  BY <1>1 DEF Begin, BeginLogin, BeginRefresh, BeginGuarded
<1>2. ASSUME NEW s \in Slots, Proceed(s) PROVE Advance
  <2>1. CASE InsertRefresh(s)
    <3>1. PICK t \in Unused : Insert(t, "refresh", req[s].user, NoToken)
      BY <2>1 DEF InsertRefresh
    <3> QED BY <2>1, <3>1, InsertAdvances DEF InsertRefresh
  <2>2. CASE InsertAccess(s)
    <3>1. PICK t \in Unused : Insert(t, "access", req[s].user, req[s].ref)
      BY <2>2 DEF InsertAccess
    <3> QED BY <2>2, <3>1, InsertAdvances DEF InsertAccess
  <2>3. CASE CreateUser(s)
    BY <2>3 DEF CreateUser
  <2>4. CASE KillSiblings(s) \/ KillRefresh(s) \/ KillChildren(s) \/ KillAll(s)
    BY <2>4 DEF KillSiblings, KillRefresh, KillChildren, KillAll
  <2>5. CASE RejectRefresh(s) \/ RejectAccess(s)
    BY <2>5 DEF RejectRefresh, RejectAccess
  <2>6. CASE \/ FindUser(s) \/ VerifyRefresh(s) \/ VerifyAccess(s)
             \/ FindAccess(s) \/ FindParent(s)
    BY <2>6 DEF FindUser, VerifyRefresh, VerifyAccess, FindAccess, FindParent
  <2> QED BY <1>2, <2>1, <2>2, <2>3, <2>4, <2>5, <2>6 DEF Proceed
<1>3. ASSUME NEW s \in Slots, QueryFails(s) PROVE Advance
  BY <1>3 DEF QueryFails
<1>4. ASSUME NEW t \in TokenIds, Expire(t) PROVE Advance
  BY <1>4 DEF Expire
<1>5. ASSUME NEW u \in Users, SetStatus(u) PROVE Advance
  BY <1>5 DEF SetStatus, TokensAssumption
<1> QED BY <1>1, <1>2, <1>3, <1>4, <1>5 DEF Next

(* A request that does not move keeps locals that agree with the rows. *)
LEMMA AdvanceKeepsLocals ==
  ASSUME TypeOK, Advance, NEW s \in Slots, LocalsOK(s), req'[s] = req[s]
  PROVE  LocalsOK(s)'
<1>1. \A t \in TokenIds : row[t].type # "none" => row'[t] = row[t]
  BY DEF Advance, Unused
<1>2. \A t \in TokenIds : row[t].type # "none" /\ t \notin live => t \notin live'
  BY DEF Advance, Unused
<1>3. \A u \in Users : status[u] # "absent" => status'[u] # "absent"
  BY DEF Advance
<1> QED BY <1>1, <1>2, <1>3 DEF LocalsOK

(* The request a slot holds after each way of leaving it. *)
LEMMA SlotUpdate ==
  ASSUME TypeOK, NEW s \in Slots
  PROVE  /\ Answer(s) => req'[s] = Idle /\ \A q \in Slots \ {s} : req'[q] = req[q]
         /\ \A l, u, r : Continue(s, l, u, r) =>
               /\ req'[s] = Call(req[s].op, l, u, req[s].tok, r)
               /\ \A q \in Slots \ {s} : req'[q] = req[q]
         /\ \A l : Goto(s, l) =>
               /\ req'[s] = Call(req[s].op, l, req[s].user, req[s].tok, req[s].ref)
               /\ \A q \in Slots \ {s} : req'[q] = req[q]
  BY DEF TypeOK, Answer, Continue, Goto

(* The parts of the request after each way of leaving a query. *)
LEMMA SlotFields ==
  ASSUME TypeOK, NEW s \in Slots
  PROVE  /\ Answer(s) => req'[s].pc = "idle"
         /\ \A l, u, r : Continue(s, l, u, r) =>
               req'[s].pc = l /\ req'[s].user = u /\ req'[s].ref = r
         /\ \A l : Goto(s, l) =>
               req'[s].pc = l /\ req'[s].user = req[s].user /\ req'[s].ref = req[s].ref
<1>1. ASSUME NEW l, NEW u, NEW r, Continue(s, l, u, r)
      PROVE  req'[s].pc = l /\ req'[s].user = u /\ req'[s].ref = r
  BY <1>1, SlotUpdate, CallFields
<1>2. Answer(s) => req'[s].pc = "idle"
  BY SlotUpdate, CallFields DEF Idle
<1> QED BY <1>1, <1>2 DEF Goto

(* A presented token string is one the server has issued. *)
LEMMA BeginLocals ==
  ASSUME TypeOK, NEW s \in Slots, Begin(s) PROVE LocalsOK(s)'
<1> USE DEF TypeOK, LocalsOK, Call
<1>1. CASE BeginLogin(s)
  <2>1. PICK o \in LoginOps, u \in Users :
           req' = [req EXCEPT ![s] = Call(o, "findUser", u, NoToken, NoToken)]
    BY <1>1 DEF BeginLogin
  <2>2. req'[s] = Call(o, "findUser", u, NoToken, NoToken)
    BY <2>1
  <2> QED BY <2>2
<1>2. CASE BeginRefresh(s)
  <2>1. PICK t \in TokenIds :
           req' = [req EXCEPT ![s] = Call("refresh", "verifyRefresh", NoUser, NoToken, t)]
    BY <1>2 DEF BeginRefresh
  <2>2. req'[s] = Call("refresh", "verifyRefresh", NoUser, NoToken, t)
    BY <2>1
  <2> QED BY <2>2
<1>3. CASE BeginGuarded(s)
  <2>1. PICK o \in {"logout", "logoutAll"}, t \in TokenIds :
           req' = [req EXCEPT ![s] = Call(o, "verifyAccess", NoUser, t, NoToken)]
    BY <1>3 DEF BeginGuarded
  <2>2. req'[s] = Call(o, "verifyAccess", NoUser, t, NoToken)
    BY <2>1
  <2> QED BY <2>2
<1> QED BY <1>1, <1>2, <1>3 DEF Begin

(* Each query leaves its request with locals that agree with the rows: the *)
(* ones it read, and the ones a refresh or a logout checks again.          *)
LEMMA ProceedLocals ==
  ASSUME SessionInv, NEW s \in Slots, Proceed(s), Advance PROVE LocalsOK(s)'
<1> USE DEF Call
<1>a. TypeOK /\ LocalsOK(s)
  BY DEF SessionInv
<1>b. req[s].tok \in TokenIds \cup {NoToken} /\ req[s].op \in Ops
  BY <1>a DEF TypeOK, Request
<1>c. \A t \in TokenIds : row[t].type # "none" => row'[t] = row[t]
  BY DEF Advance, Unused
<1>d. \A u \in Users : status[u] # "absent" => status'[u] # "absent"
  BY DEF Advance
<1>e. \A t \in TokenIds : row[t].type # "none" /\ t \notin live => t \notin live'
  BY DEF Advance, Unused
<1>f. Answer(s) => LocalsOK(s)'
  BY <1>a, SlotUpdate DEF Idle, LocalsOK
<1>h. ASSUME NEW l, Goto(s, l)
      PROVE  req'[s] = Call(req[s].op, l, req[s].user, req[s].tok, req[s].ref)
  BY <1>a, <1>h, SlotUpdate
<1>g. ASSUME Goto(s, "handlerCatch"), req[s].ref \in TokenIds PROVE LocalsOK(s)'
  <2>1. req'[s] = Call(req[s].op, "handlerCatch", req[s].user, req[s].tok, req[s].ref)
    BY <1>g, <1>h
  <2> QED BY <1>g, <2>1 DEF LocalsOK
<1>1. CASE FindUser(s)
  <2>a. req[s].user \in Users /\ req[s].op \in LoginOps
    BY <1>1, <1>a DEF FindUser, LocalsOK
  <2>1. ASSUME Goto(s, "createUser") PROVE LocalsOK(s)'
    <3>1. req'[s] = Call(req[s].op, "createUser", req[s].user, req[s].tok, req[s].ref)
      BY <1>h, <2>1
    <3> QED BY <2>a, <3>1 DEF LocalsOK
  <2>2. ASSUME Goto(s, "insertRefresh"), status[req[s].user] # "absent" PROVE LocalsOK(s)'
    <3>1. req'[s] = Call(req[s].op, "insertRefresh", req[s].user, req[s].tok, req[s].ref)
      BY <1>h, <2>2
    <3> QED BY <1>d, <2>2, <2>a, <3>1 DEF LocalsOK
  <2> QED BY <1>1, <1>f, <2>1, <2>2 DEF FindUser
<1>2. CASE CreateUser(s)
  <2>1. CASE status[req[s].user] = "absent"
    <3>1. status'[req[s].user] = "active"
      BY <1>2, <1>a, <2>1 DEF CreateUser, LocalsOK, TypeOK
    <3>2. req'[s] = Call(req[s].op, "insertRefresh", req[s].user, req[s].tok, req[s].ref)
      BY <1>2, <1>h, <2>1 DEF CreateUser
    <3>3. req[s].user \in Users /\ req[s].op \in LoginOps
      BY <1>2, <1>a DEF CreateUser, LocalsOK
    <3> QED BY <3>1, <3>2, <3>3 DEF LocalsOK
  <2> QED BY <1>2, <1>f, <2>1 DEF CreateUser
<1>3. CASE InsertRefresh(s)
  <2>1. PICK t \in Unused : /\ Insert(t, "refresh", req[s].user, NoToken)
                            /\ Continue(s, "insertAccess", req[s].user, t)
    BY <1>3 DEF InsertRefresh
  <2>2. t \in TokenIds /\ row'[t] = [type |-> "refresh", user |-> req[s].user, parent |-> NoToken]
    BY <1>a, <2>1 DEF Insert, Unused, TypeOK
  <2>3. req'[s] = Call(req[s].op, "insertAccess", req[s].user, req[s].tok, t)
    BY <1>a, <2>1, SlotUpdate
  <2> QED BY <1>3, <1>a, <1>d, <2>2, <2>3 DEF InsertRefresh, LocalsOK
<1>4. CASE InsertAccess(s)
  BY <1>4, <1>f DEF InsertAccess
<1>5. CASE VerifyRefresh(s)
  <2>1. CASE RefreshIsValid(req[s].ref)
    <3>1. /\ req[s].ref \in TokenIds /\ row[req[s].ref].type = "refresh"
          /\ row'[req[s].ref] = row[req[s].ref]
      BY <1>5, <1>a, <1>c, <2>1 DEF VerifyRefresh, RefreshIsValid, LocalsOK
    <3>2. CASE req[s].op = "refresh"
      <4>1. req'[s] = Call("refresh", "killSiblings", row[req[s].ref].user, req[s].tok, req[s].ref)
        BY <1>5, <1>a, <2>1, <3>2, SlotUpdate DEF VerifyRefresh
      <4> QED BY <3>1, <4>1 DEF LocalsOK
    <3>3. CASE req[s].op # "refresh"
      <4>1. req'[s] = Call(req[s].op, "killRefresh", row[req[s].ref].user, req[s].tok, req[s].ref)
        BY <1>5, <1>a, <2>1, <3>3, SlotUpdate DEF VerifyRefresh
      <4>2. /\ req[s].op = "logout" /\ req[s].tok \in TokenIds
            /\ row'[req[s].tok].type = "access" /\ row'[req[s].tok].parent = req[s].ref
        BY <1>5, <1>a, <1>c, <3>3 DEF VerifyRefresh, LocalsOK
      <4> QED BY <3>1, <4>1, <4>2 DEF LocalsOK
    <3> QED BY <3>2, <3>3
  <2>2. CASE ~RefreshIsValid(req[s].ref)
    <3>1. req'[s] = Call(req[s].op, "verifyCatch", req[s].user, req[s].tok, req[s].ref)
      BY <1>5, <1>h, <2>2 DEF VerifyRefresh
    <3>2. req[s].ref \in TokenIds
      BY <1>5, <1>a DEF VerifyRefresh, LocalsOK
    <3> QED BY <3>1, <3>2 DEF LocalsOK
  <2> QED BY <2>1, <2>2
<1>6. CASE RejectRefresh(s)
  BY <1>6, <1>a, <1>f, <1>g DEF RejectRefresh, LocalsOK
<1>7. CASE KillSiblings(s)
  <2>1. req'[s] = Call("refresh", "insertAccess", req[s].user, req[s].tok, req[s].ref)
    BY <1>7, <1>a, SlotUpdate DEF KillSiblings, LocalsOK
  <2>2. /\ req[s].ref \in TokenIds /\ row[req[s].ref].type = "refresh"
        /\ row[req[s].ref].user = req[s].user /\ row'[req[s].ref] = row[req[s].ref]
    BY <1>7, <1>a, <1>c DEF KillSiblings, LocalsOK
  <2>3. req[s].user \in Users /\ status'[req[s].user] # "absent"
    BY <1>d, <2>2 DEF SessionInv, Unused
  <2> QED BY <2>1, <2>2, <2>3 DEF LocalsOK
<1>8. CASE VerifyAccess(s)
  <2>1. CASE AccessIsValid(req[s].tok)
    <3>1. /\ req[s].tok \in TokenIds /\ row[req[s].tok].type = "access"
          /\ row'[req[s].tok] = row[req[s].tok] /\ req[s].op \in {"logout", "logoutAll"}
      BY <1>8, <1>a, <1>c, <2>1 DEF VerifyAccess, AccessIsValid, LocalsOK
    <3>2. CASE req[s].op = "logout"
      <4>1. req'[s] = Call("logout", "findAccess", row[req[s].tok].user, req[s].tok, req[s].ref)
        BY <1>8, <1>a, <2>1, <3>2, SlotUpdate DEF VerifyAccess
      <4> QED BY <3>1, <4>1 DEF LocalsOK
    <3>3. CASE req[s].op # "logout"
      <4>1. req'[s] = Call(req[s].op, "killAll", row[req[s].tok].user, req[s].tok, req[s].ref)
        BY <1>8, <1>a, <2>1, <3>3, SlotUpdate DEF VerifyAccess
      <4> QED BY <3>1, <4>1 DEF LocalsOK
    <3> QED BY <3>2, <3>3
  <2>2. CASE ~AccessIsValid(req[s].tok)
    <3>1. req'[s] = Call(req[s].op, "rejectAccess", req[s].user, req[s].tok, req[s].ref)
      BY <1>8, <1>h, <2>2 DEF VerifyAccess
    <3>2. req[s].tok \in TokenIds
      BY <1>8, <1>a DEF VerifyAccess, LocalsOK
    <3> QED BY <3>1, <3>2 DEF LocalsOK
  <2> QED BY <2>1, <2>2
<1>9. CASE RejectAccess(s)
  BY <1>9, <1>f DEF RejectAccess
<1>10. CASE FindAccess(s)
  <2>1. CASE req[s].tok \in live
    <3>1. req'[s] = Call(req[s].op, "findParent", req[s].user, req[s].tok, row[req[s].tok].parent)
      BY <1>10, <1>a, <2>1, SlotUpdate DEF FindAccess
    <3>2. /\ req[s].tok \in TokenIds /\ row[req[s].tok].type = "access"
          /\ row'[req[s].tok] = row[req[s].tok]
      BY <1>10, <1>a, <1>c DEF FindAccess, LocalsOK
    <3>3. row[req[s].tok].parent \in TokenIds
      BY <3>2 DEF SessionInv, FamilyIntegrity
    <3>4. req[s].op = "logout"
      BY <1>10, <1>a DEF FindAccess, LocalsOK
    <3> QED BY <3>1, <3>2, <3>3, <3>4 DEF LocalsOK
  <2> QED BY <1>10, <1>f, <2>1 DEF FindAccess
<1>11. CASE FindParent(s)
  <2>1. CASE req[s].ref \in live
    <3>1. req'[s] = Call(req[s].op, "verifyRefresh", req[s].user, req[s].tok, req[s].ref)
      BY <1>11, <1>h, <2>1 DEF FindParent
    <3>2. /\ req[s].op = "logout" /\ req[s].ref \in TokenIds /\ req[s].tok \in TokenIds
          /\ row'[req[s].tok].type = "access" /\ row'[req[s].tok].parent = req[s].ref
      BY <1>11, <1>a, <1>c DEF FindParent, LocalsOK
    <3> QED BY <3>1, <3>2 DEF LocalsOK
  <2> QED BY <1>11, <1>f, <2>1 DEF FindParent
<1>12. CASE KillRefresh(s)
  <2>1. req'[s] = Call(req[s].op, "killChildren", req[s].user, req[s].tok, req[s].ref)
    BY <1>12, <1>h DEF KillRefresh
  <2>2. /\ req[s].op = "logout" /\ req[s].ref \in TokenIds /\ req[s].tok \in TokenIds
        /\ row'[req[s].tok].type = "access" /\ row'[req[s].tok].parent = req[s].ref
        /\ row'[req[s].ref].type = "refresh" /\ row'[req[s].ref].user = req[s].user
    BY <1>12, <1>a, <1>c DEF KillRefresh, LocalsOK
  <2>3. req[s].ref \notin live'
    BY <1>12 DEF KillRefresh
  <2> QED BY <2>1, <2>2, <2>3 DEF LocalsOK
<1>13. CASE KillChildren(s)
  BY <1>13, <1>f DEF KillChildren
<1>14. CASE KillAll(s)
  BY <1>14, <1>f DEF KillAll
<1> QED BY <1>1, <1>2, <1>3, <1>4, <1>5, <1>6, <1>7, <1>8, <1>9, <1>10, <1>11,
           <1>12, <1>13, <1>14 DEF Proceed

(* The catch blocks are entered with the locals they use. *)
LEMMA FaultLocals ==
  ASSUME SessionInv, NEW s \in Slots, QueryFails(s) PROVE LocalsOK(s)'
<1> USE DEF Call
<1>a. TypeOK /\ LocalsOK(s)
  BY DEF SessionInv
<1>1. CASE AfterFault(s) = "answer"
  BY <1>1, <1>a, SlotUpdate DEF QueryFails, Idle, LocalsOK
<1>2. CASE AfterFault(s) # "answer"
  <2>1. req'[s] = Call(req[s].op, AfterFault(s), req[s].user, req[s].tok, req[s].ref)
    BY <1>2, <1>a, SlotUpdate DEF QueryFails
  <2>2. CASE req[s].pc = "verifyAccess"
    <3>1. AfterFault(s) = "rejectAccess" /\ req[s].tok \in TokenIds
      BY <1>a, <2>2 DEF AfterFault, LocalsOK
    <3> QED BY <2>1, <3>1 DEF LocalsOK
  <2>3. CASE req[s].pc # "verifyAccess"
    <3>1. AfterFault(s) \in {"verifyCatch", "handlerCatch"} /\ req[s].ref \in TokenIds
      BY <1>2, <1>a, <2>3 DEF AfterFault, LocalsOK
    <3> QED BY <2>1, <3>1 DEF LocalsOK
  <2> QED BY <2>2, <2>3
<1> QED BY <1>1, <1>2

Frame(s) == \A q \in Slots \ {s} : req'[q] = req[q]

(* A step of one request leaves the other slots alone. *)
LEMMA StepFrame ==
  ASSUME TypeOK, NEW s \in Slots, Begin(s) \/ Proceed(s) \/ QueryFails(s)
  PROVE  Frame(s)
<1>1. \A q : req' = [req EXCEPT ![s] = q] => Frame(s)
  BY DEF TypeOK, Frame
<1>2. /\ Answer(s) => Frame(s)
      /\ \A l, u, r : Continue(s, l, u, r) => Frame(s)
      /\ \A l : Goto(s, l) => Frame(s)
  BY <1>1 DEF Answer, Continue, Goto
<1>3. CASE Begin(s)
  BY <1>1, <1>3 DEF Begin, BeginLogin, BeginRefresh, BeginGuarded
<1>4. CASE Proceed(s)
  <2>1. CASE FindUser(s) \/ CreateUser(s) \/ InsertRefresh(s) \/ InsertAccess(s)
    BY <1>2, <2>1 DEF FindUser, CreateUser, InsertRefresh, InsertAccess
  <2>2. CASE VerifyRefresh(s) \/ RejectRefresh(s) \/ KillSiblings(s) \/ VerifyAccess(s)
    BY <1>2, <2>2 DEF VerifyRefresh, RejectRefresh, KillSiblings, VerifyAccess
  <2>3. CASE \/ RejectAccess(s) \/ FindAccess(s) \/ FindParent(s) \/ KillRefresh(s)
             \/ KillChildren(s) \/ KillAll(s)
    BY <1>2, <2>3 DEF RejectAccess, FindAccess, FindParent, KillRefresh, KillChildren, KillAll
  <2> QED BY <1>4, <2>1, <2>2, <2>3 DEF Proceed
<1>5. CASE QueryFails(s)
  BY <1>2, <1>5 DEF QueryFails
<1> QED BY <1>3, <1>4, <1>5

(* Locals agree with rows after any step, for every request in flight. *)
LEMMA NextLocals ==
  ASSUME TokensAssumption, SessionInv, Next PROVE \A s \in Slots : LocalsOK(s)'
<1>1. Advance /\ TypeOK
  BY NextAdvances DEF SessionInv
<1>2. ASSUME NEW q \in Slots, req'[q] = req[q] PROVE LocalsOK(q)'
  BY <1>1, <1>2, AdvanceKeepsLocals DEF SessionInv
<1>3. ASSUME NEW s \in Slots, Begin(s) \/ Proceed(s) \/ QueryFails(s)
      PROVE  LocalsOK(s)' /\ Frame(s)
  BY <1>1, <1>3, BeginLocals, ProceedLocals, FaultLocals, StepFrame
<1>4. CASE \E s \in Slots : Begin(s) \/ Proceed(s) \/ QueryFails(s)
  BY <1>2, <1>3, <1>4 DEF Frame
<1>5. CASE (\E t \in TokenIds : Expire(t)) \/ (\E u \in Users : SetStatus(u))
  BY <1>2, <1>5 DEF Expire, SetStatus
<1> QED BY <1>4, <1>5 DEF Next

-----------------------------------------------------------------------------
(* Rows: what an insert adds hangs together, and nothing else changes them.*)

RowsOK ==
    /\ FamilyIntegrity
    /\ \A t \in TokenIds \ Unused : row[t].user \in Users /\ status[row[t].user] # "absent"
    /\ live \cap Unused = {}

(* A saved token hangs together with its parent and its user. *)
LEMMA InsertRows ==
  ASSUME TypeOK, RowsOK, NEW t \in Unused, NEW type \in {"refresh", "access"},
         NEW u \in Users, status[u] # "absent", UNCHANGED status,
         NEW p \in TokenIds \cup {NoToken}, Insert(t, type, u, p),
         type = "access" => p \in TokenIds /\ row[p].type = "refresh" /\ row[p].user = u
  PROVE  RowsOK'
<1>1. t \in TokenIds /\ row[t].type = "none"
  BY DEF Unused
<1>2. /\ row'[t] = [type |-> type, user |-> u, parent |-> p]
      /\ \A x \in TokenIds \ {t} : row'[x] = row[x]
      /\ live' = live \cup {t}
  BY <1>1 DEF Insert, TypeOK
<1>3. FamilyIntegrity'
  BY <1>1, <1>2 DEF RowsOK, FamilyIntegrity
<1>4. Unused' = Unused \ {t}
  BY <1>1, <1>2 DEF Unused
<1> QED BY <1>1, <1>2, <1>3, <1>4 DEF RowsOK

(* Steps that save no token keep the rows hanging together. *)
LEMMA QuietRows ==
  ASSUME RowsOK, UNCHANGED row, live' \subseteq live, Advance PROVE RowsOK'
<1>1. Unused' = Unused
  BY DEF Unused
<1>2. FamilyIntegrity'
  BY <1>1 DEF RowsOK, FamilyIntegrity, Advance, Unused
<1> QED BY <1>1, <1>2 DEF RowsOK, Advance

(* Families, owners and live ids survive every step. *)
LEMMA NextRows ==
  ASSUME TokensAssumption, SessionInv, Next PROVE RowsOK'
<1>1. TypeOK /\ RowsOK /\ Advance
  BY NextAdvances DEF SessionInv, RowsOK
<1>2. ASSUME NEW s \in Slots, InsertRefresh(s) PROVE RowsOK'
  <2>1. PICK t \in Unused : Insert(t, "refresh", req[s].user, NoToken)
    BY <1>2 DEF InsertRefresh
  <2>2. req[s].user \in Users /\ status[req[s].user] # "absent" /\ UNCHANGED status
    BY <1>2 DEF InsertRefresh, SessionInv, LocalsOK
  <2> QED BY <1>1, <2>1, <2>2, InsertRows
<1>3. ASSUME NEW s \in Slots, InsertAccess(s) PROVE RowsOK'
  <2>1. PICK t \in Unused : Insert(t, "access", req[s].user, req[s].ref)
    BY <1>3 DEF InsertAccess
  <2>2. /\ req[s].user \in Users /\ status[req[s].user] # "absent" /\ UNCHANGED status
        /\ req[s].ref \in TokenIds /\ row[req[s].ref].type = "refresh"
        /\ row[req[s].ref].user = req[s].user
    BY <1>3 DEF InsertAccess, SessionInv, LocalsOK
  <2> QED BY <1>1, <2>1, <2>2, InsertRows
<1>4. ASSUME NEW s \in Slots, Proceed(s), ~InsertRefresh(s), ~InsertAccess(s)
      PROVE  UNCHANGED row /\ live' \subseteq live
  BY <1>4 DEF Proceed, FindUser, CreateUser, VerifyRefresh, RejectRefresh, KillSiblings,
     VerifyAccess, RejectAccess, FindAccess, FindParent, KillRefresh, KillChildren, KillAll
<1>5. ASSUME NEW s \in Slots, Begin(s) \/ QueryFails(s)
      PROVE  UNCHANGED row /\ live' \subseteq live
  BY <1>5 DEF Begin, BeginLogin, BeginRefresh, BeginGuarded, QueryFails
<1>6. CASE (\E t \in TokenIds : Expire(t)) \/ (\E u \in Users : SetStatus(u))
  <2>1. UNCHANGED row /\ live' \subseteq live
    BY <1>6 DEF Expire, SetStatus
  <2> QED BY <1>1, <2>1, QuietRows
<1> QED BY <1>1, <1>2, <1>3, <1>4, <1>5, <1>6, QuietRows DEF Next

-----------------------------------------------------------------------------
(* The bound: every insert was counted when its request retired the        *)
(* session's access tokens, or when a login inserted the refresh row.      *)

Bounded(r) == Cardinality(LiveChildren(r)) + Cardinality(Pending(r)) <= Cardinality(Slots)

(* The sets the bound counts are finite. *)
LEMMA Finite ==
  ASSUME TokensAssumption, NEW r
  PROVE  /\ IsFiniteSet(LiveChildren(r)) /\ IsFiniteSet(LiveChildren(r)')
         /\ IsFiniteSet(Pending(r)) /\ IsFiniteSet(Pending(r)')
         /\ Cardinality(LiveChildren(r)) \in Nat /\ Cardinality(LiveChildren(r)') \in Nat
         /\ Cardinality(Pending(r)) \in Nat /\ Cardinality(Pending(r)') \in Nat
         /\ Cardinality(Slots) \in Nat
<1>1. /\ LiveChildren(r) \subseteq TokenIds /\ LiveChildren(r)' \subseteq TokenIds
      /\ Pending(r) \subseteq Slots /\ Pending(r)' \subseteq Slots
  BY DEF LiveChildren, Children, Pending
<1>2. \A S : S \subseteq TokenIds => IsFiniteSet(S)
  BY FS_Subset DEF TokensAssumption
<1>3. \A S : S \subseteq Slots => IsFiniteSet(S)
  BY FS_Subset DEF TokensAssumption
<1>4. /\ IsFiniteSet(LiveChildren(r)) /\ IsFiniteSet(LiveChildren(r)')
      /\ IsFiniteSet(Pending(r)) /\ IsFiniteSet(Pending(r)')
  BY <1>1, <1>2, <1>3
<1> QED BY <1>4, FS_CardinalityType DEF TokensAssumption

(* A session with fewer live and fewer pending tokens keeps its bound. *)
LEMMA BoundShrinks ==
  ASSUME TokensAssumption, NEW r, Bounded(r),
         LiveChildren(r)' \subseteq LiveChildren(r), Pending(r)' \subseteq Pending(r)
  PROVE  Bounded(r)'
<1>1. /\ Cardinality(LiveChildren(r)') <= Cardinality(LiveChildren(r))
      /\ Cardinality(Pending(r)') <= Cardinality(Pending(r))
  BY Finite, FS_Subset
<1> QED BY <1>1, Finite DEF Bounded

(* A session with no live access token is within its bound. *)
LEMMA BoundReset ==
  ASSUME TokensAssumption, NEW r, LiveChildren(r)' = {} PROVE Bounded(r)'
<1>1. Pending(r)' \subseteq Slots
  BY DEF Pending
<1>2. Cardinality(Pending(r)') <= Cardinality(Slots)
  BY <1>1, FS_Subset DEF TokensAssumption
<1>3. Cardinality(LiveChildren(r)') = 0
  BY FS_EmptySet
<1> QED BY <1>2, <1>3, Finite DEF Bounded

(* A request that inserts an access token turns from pending to live. *)
LEMMA BoundInsert ==
  ASSUME TokensAssumption, NEW r, Bounded(r), NEW t, NEW s \in Pending(r),
         LiveChildren(r)' = LiveChildren(r) \cup {t}, Pending(r)' = Pending(r) \ {s}
  PROVE  Bounded(r)'
<1>0. /\ IsFiniteSet(LiveChildren(r)) /\ Cardinality(LiveChildren(r)) \in Nat
      /\ IsFiniteSet(Pending(r)) /\ Cardinality(Pending(r)) \in Nat
  BY Finite
<1>1. Cardinality(LiveChildren(r) \cup {t}) <= Cardinality(LiveChildren(r)) + 1
  <2> DEFINE L == LiveChildren(r)
  <2>1. Cardinality(L \cup {t}) = IF t \in L THEN Cardinality(L) ELSE Cardinality(L) + 1
    BY <1>0, FS_AddElement
  <2> HIDE DEF L
  <2>2. Cardinality(L) \in Nat => Cardinality(L \cup {t}) <= Cardinality(L) + 1
    BY <2>1
  <2> QED BY <1>0, <2>2 DEF L
<1>2. Cardinality(Pending(r) \ {s}) = Cardinality(Pending(r)) - 1
  BY <1>0, FS_RemoveElement
<1> QED BY <1>1, <1>2, Finite DEF Bounded

(* Steps that insert no row and enter no insert. *)
LEMMA QuietBound ==
  ASSUME TokensAssumption, UNCHANGED row, live' \subseteq live,
         \A q \in Slots : req'[q] # req[q] => req'[q].pc # "insertAccess",
         NEW r, Bounded(r)
  PROVE  Bounded(r)'
<1>1. LiveChildren(r)' \subseteq LiveChildren(r)
  BY DEF LiveChildren, Children
<1>2. Pending(r)' \subseteq Pending(r)
  BY DEF Pending
<1> QED BY <1>1, <1>2, BoundShrinks

(* A new session has no access token and one request that brings it. *)
LEMMA InsertRefreshBound ==
  ASSUME TokensAssumption, SessionInv, NEW s \in Slots, InsertRefresh(s), NEW r \in TokenIds
  PROVE  Bounded(r)'
<1>1. PICK t \in Unused : /\ Insert(t, "refresh", req[s].user, NoToken)
                          /\ Continue(s, "insertAccess", req[s].user, t)
  BY DEF InsertRefresh
<1>2. /\ t \in TokenIds /\ row[t].type = "none"
      /\ row'[t].type = "refresh" /\ \A x \in TokenIds \ {t} : row'[x] = row[x]
      /\ live' = live \cup {t}
  BY <1>1 DEF Insert, Unused, SessionInv, TypeOK
<1>a. TypeOK
  BY DEF SessionInv
<1>b. req'[s] = Call(req[s].op, "insertAccess", req[s].user, req[s].tok, t)
  BY <1>1, <1>a DEF TypeOK, Continue
<1>c. Frame(s)
  BY <1>a, StepFrame DEF Proceed
<1>3. Frame(s) /\ req'[s].ref = t
  BY <1>b, <1>c, CallFields
<1>4. CASE r = t
  <2>1. Children(t)' = {}
    BY <1>2 DEF Children, SessionInv, FamilyIntegrity
  <2> QED BY <1>4, <2>1, BoundReset DEF LiveChildren
<1>5. CASE r # t
  <2>1. LiveChildren(r)' \subseteq LiveChildren(r)
    BY <1>2 DEF LiveChildren, Children
  <2>2. Pending(r)' \subseteq Pending(r)
    BY <1>3, <1>5 DEF Pending, Frame
  <2> QED BY <2>1, <2>2, BoundShrinks DEF SessionInv, Bounded
<1> QED BY <1>4, <1>5

(* generateAccessToken adds one live token and ends one pending request. *)
LEMMA InsertAccessBound ==
  ASSUME TokensAssumption, SessionInv, NEW s \in Slots, InsertAccess(s), NEW r \in TokenIds
  PROVE  Bounded(r)'
<1>1. PICK t \in Unused : Insert(t, "access", req[s].user, req[s].ref)
  BY DEF InsertAccess
<1>2. /\ t \in TokenIds /\ row[t].type = "none"
      /\ row'[t] = [type |-> "access", user |-> req[s].user, parent |-> req[s].ref]
      /\ \A x \in TokenIds \ {t} : row'[x] = row[x]
      /\ live' = live \cup {t}
  BY <1>1 DEF Insert, Unused, SessionInv, TypeOK
<1>a. TypeOK /\ Answer(s)
  BY DEF SessionInv, InsertAccess
<1>3. Frame(s) /\ req'[s] = Idle
  BY <1>a, SlotUpdate, StepFrame DEF Proceed
<1>4. CASE r = req[s].ref
  <2>1. LiveChildren(r)' = LiveChildren(r) \cup {t}
    BY <1>2, <1>4 DEF LiveChildren, Children
  <2>2. s \in Pending(r) /\ Pending(r)' = Pending(r) \ {s}
    BY <1>3, <1>4 DEF Pending, InsertAccess, Idle, Call, Frame
  <2> QED BY <2>1, <2>2, BoundInsert DEF SessionInv, Bounded
<1>5. CASE r # req[s].ref
  <2>1. LiveChildren(r)' \subseteq LiveChildren(r)
    BY <1>2, <1>5 DEF LiveChildren, Children
  <2>2. Pending(r)' \subseteq Pending(r)
    BY <1>3 DEF Pending, Idle, Call, Frame
  <2> QED BY <2>1, <2>2, BoundShrinks DEF SessionInv, Bounded
<1> QED BY <1>4, <1>5

(* refreshAccessToken starts from no live token, however many requests do. *)
LEMMA KillSiblingsBound ==
  ASSUME TokensAssumption, SessionInv, NEW s \in Slots, KillSiblings(s), NEW r \in TokenIds
  PROVE  Bounded(r)'
<1>a. TypeOK /\ Goto(s, "insertAccess")
  BY DEF SessionInv, KillSiblings
<1>b. req'[s] = Call(req[s].op, "insertAccess", req[s].user, req[s].tok, req[s].ref)
  BY <1>a, SlotUpdate
<1>1. Frame(s) /\ req'[s].ref = req[s].ref
  BY <1>a, <1>b, StepFrame DEF Proceed, Call
<1>2. UNCHANGED row /\ live' = live \ Children(req[s].ref)
  BY DEF KillSiblings
<1>3. CASE r = req[s].ref
  BY <1>2, <1>3, BoundReset DEF LiveChildren, Children
<1>4. CASE r # req[s].ref
  <2>1. LiveChildren(r)' \subseteq LiveChildren(r)
    BY <1>2 DEF LiveChildren, Children
  <2>2. Pending(r)' \subseteq Pending(r)
    BY <1>1, <1>4 DEF Pending, Frame
  <2> QED BY <2>1, <2>2, BoundShrinks DEF SessionInv, Bounded
<1> QED BY <1>3, <1>4

(* An arriving request is at a handler's first query. *)
LEMMA BeginCall ==
  ASSUME NEW s \in Slots, Begin(s)
  PROVE  \E o \in Ops, l \in {"findUser", "verifyRefresh", "verifyAccess"},
            u \in Users \cup {NoUser}, t \in TokenIds \cup {NoToken},
            x \in TokenIds \cup {NoToken} :
              req' = [req EXCEPT ![s] = Call(o, l, u, t, x)]
<1>1. CASE BeginLogin(s)
  <2>1. PICK o \in LoginOps, u \in Users :
           req' = [req EXCEPT ![s] = Call(o, "findUser", u, NoToken, NoToken)]
    BY <1>1 DEF BeginLogin
  <2>2. o \in Ops
    BY DEF LoginOps, Ops
  <2> QED BY <2>1, <2>2
<1>2. CASE BeginRefresh(s)
  BY <1>2 DEF BeginRefresh, Ops
<1>3. CASE BeginGuarded(s)
  <2>1. PICK o \in {"logout", "logoutAll"}, t \in TokenIds :
           req' = [req EXCEPT ![s] = Call(o, "verifyAccess", NoUser, t, NoToken)]
    BY <1>3 DEF BeginGuarded
  <2>2. o \in Ops
    BY DEF Ops
  <2> QED BY <2>1, <2>2
<1> QED BY <1>1, <1>2, <1>3 DEF Begin

(* Every other query inserts nothing and starts no insert. *)
LEMMA OtherStepsBound ==
  ASSUME TokensAssumption, SessionInv, NEW s \in Slots,
         \/ Begin(s) \/ QueryFails(s)
         \/ Proceed(s) /\ ~InsertRefresh(s) /\ ~InsertAccess(s) /\ ~KillSiblings(s),
         NEW r \in TokenIds
  PROVE  Bounded(r)'
<1>1. TypeOK /\ Frame(s) /\ Bounded(r)
  BY StepFrame DEF SessionInv, Bounded
<1>5. UNCHANGED row /\ live' \subseteq live /\ req'[s].pc # "insertAccess"
  <2>1. CASE Begin(s)
    <3>1. PICK o \in Ops, l \in {"findUser", "verifyRefresh", "verifyAccess"},
               u \in Users \cup {NoUser}, t \in TokenIds \cup {NoToken},
               x \in TokenIds \cup {NoToken} :
             req' = [req EXCEPT ![s] = Call(o, l, u, t, x)]
      BY <2>1, BeginCall
    <3>2. req'[s].pc = l
      BY <1>1, <3>1, CallFields DEF TypeOK
    <3> QED BY <2>1, <3>2 DEF Begin, BeginLogin, BeginRefresh, BeginGuarded
  <2>2. CASE QueryFails(s)
    <3>1. AfterFault(s) # "insertAccess"
      BY DEF AfterFault
    <3> QED BY <1>1, SlotFields, <2>2, <3>1 DEF QueryFails
  <2>3. CASE FindUser(s) \/ CreateUser(s)
    BY <1>1, SlotFields, <2>3 DEF FindUser, CreateUser
  <2>4. CASE VerifyRefresh(s) \/ VerifyAccess(s)
    BY <1>1, SlotFields, <2>4 DEF VerifyRefresh, VerifyAccess
  <2>5. CASE RejectRefresh(s) \/ RejectAccess(s)
    BY <1>1, SlotFields, <2>5 DEF RejectRefresh, RejectAccess
  <2>6. CASE FindAccess(s) \/ FindParent(s)
    BY <1>1, SlotFields, <2>6 DEF FindAccess, FindParent
  <2>7. CASE KillRefresh(s) \/ KillChildren(s) \/ KillAll(s)
    BY <1>1, SlotFields, <2>7 DEF KillRefresh, KillChildren, KillAll
  <2> QED BY <2>1, <2>2, <2>3, <2>4, <2>5, <2>6, <2>7 DEF Proceed
<1> QED BY <1>1, <1>5, QuietBound DEF Frame

(* The bound on a session's access tokens survives every step. *)
LEMMA NextBound ==
  ASSUME TokensAssumption, SessionInv, Next PROVE \A r \in TokenIds : Bounded(r)'
<1> SUFFICES ASSUME NEW r \in TokenIds PROVE Bounded(r)'
  OBVIOUS
<1>1. ASSUME NEW s \in Slots, Begin(s) \/ Proceed(s) \/ QueryFails(s) PROVE Bounded(r)'
  BY <1>1, InsertRefreshBound, InsertAccessBound, KillSiblingsBound, OtherStepsBound
<1>2. CASE (\E t \in TokenIds : Expire(t)) \/ (\E u \in Users : SetStatus(u))
  <2>1. UNCHANGED <<row, live, req>> /\ Bounded(r)
    BY <1>2 DEF Expire, SetStatus, SessionInv, Bounded
  <2> QED BY <2>1, QuietBound
<1> QED BY <1>1, <1>2 DEF Next

-----------------------------------------------------------------------------
(* The invariant is inductive.                                             *)

(* Types survive every step. *)
LEMMA NextType ==
  ASSUME TokensAssumption, SessionInv, Next PROVE TypeOK'
  BY BeginType, ProceedType, EnvironmentType DEF Next, SessionInv

(* The invariant holds before the first request. *)
LEMMA InitInv == ASSUME TokensAssumption, Init PROVE SessionInv
<1>1. TypeOK
  BY InitType
<1>2. FamilyIntegrity /\ Unused = TokenIds /\ live = {}
  BY DEF Init, FamilyIntegrity, Unused, NoRow
<1>3. \A s \in Slots : LocalsOK(s)
  BY DEF Init, LocalsOK, Idle, Call
<1>4. ASSUME NEW r \in TokenIds PROVE Bounded(r)
  <2>1. LiveChildren(r) = {} /\ Pending(r) = {}
    BY DEF Init, LiveChildren, Pending, Idle, Call
  <2> QED BY <2>1, FS_EmptySet, FS_CardinalityType DEF Bounded, TokensAssumption
<1> QED BY <1>1, <1>2, <1>3, <1>4 DEF SessionInv, Bounded

(* Every step keeps the invariant: types, locals, rows and bounds each. *)
LEMMA NextInv ==
  ASSUME TokensAssumption, SessionInv, [Next]_vars PROVE SessionInv'
<1>1. CASE Next
  BY <1>1, NextType, NextRows, NextLocals, NextBound DEF SessionInv, RowsOK, Bounded
<1>2. CASE UNCHANGED vars
  BY <1>2 DEF vars, SessionInv, TypeOK, FamilyIntegrity, Unused, LocalsOK, LiveChildren,
     Children, Pending
<1> QED BY <1>1, <1>2

(* The invariant holds in every state, whatever the requests in flight,    *)
(* the failing queries and the expiring JWTs.                              *)
THEOREM SessionInvariant == Spec => []SessionInv
  BY TokensAssumption, InitInv, NextInv, PTL DEF Spec

(* Every column and local keeps its type: no handler reads a field of a    *)
(* row that is not there.                                                  *)
THEOREM TypeCorrect == Spec => []TypeOK
<1>1. SessionInv => TypeOK
  BY DEF SessionInv
<1> QED BY <1>1, SessionInvariant, PTL

(* An access token hangs from a refresh token of the same existing user.   *)
THEOREM Families == Spec => []FamilyIntegrity
<1>1. SessionInv => FamilyIntegrity
  BY DEF SessionInv
<1> QED BY <1>1, SessionInvariant, PTL

(* A session never has more live access tokens than there are requests in  *)
(* flight; in particular one, when requests come one at a time.            *)
THEOREM LiveAccessIsBounded == Spec => []LiveAccessBound
<1>1. SessionInv => LiveAccessBound
  BY TokensAssumption, Finite DEF SessionInv, LiveAccessBound
<1> QED BY <1>1, SessionInvariant, PTL

-----------------------------------------------------------------------------
(* Steps of the slots, as the action properties see them.                  *)

(* The query a slot goes to, and the ref it keeps, by the step it takes.   *)
LEMMA SlotStep ==
  ASSUME SessionInv, NEW s \in Slots, Proceed(s)
  PROVE  \/ req'[s].pc \notin {"killSiblings", "insertAccess"}
         \/ VerifyRefresh(s) /\ RefreshIsValid(req[s].ref) /\ req'[s].ref = req[s].ref
         \/ KillSiblings(s) /\ req'[s].ref = req[s].ref
         \/ InsertRefresh(s) /\ req'[s].ref \in Unused
<1>1. TypeOK
  BY DEF SessionInv
<1>5. CASE FindUser(s) \/ CreateUser(s)
  BY <1>1, SlotFields, <1>5 DEF FindUser, CreateUser
<1>6. CASE VerifyRefresh(s)
  <2>1. CASE RefreshIsValid(req[s].ref)
    BY <1>1, SlotFields, <1>6, <2>1 DEF VerifyRefresh
  <2>2. CASE ~RefreshIsValid(req[s].ref)
    BY <1>1, SlotFields, <1>6, <2>2 DEF VerifyRefresh
  <2> QED BY <2>1, <2>2
<1>7. CASE VerifyAccess(s)
  BY <1>1, SlotFields, <1>7 DEF VerifyAccess
<1>8. CASE KillSiblings(s)
  BY <1>1, SlotFields, <1>8 DEF KillSiblings
<1>9. CASE InsertRefresh(s)
  BY <1>1, SlotFields, <1>9 DEF InsertRefresh
<1>10. CASE RejectRefresh(s) \/ RejectAccess(s) \/ InsertAccess(s)
  BY <1>1, SlotFields, <1>10 DEF RejectRefresh, RejectAccess, InsertAccess
<1>11. CASE FindAccess(s) \/ FindParent(s)
  BY <1>1, SlotFields, <1>11 DEF FindAccess, FindParent
<1>12. CASE KillRefresh(s) \/ KillChildren(s) \/ KillAll(s)
  BY <1>1, SlotFields, <1>12 DEF KillRefresh, KillChildren, KillAll
<1> QED BY <1>5, <1>6, <1>7, <1>8, <1>9, <1>10, <1>11, <1>12 DEF Proceed

(* Only a verified refresh or a saved refresh row leads to an access insert. *)
LEMMA OtherStep ==
  ASSUME SessionInv, NEW s \in Slots, Begin(s) \/ QueryFails(s)
  PROVE  req'[s].pc \notin {"killSiblings", "insertAccess"}
<1>1. TypeOK
  BY DEF SessionInv
<1>2. CASE Begin(s)
  <2>1. PICK o \in Ops, l \in {"findUser", "verifyRefresh", "verifyAccess"},
             u \in Users \cup {NoUser}, t \in TokenIds \cup {NoToken},
             x \in TokenIds \cup {NoToken} :
           req' = [req EXCEPT ![s] = Call(o, l, u, t, x)]
    BY <1>2, BeginCall
  <2> QED BY <1>1, <2>1, CallFields DEF TypeOK
<1>3. CASE QueryFails(s)
  <2>1. AfterFault(s) \notin {"killSiblings", "insertAccess"}
    BY DEF AfterFault
  <2>2. \/ req'[s] = Idle
        \/ req'[s] = Call(req[s].op, AfterFault(s), req[s].user, req[s].tok, req[s].ref)
    BY <1>1, <1>3, SlotUpdate DEF QueryFails
  <2> QED BY <2>1, <2>2, CallFields DEF Idle
<1> QED BY <1>2, <1>3

(* A step that adds a live child of r is the insert of a request that had  *)
(* passed its check.                                                       *)
LEMMA NewChild ==
  ASSUME SessionInv, Next, NEW r \in TokenIds, r \notin Unused, LiveChildren(r) = {},
         \A s \in Slots : InsertAccess(s) => req[s].ref # r
  PROVE  LiveChildren(r)' = {}
<1>1. ASSUME UNCHANGED row, live' \subseteq live PROVE LiveChildren(r)' = {}
  BY <1>1 DEF LiveChildren, Children
<1>2. ASSUME NEW s \in Slots, InsertRefresh(s) PROVE LiveChildren(r)' = {}
  BY <1>2 DEF InsertRefresh, Insert, LiveChildren, Children, Unused, SessionInv, TypeOK
<1>3. ASSUME NEW s \in Slots, InsertAccess(s) PROVE LiveChildren(r)' = {}
  <2>1. PICK t \in Unused : Insert(t, "access", req[s].user, req[s].ref)
    BY <1>3 DEF InsertAccess
  <2>2. /\ t \in TokenIds /\ row[t].type = "none"
        /\ row'[t] = [type |-> "access", user |-> req[s].user, parent |-> req[s].ref]
        /\ \A x \in TokenIds \ {t} : row'[x] = row[x]
        /\ live' = live \cup {t}
    BY <2>1 DEF Insert, Unused, SessionInv, TypeOK
  <2>3. req[s].ref # r
    BY <1>3
  <2> QED BY <2>2, <2>3 DEF LiveChildren, Children
<1>4. ASSUME NEW s \in Slots, Proceed(s), ~InsertRefresh(s), ~InsertAccess(s)
      PROVE  UNCHANGED row /\ live' \subseteq live
  BY <1>4 DEF Proceed, FindUser, CreateUser, VerifyRefresh, RejectRefresh, KillSiblings,
     VerifyAccess, RejectAccess, FindAccess, FindParent, KillRefresh, KillChildren, KillAll
<1>5. ASSUME NEW s \in Slots, Begin(s) \/ QueryFails(s)
      PROVE  UNCHANGED row /\ live' \subseteq live
  BY <1>5 DEF Begin, BeginLogin, BeginRefresh, BeginGuarded, QueryFails
<1>6. ASSUME (\E t \in TokenIds : Expire(t)) \/ (\E u \in Users : SetStatus(u))
      PROVE  UNCHANGED row /\ live' \subseteq live
  BY <1>6 DEF Expire, SetStatus
<1> QED BY <1>1, <1>2, <1>3, <1>4, <1>5, <1>6 DEF Next

(* No step of any request reopens a closed session. *)
LEMMA ClosedStep ==
  ASSUME TokensAssumption, SessionInv, Next, NEW r \in TokenIds, Closed(r)
  PROVE  Closed(r)'
<1>1. Advance /\ TypeOK
  BY NextAdvances DEF SessionInv
<1>2. row'[r].type = "refresh" /\ r \notin live' /\ r \notin Unused
  BY <1>1 DEF Advance, Closed, Unused
<1>3. LiveChildren(r)' = {}
  BY <1>2, NewChild DEF Closed, Extending, InsertAccess
<1>4. ASSUME NEW s \in Slots, Begin(s) \/ Proceed(s) \/ QueryFails(s)
      PROVE  Extending(r)' = {}
  <2>1. Frame(s)
    BY <1>1, <1>4, StepFrame
  <2>2. req'[s].pc \in {"killSiblings", "insertAccess"} => req'[s].ref # r
    <3>1. RefreshIsValid(req[s].ref) => req[s].ref # r
      BY DEF RefreshIsValid, Closed
    <3>2. KillSiblings(s) => req[s].ref # r
      BY DEF KillSiblings, Closed, Extending
    <3> QED BY <1>2, <1>4, <3>1, <3>2, SlotStep, OtherStep
  <2> QED BY <2>1, <2>2 DEF Frame, Extending, Closed
<1>5. ASSUME (\E t \in TokenIds : Expire(t)) \/ (\E u \in Users : SetStatus(u))
      PROVE  Extending(r)' = {}
  <2>1. UNCHANGED req
    BY <1>5 DEF Expire, SetStatus
  <2> QED BY <2>1 DEF Extending, Closed
<1>6. Extending(r)' = {}
  BY <1>4, <1>5 DEF Next
<1> QED BY <1>2, <1>3, <1>6 DEF Closed

(* A session that is over stays over, whatever is presented later.         *)
THEOREM ClosedForGood == Spec => ClosedStaysClosed
<1>1. SessionInv /\ [Next]_vars => [\A r \in TokenIds : Closed(r) => Closed(r)']_vars
  BY TokensAssumption, ClosedStep DEF vars
<1> QED BY <1>1, SessionInvariant, PTL DEF Spec, ClosedStaysClosed

(* Only the step a slot's query names moves the slot. *)
LEMMA LogoutStep ==
  ASSUME SessionInv, Next, NEW s \in Slots, req[s].pc \in {"killChildren", "killAll"},
         req'[s].pc = "idle"
  PROVE  \/ KillChildren(s)
         \/ KillAll(s)
         \/ req[s].pc = "killAll" /\ faults' # faults
<1>1. TypeOK
  BY DEF SessionInv
<1>2. ASSUME NEW q \in Slots, Begin(q) \/ Proceed(q) \/ QueryFails(q) PROVE q = s
  BY <1>1, <1>2, StepFrame DEF Frame
<1>3. ~Begin(s)
  BY DEF Begin, BeginLogin, BeginRefresh, BeginGuarded
<1>4. Proceed(s) => KillChildren(s) \/ KillAll(s)
  BY DEF Proceed, FindUser, CreateUser, InsertRefresh, InsertAccess, VerifyRefresh,
     RejectRefresh, KillSiblings, VerifyAccess, RejectAccess, FindAccess, FindParent, KillRefresh
<1>5. ASSUME QueryFails(s) PROVE req[s].pc = "killAll" /\ faults' # faults
  <2>1. faults' # faults
    BY <1>1, <1>5 DEF QueryFails, TypeOK
  <2>2. CASE req[s].pc = "killChildren"
    <3>1. AfterFault(s) = "handlerCatch"
      BY <2>2 DEF AfterFault
    <3>2. req'[s] = Call(req[s].op, "handlerCatch", req[s].user, req[s].tok, req[s].ref)
      BY <1>1, <1>5, <3>1, SlotUpdate DEF QueryFails
    <3> QED BY <3>2, CallFields
  <2> QED BY <2>1, <2>2
<1>6. ~((\E t \in TokenIds : Expire(t)) \/ (\E u \in Users : SetStatus(u)))
  BY DEF Expire, SetStatus
<1> QED BY <1>2, <1>3, <1>4, <1>5, <1>6 DEF Next

(* What is dead when a logout or a logoutAll answers. *)
LEMMA TruthfulStep ==
  ASSUME SessionInv, Next, NEW s \in Slots
  PROVE  /\ At(s, "killChildren") /\ At(s, "idle")' =>
               /\ req[s].ref \notin live' /\ req[s].tok \notin live'
               /\ \A r \in TokenIds : r = req[s].ref => LiveChildren(r)' = {}
         /\ At(s, "killAll") /\ At(s, "idle")' /\ faults' = faults =>
               live' \cap TokensOf(row[req[s].tok].user) = {}
<1>1. ASSUME At(s, "killChildren"), At(s, "idle")'
      PROVE  /\ req[s].ref \notin live' /\ req[s].tok \notin live'
             /\ \A r \in TokenIds : r = req[s].ref => LiveChildren(r)' = {}
  <2>1. KillChildren(s)
    BY <1>1, LogoutStep DEF KillAll
  <2>2. /\ req[s].ref \notin live /\ req[s].tok \in Children(req[s].ref)
    BY <1>1 DEF SessionInv, LocalsOK, Children
  <2>3. UNCHANGED row /\ live' = live \ Children(req[s].ref)
    BY <2>1 DEF KillChildren
  <2>4. \A r \in TokenIds : r = req[s].ref => LiveChildren(r)' = {}
    BY <2>3 DEF LiveChildren, Children
  <2> QED BY <2>2, <2>3, <2>4
<1>2. ASSUME At(s, "killAll"), At(s, "idle")', faults' = faults
      PROVE  live' \cap TokensOf(row[req[s].tok].user) = {}
  <2>1. KillAll(s)
    BY <1>2, LogoutStep DEF KillChildren
  <2>2. row[req[s].tok].user = req[s].user
    BY <1>2 DEF SessionInv, LocalsOK
  <2> QED BY <2>1, <2>2 DEF KillAll
<1> QED BY <1>1, <1>2

(* When logout or logoutAll answers, what it says is so.                   *)
THEOREM LogoutTellsTheTruth == Spec => LogoutIsTruthful
<1>1. SessionInv /\ [Next]_vars =>
        [\A s \in Slots :
            /\ At(s, "killChildren") /\ At(s, "idle")' =>
                  /\ req[s].ref \notin live' /\ req[s].tok \notin live'
                  /\ \A r \in TokenIds : r = req[s].ref => LiveChildren(r)' = {}
            /\ At(s, "killAll") /\ At(s, "idle")' /\ faults' = faults =>
                  live' \cap TokensOf(row[req[s].tok].user) = {}]_vars
  BY TruthfulStep DEF vars
<1> QED BY <1>1, SessionInvariant, PTL DEF Spec, LogoutIsTruthful

(* Only the lookup and the creation of a user go to these labels. *)
LEMMA OtherLabels ==
  ASSUME SessionInv, NEW s \in Slots,
         (Proceed(s) /\ ~FindUser(s) /\ ~CreateUser(s)) \/ QueryFails(s)
  PROVE  req'[s].pc \notin {"createUser", "insertRefresh"}
<1>1. TypeOK
  BY DEF SessionInv
<1>5. CASE QueryFails(s)
  <2>1. AfterFault(s) \notin {"createUser", "insertRefresh"}
    BY DEF AfterFault
  <2> QED BY <1>1, SlotFields, <1>5, <2>1 DEF QueryFails
<1>6. CASE VerifyRefresh(s) \/ VerifyAccess(s)
  BY <1>1, SlotFields, <1>6 DEF VerifyRefresh, VerifyAccess
<1>7. CASE InsertRefresh(s) \/ FindAccess(s) \/ FindParent(s)
  BY <1>1, SlotFields, <1>7 DEF InsertRefresh, FindAccess, FindParent
<1>8. CASE \/ RejectRefresh(s) \/ RejectAccess(s) \/ InsertAccess(s) \/ KillSiblings(s)
           \/ KillRefresh(s) \/ KillChildren(s) \/ KillAll(s)
  BY <1>1, SlotFields, <1>8 DEF RejectRefresh, RejectAccess, InsertAccess, KillSiblings,
     KillRefresh, KillChildren, KillAll
<1> QED BY <1>5, <1>6, <1>7, <1>8 DEF Proceed

(* A blocked user with no login in flight gets no session from this step. *)
LEMMA BlockedStep ==
  ASSUME SessionInv, Next, NEW u \in Users, status[u] = "blocked", LoggingIn(u) = {}
  PROVE  /\ \A t \in Unused : row'[t].type = "refresh" => row'[t].user # u
         /\ LoggingIn(u)' = {}
<1>1. TypeOK
  BY DEF SessionInv
<1>2. ASSUME NEW s \in Slots, InsertRefresh(s) PROVE req[s].user # u
  BY <1>2 DEF InsertRefresh, LoggingIn
<1>3. ASSUME NEW t \in Unused, row'[t].type = "refresh" PROVE row'[t].user # u
  <2>1. row'[t] # row[t]
    BY <1>3 DEF Unused
  <2>2. PICK s \in Slots : InsertRefresh(s) \/ InsertAccess(s)
    BY <2>1 DEF Next, Begin, BeginLogin, BeginRefresh, BeginGuarded, QueryFails, Expire,
       SetStatus, Proceed, FindUser, CreateUser, VerifyRefresh, RejectRefresh, KillSiblings,
       VerifyAccess, RejectAccess, FindAccess, FindParent, KillRefresh, KillChildren, KillAll
  <2>3. CASE InsertAccess(s)
    <3>1. PICK x \in Unused : Insert(x, "access", req[s].user, req[s].ref)
      BY <2>3 DEF InsertAccess
    <3> QED BY <1>1, <1>3, <2>1, <3>1 DEF Insert, TypeOK, Unused
  <2>4. CASE InsertRefresh(s)
    <3>1. PICK x \in Unused : Insert(x, "refresh", req[s].user, NoToken)
      BY <2>4 DEF InsertRefresh
    <3>2. row'[t].user = req[s].user
      BY <1>1, <2>1, <3>1 DEF Insert, TypeOK, Unused
    <3> QED BY <1>2, <2>4, <3>2
  <2> QED BY <2>2, <2>3, <2>4
<1>4. ASSUME NEW s \in Slots, Begin(s) \/ Proceed(s) \/ QueryFails(s)
      PROVE  LoggingIn(u)' = {}
  <2>1. Frame(s)
    BY <1>1, <1>4, StepFrame
  <2>2. req'[s].pc \in {"createUser", "insertRefresh"} => req'[s].user # u
    <3>1. CASE Begin(s)
      BY <1>1, <3>1, BeginCall, CallFields DEF TypeOK
    <3>2. CASE FindUser(s)
      <4>1. CASE req[s].user = u
        <5>1. Answer(s)
          BY <3>2, <4>1 DEF FindUser, RejectedAtLogin, SessionInv, LocalsOK, LoginOps
        <5> QED BY <1>1, <5>1, SlotFields
      <4>2. CASE req[s].user # u
        BY <1>1, <3>2, <4>2, SlotFields DEF FindUser
      <4> QED BY <4>1, <4>2
    <3>3. CASE CreateUser(s)
      <4>1. req[s].user # u
        BY <3>3 DEF CreateUser, LoggingIn
      <4> QED BY <1>1, <3>3, <4>1, SlotFields DEF CreateUser
    <3>4. CASE (Proceed(s) /\ ~FindUser(s) /\ ~CreateUser(s)) \/ QueryFails(s)
      <4>1. req'[s].pc \notin {"createUser", "insertRefresh"}
        BY <3>4, OtherLabels
      <4> QED BY <4>1
    <3> QED BY <1>4, <3>1, <3>2, <3>3, <3>4
  <2> QED BY <2>1, <2>2 DEF Frame, LoggingIn
<1>5. ASSUME (\E t \in TokenIds : Expire(t)) \/ (\E v \in Users : SetStatus(v))
      PROVE  LoggingIn(u)' = {}
  <2>1. UNCHANGED req
    BY <1>5 DEF Expire, SetStatus
  <2> QED BY <2>1 DEF LoggingIn
<1> QED BY <1>3, <1>4, <1>5 DEF Next

(* A blocked user's sessions are only those logins had already begun.      *)
THEOREM BlockedOpensNothing == Spec => BlockedUserOpensNoSession
<1>1. SessionInv /\ [Next]_vars =>
        [\A u \in Users :
            status[u] = "blocked" /\ LoggingIn(u) = {} =>
                /\ \A t \in Unused : row'[t].type = "refresh" => row'[t].user # u
                /\ LoggingIn(u)' = {}]_vars
  BY BlockedStep DEF vars
<1> QED BY <1>1, SessionInvariant, PTL DEF Spec, BlockedUserOpensNoSession

-----------------------------------------------------------------------------
(* The refinement.                                                         *)

(* What only a request alone can rely on: the refresh row it verified is   *)
(* still live when it acts on it, nothing joins the children it retired,   *)
(* and so no session has two live access tokens.                           *)
SerialInv ==
    /\ \A s \in Slots :
          req[s].pc \in {"killSiblings", "killRefresh", "insertAccess"} => req[s].ref \in live
    /\ \A s \in Slots : At(s, "insertAccess") => LiveChildren(req[s].ref) = {}
    /\ \A r \in TokenIds : \A a, b \in LiveChildren(r) : a = b

Simulates == Registry!SessionNext \/ UNCHANGED Registry!svars

-----------------------------------------------------------------------------
(* The steps of the registry, by what they do to the mapped variables.     *)

(* A login of the registry. *)
LEMMA Opens ==
  ASSUME NEW r \in TokenIds, NEW u \in Users, SessionOwner[r] = {},
         SessionOwner' = [SessionOwner EXCEPT ![r] = {u}],
         Refreshable' = Refreshable \cup {r}, AccessTokens' = AccessTokens
  PROVE  Registry!SessionNext
<1>1. Registry!OpenSession(r, u)
  BY DEF Registry!OpenSession, Registry!Open
<1> QED BY <1>1 DEF Registry!SessionNext

(* A session gets its access token. *)
LEMMA Grants ==
  ASSUME NEW r \in Refreshable, NEW a \in TokenIds, r \in TokenIds,
         AccessTokens[r] = {}, \A q \in TokenIds : a \notin AccessTokens[q],
         AccessTokens' = [AccessTokens EXCEPT ![r] = {a}],
         SessionOwner' = SessionOwner, Refreshable' = Refreshable
  PROVE  Registry!SessionNext
<1>1. Registry!Grant(r, a)
  BY DEF Registry!Grant
<1> QED BY <1>1 DEF Registry!SessionNext

(* A session loses its access token. *)
LEMMA Retires ==
  ASSUME NEW r \in TokenIds, AccessTokens[r] # {},
         AccessTokens' = [AccessTokens EXCEPT ![r] = {}],
         SessionOwner' = SessionOwner, Refreshable' = Refreshable
  PROVE  Registry!SessionNext
<1>1. Registry!Retire(r)
  BY DEF Registry!Retire
<1> QED BY <1>1 DEF Registry!SessionNext

(* A session can no longer be refreshed, its access token lives on. *)
LEMMA Strands ==
  ASSUME NEW r \in TokenIds, r \in Refreshable, Refreshable' = Refreshable \ {r},
         SessionOwner' = SessionOwner, AccessTokens' = AccessTokens
  PROVE  Registry!SessionNext
<1>1. Registry!Strand(r)
  BY DEF Registry!Strand
<1> QED BY <1>1 DEF Registry!SessionNext

(* A logout of the registry. *)
LEMMA Closes ==
  ASSUME NEW r \in TokenIds, SessionOwner[r] # {}, Refreshable' = Refreshable \ {r},
         AccessTokens' = [x \in TokenIds |-> IF x \in {r} THEN {} ELSE AccessTokens[x]],
         SessionOwner' = SessionOwner
  PROVE  Registry!SessionNext
<1>1. Registry!CloseSessions({r}) /\ r \in Registry!Open
  BY DEF Registry!CloseSessions, Registry!Open
<1> QED BY <1>1 DEF Registry!SessionNext

(* A logout of every session of a user. *)
LEMMA ClosesAll ==
  ASSUME NEW u \in Users, NEW S, S = {r \in TokenIds : SessionOwner[r] = {u}},
         Refreshable' = Refreshable \ S,
         AccessTokens' = [x \in TokenIds |-> IF x \in S THEN {} ELSE AccessTokens[x]],
         SessionOwner' = SessionOwner
  PROVE  Registry!SessionNext
<1>1. S = {r \in Registry!Open : SessionOwner[r] = {u}}
  BY DEF Registry!Open
<1>2. Registry!CloseSessions({r \in Registry!Open : SessionOwner[r] = {u}})
  BY <1>1 DEF Registry!CloseSessions
<1> QED BY <1>2 DEF Registry!SessionNext

(* A step that changes none of the mapped variables. *)
LEMMA Stutters ==
  ASSUME SessionOwner' = SessionOwner, Refreshable' = Refreshable,
         AccessTokens' = AccessTokens
  PROVE  Simulates
  BY DEF Simulates, Registry!svars

-----------------------------------------------------------------------------
(* What the mapped variables are made of.                                  *)

(* The entries of the mapped variables. *)
LEMMA Entries ==
  /\ \A r \in TokenIds : AccessTokens[r] = LiveChildren(r)
  /\ \A r \in TokenIds : row[r].type = "refresh" => SessionOwner[r] = {row[r].user}
  /\ \A r \in TokenIds : row[r].type # "refresh" => SessionOwner[r] = {}
  /\ \A r : r \in Refreshable <=>
        r \in TokenIds /\ row[r].type = "refresh" /\ (r \in live \/ Closing(r))
  BY DEF AccessTokens, SessionOwner, Refreshable, RefreshRows

(* Rows that stay keep the owners and the families. *)
LEMMA RowsKept ==
  ASSUME UNCHANGED row
  PROVE  /\ SessionOwner' = SessionOwner /\ RefreshRows' = RefreshRows
         /\ \A r : Children(r)' = Children(r)
  BY DEF SessionOwner, RefreshRows, Children

(* With one slot, a session is closing while that slot closes it. *)
LEMMA OneCloses ==
  ASSUME NEW s, Slots = {s}
  PROVE  /\ \A r : Closing(r) <=> req[s].pc = "killChildren" /\ req[s].ref = r
         /\ \A r : Closing(r)' <=> req'[s].pc = "killChildren" /\ req'[s].ref = r
  BY DEF Closing

(* A step that leaves rows, live ids and closings alone is not seen. *)
LEMMA Unseen ==
  ASSUME UNCHANGED <<row, live>>, \A r : Closing(r)' <=> Closing(r)
  PROVE  Simulates
<1>1. SessionOwner' = SessionOwner /\ RefreshRows' = RefreshRows
  BY RowsKept
<1>2. Refreshable' = Refreshable
  BY <1>1 DEF Refreshable
<1>3. AccessTokens' = AccessTokens
  BY RowsKept DEF AccessTokens, LiveChildren
<1> QED BY <1>1, <1>2, <1>3, Stutters

-----------------------------------------------------------------------------
(* The queries, one lemma each for those the registry sees.                *)

(* A session appears: its refresh row is new, and no row hangs from it.    *)
LEMMA InsertRefreshSeen ==
  ASSUME NEW s, Slots = {s}, SessionInv, InsertRefresh(s) PROVE Simulates
<1>1. PICK t \in Unused : /\ Insert(t, "refresh", req[s].user, NoToken)
                          /\ Continue(s, "insertAccess", req[s].user, t)
  BY DEF InsertRefresh
<1>2. /\ t \in TokenIds /\ row[t].type = "none" /\ t \notin live
      /\ req[s].user \in Users /\ req[s].pc = "insertRefresh"
  BY DEF Unused, SessionInv, LocalsOK, InsertRefresh
<1>3. /\ row'[t] = [type |-> "refresh", user |-> req[s].user, parent |-> NoToken]
      /\ \A x \in TokenIds \ {t} : row'[x] = row[x]
      /\ live' = live \cup {t}
  BY <1>1, <1>2 DEF Insert, SessionInv, TypeOK
<1>4. req'[s].pc = "insertAccess"
  BY <1>1, SlotFields DEF SessionInv
<1>5. \A r : ~Closing(r) /\ ~Closing(r)'
  BY <1>2, <1>4, OneCloses
<1>6. SessionOwner' = [SessionOwner EXCEPT ![t] = {req[s].user}]
  <2>1. RefreshRows' = RefreshRows \cup {t}
    BY <1>2, <1>3 DEF RefreshRows
  <2>2. \A x \in RefreshRows : row'[x] = row[x]
    BY <1>2, <1>3 DEF RefreshRows
  <2>3. row'[t].user = req[s].user
    BY <1>3
  <2> QED BY <1>2, <2>1, <2>2, <2>3 DEF SessionOwner
<1>7. Refreshable' = Refreshable \cup {t}
  BY <1>2, <1>3, <1>5 DEF Refreshable, RefreshRows
<1>8. \A r \in TokenIds : LiveChildren(r)' = LiveChildren(r)
  BY <1>2, <1>3 DEF LiveChildren, Children
<1>9. AccessTokens' = AccessTokens
  BY <1>8 DEF AccessTokens
<1>10. SessionOwner[t] = {}
  BY <1>2, Entries
<1> QED BY <1>2, <1>6, <1>7, <1>9, <1>10, Opens DEF Simulates

(* A session gets its one access token, by a login or a refresh.           *)
LEMMA InsertAccessSeen ==
  ASSUME NEW s, Slots = {s}, SessionInv, SerialInv, InsertAccess(s) PROVE Simulates
<1>1. PICK t \in Unused : Insert(t, "access", req[s].user, req[s].ref)
  BY DEF InsertAccess
<1>0. PICK r : r = req[s].ref
  OBVIOUS
<1>2. /\ t \in TokenIds /\ row[t].type = "none" /\ t \notin live
      /\ r \in TokenIds /\ row[r].type = "refresh" /\ r \in live
      /\ req[s].pc = "insertAccess" /\ LiveChildren(r) = {}
  BY <1>0 DEF Unused, SessionInv, LocalsOK, InsertAccess, SerialInv
<1>3. /\ row'[t] = [type |-> "access", user |-> req[s].user, parent |-> r]
      /\ \A x \in TokenIds \ {t} : row'[x] = row[x]
      /\ live' = live \cup {t}
  BY <1>0, <1>1, <1>2 DEF Insert, SessionInv, TypeOK
<1>4. req'[s].pc = "idle"
  BY SlotFields DEF SessionInv, InsertAccess
<1>5. \A x : ~Closing(x) /\ ~Closing(x)'
  BY <1>2, <1>4, OneCloses
<1>6. SessionOwner' = SessionOwner
  BY <1>2, <1>3 DEF SessionOwner, RefreshRows
<1>7. Refreshable' = Refreshable /\ r \in Refreshable
  BY <1>2, <1>3, <1>5 DEF Refreshable, RefreshRows
<1>8. /\ LiveChildren(r)' = {t}
      /\ \A x \in TokenIds \ {r} : LiveChildren(x)' = LiveChildren(x)
      /\ \A x \in TokenIds : t \notin LiveChildren(x)
  <2>1. row'[t].type = "access" /\ row'[t].parent = r
    BY <1>3
  <2> QED BY <1>2, <1>3, <2>1 DEF LiveChildren, Children
<1>9. AccessTokens' = [AccessTokens EXCEPT ![r] = {t}]
  BY <1>2, <1>8 DEF AccessTokens
<1>10. AccessTokens[r] = {} /\ \A x \in TokenIds : t \notin AccessTokens[x]
  BY <1>2, <1>8, Entries
<1> QED BY <1>2, <1>6, <1>7, <1>9, <1>10, Grants DEF Simulates

(* A refresh retires the session's access token, if it has one.            *)
LEMMA KillSiblingsSeen ==
  ASSUME NEW s, Slots = {s}, SessionInv, KillSiblings(s) PROVE Simulates
<1>0. PICK r : r = req[s].ref
  OBVIOUS
<1>1. /\ r \in TokenIds /\ row[r].type = "refresh" /\ req[s].pc = "killSiblings"
      /\ live' = live \ Children(r) /\ UNCHANGED row
  BY <1>0 DEF SessionInv, LocalsOK, KillSiblings
<1>2. req'[s].pc = "insertAccess"
  BY SlotFields DEF SessionInv, KillSiblings
<1>3. \A x : ~Closing(x) /\ ~Closing(x)'
  BY <1>0, <1>1, <1>2, OneCloses
<1>4. SessionOwner' = SessionOwner /\ RefreshRows' = RefreshRows
  BY <1>1, RowsKept
<1>5. Refreshable' = Refreshable
  BY <1>1, <1>3, <1>4 DEF Refreshable, RefreshRows, Children
<1>6. LiveChildren(r)' = {} /\ \A x \in TokenIds \ {r} : LiveChildren(x)' = LiveChildren(x)
  BY <1>1 DEF LiveChildren, Children
<1>7. AccessTokens' = [AccessTokens EXCEPT ![r] = {}]
  BY <1>1, <1>6 DEF AccessTokens
<1>8. CASE LiveChildren(r) = {}
  <2>1. AccessTokens' = AccessTokens
    BY <1>1, <1>6, <1>8 DEF AccessTokens
  <2> QED BY <2>1, <1>4, <1>5, Stutters
<1>9. CASE LiveChildren(r) # {}
  BY <1>1, <1>4, <1>5, <1>7, <1>9, Entries, Retires DEF Simulates
<1> QED BY <1>8, <1>9

(* A rejected token dies: alone, that is the end of a refreshable session, *)
(* of a session's one access token, or of nothing.                         *)
LEMMA DeathSeen ==
  ASSUME SessionInv, SerialInv, NEW t \in TokenIds, UNCHANGED row, live' = live \ {t},
         \A r : ~Closing(r) /\ ~Closing(r)'
  PROVE  Simulates
<1>1. SessionOwner' = SessionOwner /\ RefreshRows' = RefreshRows
  BY RowsKept
<1>2. CASE t \notin live
  <2>1. live' = live
    BY <1>2
  <2> QED BY <2>1, Unseen
<1>3. CASE t \in live /\ row[t].type = "refresh"
  <2>1. \A r \in TokenIds : LiveChildren(r)' = LiveChildren(r)
    BY <1>3 DEF LiveChildren, Children
  <2>2. AccessTokens' = AccessTokens
    BY <2>1 DEF AccessTokens
  <2>3. Refreshable' = Refreshable \ {t} /\ t \in Refreshable
    BY <1>1, <1>3 DEF Refreshable, RefreshRows
  <2> QED BY <1>1, <2>2, <2>3, Strands DEF Simulates
<1>4. CASE t \in live /\ row[t].type = "access"
  <2>0. PICK r : r = row[t].parent
    OBVIOUS
  <2>1. r \in TokenIds /\ t \in LiveChildren(r)
    BY <1>4, <2>0 DEF SessionInv, FamilyIntegrity, LiveChildren, Children
  <2>2. LiveChildren(r) = {t}
    BY <2>1 DEF SerialInv
  <2>3. \A x \in TokenIds : LiveChildren(x)' = LiveChildren(x) \ {t}
    BY DEF LiveChildren, Children
  <2>4. \A x \in TokenIds \ {r} : t \notin LiveChildren(x)
    BY <2>0 DEF LiveChildren, Children
  <2>5. AccessTokens' = [AccessTokens EXCEPT ![r] = {}]
    <3>1. LiveChildren(r)' = {}
      BY <2>1, <2>2, <2>3
    <3>2. \A x \in TokenIds \ {r} : LiveChildren(x)' = LiveChildren(x)
      BY <2>3, <2>4
    <3> QED BY <2>1, <3>1, <3>2 DEF AccessTokens
  <2>6. Refreshable' = Refreshable
    BY <1>1, <1>4 DEF Refreshable, RefreshRows
  <2> QED BY <1>1, <2>1, <2>2, <2>5, <2>6, Entries, Retires DEF Simulates
<1>5. t \in live => row[t].type \in {"refresh", "access"}
  BY DEF SessionInv, TypeOK, Row, Unused
<1> QED BY <1>2, <1>3, <1>4, <1>5

(* The first update of a logout: the session is closing from now on, and   *)
(* nothing the registry knows of it has changed.                           *)
LEMMA KillRefreshSeen ==
  ASSUME NEW s, Slots = {s}, SessionInv, SerialInv, KillRefresh(s) PROVE Simulates
<1>0. PICK r : r = req[s].ref
  OBVIOUS
<1>1. /\ r \in TokenIds /\ row[r].type = "refresh" /\ r \in live
      /\ req[s].pc = "killRefresh" /\ live' = live \ {r} /\ UNCHANGED row
  BY <1>0 DEF SessionInv, LocalsOK, KillRefresh, SerialInv
<1>2. req'[s].pc = "killChildren" /\ req'[s].ref = r
  BY <1>0, SlotFields DEF SessionInv, KillRefresh
<1>3. \A x : ~Closing(x) /\ (Closing(x)' <=> x = r)
  BY <1>0, <1>1, <1>2, OneCloses
<1>4. SessionOwner' = SessionOwner /\ RefreshRows' = RefreshRows
  BY <1>1, RowsKept
<1>5. Refreshable' = Refreshable
  BY <1>1, <1>3, <1>4 DEF Refreshable, RefreshRows
<1>6. \A x \in TokenIds : LiveChildren(x)' = LiveChildren(x)
  BY <1>1 DEF LiveChildren, Children
<1>7. AccessTokens' = AccessTokens
  BY <1>6 DEF AccessTokens
<1> QED BY <1>4, <1>5, <1>7, Stutters

(* The second update closes the session. *)
LEMMA KillChildrenSeen ==
  ASSUME NEW s, Slots = {s}, SessionInv, KillChildren(s) PROVE Simulates
<1>0. PICK r : r = req[s].ref
  OBVIOUS
<1>1. /\ r \in TokenIds /\ row[r].type = "refresh" /\ r \notin live
      /\ req[s].pc = "killChildren" /\ live' = live \ Children(r) /\ UNCHANGED row
  BY <1>0 DEF SessionInv, LocalsOK, KillChildren
<1>2. req'[s].pc = "idle"
  BY SlotFields DEF SessionInv, KillChildren
<1>3. \A x : (Closing(x) <=> x = r) /\ ~Closing(x)'
  BY <1>0, <1>1, <1>2, OneCloses
<1>4. SessionOwner' = SessionOwner /\ RefreshRows' = RefreshRows
  BY <1>1, RowsKept
<1>5. Refreshable' = Refreshable \ {r}
  BY <1>1, <1>3, <1>4 DEF Refreshable, RefreshRows, Children
<1>6. LiveChildren(r)' = {} /\ \A x \in TokenIds \ {r} : LiveChildren(x)' = LiveChildren(x)
  BY <1>1 DEF LiveChildren, Children
<1>7. AccessTokens' = [x \in TokenIds |-> IF x \in {r} THEN {} ELSE AccessTokens[x]]
  BY <1>6 DEF AccessTokens
<1>8. SessionOwner[r] # {}
  BY <1>1, Entries
<1> QED BY <1>1, <1>4, <1>5, <1>7, <1>8, Closes DEF Simulates

(* One update closes every session of a user, access tokens included:      *)
(* they carry their session's user.                                        *)
LEMMA KillAllSeen ==
  ASSUME NEW s, Slots = {s}, SessionInv, KillAll(s) PROVE Simulates
<1> DEFINE u == req[s].user
           S == {r \in TokenIds : SessionOwner[r] = {u}}
<1>1. /\ req[s].tok \in TokenIds /\ row[req[s].tok].type = "access"
      /\ row[req[s].tok].user = u /\ req[s].pc = "killAll"
      /\ live' = live \ TokensOf(u) /\ UNCHANGED row
  BY DEF SessionInv, LocalsOK, KillAll
<1>2. u \in Users
  BY <1>1 DEF SessionInv, Unused
<1>3. req'[s].pc = "idle"
  BY SlotFields DEF SessionInv, KillAll
<1>4. \A x : ~Closing(x) /\ ~Closing(x)'
  BY <1>1, <1>3, OneCloses
<1>a. FamilyIntegrity
  BY DEF SessionInv
<1> HIDE DEF u
<1>5. SessionOwner' = SessionOwner /\ RefreshRows' = RefreshRows
  BY <1>1, RowsKept
<1>6. \A r \in TokenIds : r \in S <=> row[r].type = "refresh" /\ row[r].user = u
  BY Entries
<1> HIDE DEF S
<1>7. Refreshable' = Refreshable \ S
  BY <1>1, <1>4, <1>5, <1>6 DEF Refreshable, RefreshRows, TokensOf
<1>8. \A r \in TokenIds : r \in S => LiveChildren(r)' = {}
  BY <1>1, <1>6, <1>a DEF LiveChildren, Children, TokensOf, FamilyIntegrity
<1>9. \A r \in TokenIds : r \notin S => LiveChildren(r)' = LiveChildren(r)
  BY <1>1, <1>6, <1>a DEF LiveChildren, Children, TokensOf, FamilyIntegrity
<1>10. AccessTokens' = [x \in TokenIds |-> IF x \in S THEN {} ELSE AccessTokens[x]]
  BY <1>8, <1>9 DEF AccessTokens
<1> QED BY <1>2, <1>5, <1>7, <1>10, ClosesAll DEF Simulates, S

(* A query fails.  Only between the two updates of a logout does the       *)
(* registry see it: the session is stranded.                               *)
LEMMA FaultSeen ==
  ASSUME NEW s, Slots = {s}, SessionInv, QueryFails(s) PROVE Simulates
<1>0. PICK r : r = req[s].ref
  OBVIOUS
<1>1. UNCHANGED <<row, live>>
  BY DEF QueryFails
<1>2. req'[s].pc # "killChildren"
  <2>1. AfterFault(s) # "killChildren"
    BY DEF AfterFault
  <2> QED BY <2>1, SlotFields DEF SessionInv, QueryFails
<1>3. \A x : ~Closing(x)'
  BY <1>2, OneCloses
<1>4. CASE req[s].pc # "killChildren"
  BY <1>1, <1>3, <1>4, OneCloses, Unseen
<1>5. CASE req[s].pc = "killChildren"
  <2>1. r \in TokenIds /\ row[r].type = "refresh" /\ r \notin live
    BY <1>0, <1>5 DEF SessionInv, LocalsOK
  <2>2. \A x : Closing(x) <=> x = r
    BY <1>0, <1>5, OneCloses
  <2>3. SessionOwner' = SessionOwner /\ RefreshRows' = RefreshRows
    BY <1>1, RowsKept
  <2>4. Refreshable' = Refreshable \ {r} /\ r \in Refreshable
    BY <1>1, <1>3, <2>1, <2>2, <2>3 DEF Refreshable, RefreshRows
  <2>5. AccessTokens' = AccessTokens
    BY <1>1 DEF AccessTokens, LiveChildren, Children
  <2> QED BY <2>1, <2>3, <2>4, <2>5, Strands DEF Simulates
<1> QED BY <1>4, <1>5

-----------------------------------------------------------------------------
(* The queries the registry does not see, and the queries that reject.     *)

(* A request arrives, or takes a step that only reads. *)
LEMMA ReadSeen ==
  ASSUME NEW s, Slots = {s}, SessionInv,
         \/ Begin(s) \/ FindUser(s) \/ CreateUser(s) \/ VerifyRefresh(s)
         \/ VerifyAccess(s) \/ FindAccess(s) \/ FindParent(s)
  PROVE  Simulates
<1>1. UNCHANGED <<row, live>>
  BY DEF Begin, BeginLogin, BeginRefresh, BeginGuarded, FindUser, CreateUser,
     VerifyRefresh, VerifyAccess, FindAccess, FindParent
<1>2. req[s].pc # "killChildren"
  BY DEF Begin, BeginLogin, BeginRefresh, BeginGuarded, FindUser, CreateUser,
     VerifyRefresh, VerifyAccess, FindAccess, FindParent
<1>3. req'[s].pc # "killChildren"
  <2>1. CASE Begin(s)
    <3>1. PICK o \in Ops, l \in {"findUser", "verifyRefresh", "verifyAccess"},
               u \in Users \cup {NoUser}, t \in TokenIds \cup {NoToken},
               x \in TokenIds \cup {NoToken} :
             req' = [req EXCEPT ![s] = Call(o, l, u, t, x)]
      BY <2>1, BeginCall
    <3> QED BY <3>1, CallFields DEF SessionInv, TypeOK
  <2>2. CASE FindUser(s) \/ CreateUser(s)
    BY <2>2, SlotFields DEF FindUser, CreateUser, SessionInv
  <2>3. CASE VerifyRefresh(s)
    <3>1. CASE RefreshIsValid(req[s].ref)
      BY <2>3, <3>1, SlotFields DEF VerifyRefresh, SessionInv
    <3>2. CASE ~RefreshIsValid(req[s].ref)
      BY <2>3, <3>2, SlotFields DEF VerifyRefresh, SessionInv
    <3> QED BY <3>1, <3>2
  <2>4. CASE VerifyAccess(s)
    BY <2>4, SlotFields DEF VerifyAccess, SessionInv
  <2>5. CASE FindAccess(s) \/ FindParent(s)
    BY <2>5, SlotFields DEF FindAccess, FindParent, SessionInv
  <2> QED BY <2>1, <2>2, <2>3, <2>4, <2>5
<1> QED BY <1>1, <1>2, <1>3, OneCloses, Unseen

(* The catch blocks of the two token checks. *)
LEMMA RejectSeen ==
  ASSUME NEW s, Slots = {s}, SessionInv, SerialInv, RejectRefresh(s) \/ RejectAccess(s)
  PROVE  Simulates
<1>1. PICK t : t = IF RejectRefresh(s) THEN req[s].ref ELSE req[s].tok
  OBVIOUS
<1>2. t \in TokenIds /\ UNCHANGED row /\ live' = live \ {t} /\ req[s].pc # "killChildren"
  BY <1>1 DEF RejectRefresh, RejectAccess, SessionInv, LocalsOK
<1>3. req'[s].pc # "killChildren"
  BY SlotFields DEF RejectRefresh, RejectAccess, SessionInv
<1> QED BY <1>2, <1>3, OneCloses, DeathSeen

(* Every step of the service is a step of the registry, or unseen. *)
LEMMA StepSeen ==
  ASSUME NEW s, Slots = {s}, SessionInv, SerialInv, [Next]_vars
  PROVE  Simulates
<1>1. CASE Begin(s) \/ Proceed(s) \/ QueryFails(s)
  BY <1>1, InsertRefreshSeen, InsertAccessSeen, KillSiblingsSeen, KillRefreshSeen,
     KillChildrenSeen, KillAllSeen, FaultSeen, ReadSeen, RejectSeen DEF Proceed
<1>2. CASE (\E t \in TokenIds : Expire(t)) \/ (\E u \in Users : SetStatus(u)) \/ UNCHANGED vars
  <2>1. UNCHANGED <<row, live, req>>
    BY <1>2 DEF Expire, SetStatus, vars
  <2>2. \A r : Closing(r)' <=> Closing(r)
    BY <2>1 DEF Closing
  <2> QED BY <2>1, <2>2, Unseen
<1> QED BY <1>1, <1>2 DEF Next

(* The empty token table is the empty registry. *)
LEMMA InitSeen ==
  ASSUME Init PROVE Registry!SessionInit
<1>1. RefreshRows = {} /\ \A r : LiveChildren(r) = {}
  BY DEF Init, NoRow, RefreshRows, LiveChildren
<1> QED BY <1>1 DEF Registry!SessionInit, SessionOwner, Refreshable, AccessTokens

-----------------------------------------------------------------------------
(* Alone, a request finds what it verified.                                *)

LEMMA InitSerial == ASSUME Init PROVE SerialInv
  BY DEF Init, SerialInv, Idle, Call, LiveChildren

(* Live ids of a step that inserts no row: the families do not grow. *)
LEMMA FamiliesShrink ==
  ASSUME SerialInv, UNCHANGED row, live' \subseteq live
  PROVE  /\ \A r : LiveChildren(r)' \subseteq LiveChildren(r)
         /\ \A r \in TokenIds : \A a, b \in LiveChildren(r)' : a = b
  BY DEF SerialInv, LiveChildren, Children

(* The one request keeps what it relies on from query to query. *)
LEMMA SlotSerial ==
  ASSUME NEW s, Slots = {s}, SessionInv, SerialInv,
         Begin(s) \/ Proceed(s) \/ QueryFails(s)
  PROVE  SerialInv'
<1>1. TypeOK
  BY DEF SessionInv
<1>2. CASE InsertRefresh(s)
  <2>1. PICK t \in Unused : /\ Insert(t, "refresh", req[s].user, NoToken)
                            /\ Continue(s, "insertAccess", req[s].user, t)
    BY <1>2 DEF InsertRefresh
  <2>2. t \in TokenIds /\ row[t].type = "none" /\ t \notin live
    BY DEF Unused, SessionInv
  <2>3. /\ row'[t] = [type |-> "refresh", user |-> req[s].user, parent |-> NoToken]
        /\ \A x \in TokenIds \ {t} : row'[x] = row[x]
        /\ live' = live \cup {t}
    BY <1>1, <2>1, <2>2 DEF Insert, TypeOK
  <2>4. req'[s].pc = "insertAccess" /\ req'[s].ref = t
    BY <1>1, <2>1, SlotFields
  <2>5. \A r \in TokenIds : LiveChildren(r)' = LiveChildren(r)
    BY <2>2, <2>3 DEF LiveChildren, Children
  <2>6. LiveChildren(t) = {}
    BY <2>2 DEF LiveChildren, Children, SessionInv, FamilyIntegrity
  <2> QED BY <2>2, <2>3, <2>4, <2>5, <2>6 DEF SerialInv
<1>3. CASE InsertAccess(s)
  <2>1. PICK t \in Unused : Insert(t, "access", req[s].user, req[s].ref)
    BY <1>3 DEF InsertAccess
  <2>2. t \in TokenIds /\ row[t].type = "none" /\ t \notin live
    BY DEF Unused, SessionInv
  <2>3. PICK r \in TokenIds : r = req[s].ref
    BY <1>3 DEF InsertAccess, SessionInv, LocalsOK
  <2>4. /\ row'[t] = [type |-> "access", user |-> req[s].user, parent |-> r]
        /\ \A x \in TokenIds \ {t} : row'[x] = row[x]
        /\ live' = live \cup {t}
    BY <1>1, <2>1, <2>2, <2>3 DEF Insert, TypeOK
  <2>5. req'[s].pc = "idle"
    BY <1>1, <1>3, SlotFields DEF InsertAccess
  <2>6. LiveChildren(r) = {}
    BY <1>3, <2>3 DEF SerialInv, InsertAccess
  <2>7. row'[t].type = "access" /\ row'[t].parent = r
    BY <2>4
  <2>8. /\ LiveChildren(r)' = {t}
        /\ \A x \in TokenIds \ {r} : LiveChildren(x)' = LiveChildren(x)
    BY <2>2, <2>3, <2>4, <2>6, <2>7 DEF LiveChildren, Children
  <2> QED BY <2>5, <2>8 DEF SerialInv
<1>4. CASE KillSiblings(s)
  <2>1. PICK r \in TokenIds : r = req[s].ref
    BY <1>4 DEF KillSiblings, SessionInv, LocalsOK
  <2>2. /\ row[r].type = "refresh" /\ r \in live
        /\ live' = live \ Children(r) /\ UNCHANGED row
    BY <1>4, <2>1 DEF KillSiblings, SessionInv, LocalsOK, SerialInv
  <2>3. req'[s].pc = "insertAccess" /\ req'[s].ref = r
    BY <1>1, <1>4, <2>1, SlotFields DEF KillSiblings
  <2>4. r \in live' /\ LiveChildren(r)' = {}
    BY <2>2 DEF LiveChildren, Children
  <2> QED BY <2>2, <2>3, <2>4, FamiliesShrink DEF SerialInv
<1>5. CASE VerifyRefresh(s)
  <2>1. UNCHANGED <<row, live>>
    BY <1>5 DEF VerifyRefresh
  <2>2. /\ req'[s].pc # "insertAccess"
        /\ req'[s].pc \in {"killSiblings", "killRefresh"} => req'[s].ref \in live'
    <3>1. CASE RefreshIsValid(req[s].ref)
      BY <1>1, <1>5, <3>1, SlotFields DEF VerifyRefresh, RefreshIsValid
    <3>2. CASE ~RefreshIsValid(req[s].ref)
      BY <1>1, <1>5, <3>2, SlotFields DEF VerifyRefresh
    <3> QED BY <3>1, <3>2
  <2> QED BY <2>1, <2>2, FamiliesShrink DEF SerialInv
<1>6. CASE \/ Begin(s) \/ QueryFails(s) \/ FindUser(s) \/ CreateUser(s) \/ RejectRefresh(s)
           \/ VerifyAccess(s) \/ RejectAccess(s) \/ FindAccess(s) \/ FindParent(s)
           \/ KillRefresh(s) \/ KillChildren(s) \/ KillAll(s)
  <2>1. UNCHANGED row /\ live' \subseteq live
    BY <1>6 DEF Begin, BeginLogin, BeginRefresh, BeginGuarded, QueryFails, FindUser,
       CreateUser, RejectRefresh, VerifyAccess, RejectAccess, FindAccess, FindParent,
       KillRefresh, KillChildren, KillAll
  <2>2. req'[s].pc \notin {"killSiblings", "killRefresh", "insertAccess"}
    <3>1. CASE Begin(s)
      <4>1. PICK o \in Ops, l \in {"findUser", "verifyRefresh", "verifyAccess"},
                 u \in Users \cup {NoUser}, t \in TokenIds \cup {NoToken},
                 x \in TokenIds \cup {NoToken} :
               req' = [req EXCEPT ![s] = Call(o, l, u, t, x)]
        BY <3>1, BeginCall
      <4> QED BY <1>1, <4>1, CallFields DEF TypeOK
    <3>2. CASE QueryFails(s)
      <4>1. AfterFault(s) \notin {"killSiblings", "killRefresh", "insertAccess"}
        BY DEF AfterFault
      <4> QED BY <1>1, <3>2, <4>1, SlotFields DEF QueryFails
    <3>3. CASE FindUser(s) \/ CreateUser(s)
      BY <1>1, <3>3, SlotFields DEF FindUser, CreateUser
    <3>4. CASE RejectRefresh(s) \/ RejectAccess(s)
      BY <1>1, <3>4, SlotFields DEF RejectRefresh, RejectAccess
    <3>5. CASE VerifyAccess(s)
      BY <1>1, <3>5, SlotFields DEF VerifyAccess
    <3>6. CASE FindAccess(s) \/ FindParent(s)
      BY <1>1, <3>6, SlotFields DEF FindAccess, FindParent
    <3>7. CASE KillRefresh(s) \/ KillChildren(s) \/ KillAll(s)
      BY <1>1, <3>7, SlotFields DEF KillRefresh, KillChildren, KillAll
    <3> QED BY <1>6, <3>1, <3>2, <3>3, <3>4, <3>5, <3>6, <3>7
  <2> QED BY <2>1, <2>2, FamiliesShrink DEF SerialInv
<1> QED BY <1>2, <1>3, <1>4, <1>5, <1>6 DEF Proceed

(* The environment touches neither rows nor the request. *)
LEMMA NextSerial ==
  ASSUME NEW s, Slots = {s}, SessionInv, SerialInv, [Next]_vars
  PROVE  SerialInv'
<1>1. CASE Begin(s) \/ Proceed(s) \/ QueryFails(s)
  BY <1>1, SlotSerial
<1>2. CASE (\E t \in TokenIds : Expire(t)) \/ (\E u \in Users : SetStatus(u)) \/ UNCHANGED vars
  <2>1. UNCHANGED <<row, live, req>>
    BY <1>2 DEF Expire, SetStatus, vars
  <2> QED BY <2>1 DEF SerialInv, LiveChildren, Children
<1> QED BY <1>1, <1>2 DEF Next

(* With one request in flight at a time the token service is the abstract  *)
(* registry of sessions: a session is granted an access token only while   *)
(* it can be refreshed and only after the one before is retired, whatever  *)
(* fails, expires or is presented in the wrong place.                      *)
THEOREM Refinement ==
  ASSUME NEW s, Slots = {s}
  PROVE  Spec => ImplementsSessions
<1>1. Init => Registry!SessionInit /\ SerialInv
  BY InitSeen, InitSerial
<1>2. SessionInv /\ SerialInv /\ [Next]_vars => SerialInv'
  BY NextSerial
<1>3. SessionInv /\ SerialInv /\ [Next]_vars => [Registry!SessionNext]_(Registry!svars)
  BY StepSeen DEF Simulates
<1> QED BY <1>1, <1>2, <1>3, SessionInvariant, PTL
        DEF Spec, ImplementsSessions, Registry!SessionSpec
=============================================================================
