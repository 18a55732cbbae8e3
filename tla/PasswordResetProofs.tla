------------------------- MODULE PasswordResetProofs -------------------------
(***************************************************************************)
(* Proofs about PasswordReset, for any users, OTPs, reset tokens, requests *)
(* in flight, instants and failing queries.  ResetInv is inductive; the    *)
(* properties follow from it.                                              *)
(***************************************************************************)
EXTENDS PasswordReset, FiniteSetTheorems, TLAPS

USE DEF At

-----------------------------------------------------------------------------
(* Requests.                                                               *)

(* The parts of a request. *)
LEMMA CallFields ==
  ASSUME NEW l, NEW u, NEW o, NEW k, NEW p
  PROVE  /\ Call(l, u, o, k, p).pc = l /\ Call(l, u, o, k, p).user = u
         /\ Call(l, u, o, k, p).otp = o /\ Call(l, u, o, k, p).key = k
         /\ Call(l, u, o, k, p).pw = p
  BY DEF Call

(* A request made of typed parts is a request. *)
LEMMA CallType ==
  ASSUME NEW l \in Labels, NEW u \in Users \cup {None}, NEW o \in OtpIds \cup {None},
         NEW k \in KeyIds \cup {None}, NEW p \in Passwords \cup {None}
  PROVE  Call(l, u, o, k, p) \in Request
  BY DEF Call, Request

(* A free slot is a request at no query. *)
LEMMA IdleFields == Idle \in Request /\ Idle.pc = "idle"
  BY CallType, CallFields DEF Idle, Labels

(* The parts of a typed request. *)
LEMMA RequestFields ==
  ASSUME NEW q \in Request
  PROVE  /\ q.pc \in Labels /\ q.user \in Users \cup {None} /\ q.otp \in OtpIds \cup {None}
         /\ q.key \in KeyIds \cup {None} /\ q.pw \in Passwords \cup {None}
  BY DEF Request

(* What a step does to the requests: one slot is given q. *)
Frame(s, q) ==
    /\ q \in Request
    /\ req' \in [Slots -> Request]
    /\ req'[s] = q
    /\ \A t \in Slots \ {s} : req'[t] = req[t]

(* A handler that puts a typed request in its slot leaves the others. *)
LEMMA BecomeFrame ==
  ASSUME req \in [Slots -> Request], NEW s \in Slots, NEW q \in Request, Become(s, q)
  PROVE  Frame(s, q)
  BY DEF Become, Frame

(* A handler that answers leaves its slot free. *)
LEMMA AnswerFrame ==
  ASSUME req \in [Slots -> Request], NEW s \in Slots, Answer(s)
  PROVE  Frame(s, Idle)
  BY BecomeFrame, IdleFields DEF Answer

(* A handler that goes on keeps its locals. *)
LEMMA GotoFrame ==
  ASSUME req \in [Slots -> Request], NEW s \in Slots, NEW l \in Labels, Goto(s, l)
  PROVE  \E q \in Request : /\ Frame(s, q) /\ q.pc = l /\ q.user = req[s].user
                            /\ q.otp = req[s].otp /\ q.key = req[s].key /\ q.pw = req[s].pw
<1> DEFINE q == Call(l, req[s].user, req[s].otp, req[s].key, req[s].pw)
<1>1. req[s] \in Request
  OBVIOUS
<1>2. q \in Request
  BY <1>1, RequestFields, CallType
<1>3. Frame(s, q)
  BY <1>2, BecomeFrame DEF Goto
<1> QED BY <1>2, <1>3, CallFields

(* None is no id.                                                          *)
LEMMA NoneIsNoId ==
  ASSUME ResetAssumption
  PROVE  None \notin Users /\ None \notin OtpIds /\ None \notin KeyIds /\ None \notin Passwords
  BY DEF ResetAssumption

-----------------------------------------------------------------------------
(* What the arriving requests leave in their slots.                        *)

(* createOTP has retired the OTPs of the user it saves a new one for. *)
LEMMA RetireOtpsEffect ==
  ASSUME TypeOK, NEW s \in Slots, RetireOtps(s)
  PROVE  \E u \in Users, q \in Request :
            /\ Frame(s, q) /\ q.pc = "saveOtp" /\ q.user = u
            /\ active' = active \ ActiveOf(u)
<1>1. PICK u \in Users : /\ active' = active \ ActiveOf(u)
                         /\ Become(s, Call("saveOtp", u, None, None, None))
  BY DEF RetireOtps
<1>2. Call("saveOtp", u, None, None, None) \in Request
  BY CallType DEF Labels
<1> QED BY <1>1, <1>2, BecomeFrame, CallFields DEF TypeOK

(* findOTP returns an active OTP and its user. *)
LEMMA FindOtpEffect ==
  ASSUME TypeOK, NEW s \in Slots, FindOtp(s)
  PROVE  \E o \in active, q \in Request :
            /\ Frame(s, q) /\ q.pc = "consumeOtp" /\ q.otp = o /\ q.user = otp[o].user
<1>1. PICK o \in active : Become(s, Call("consumeOtp", otp[o].user, o, None, None))
  BY DEF FindOtp
<1>2. o \in OtpIds /\ otp[o].user \in Users \cup {None}
  BY DEF TypeOK, OtpRow
<1>3. Call("consumeOtp", otp[o].user, o, None, None) \in Request
  BY <1>2, CallType DEF Labels
<1> QED BY <1>1, <1>3, BecomeFrame, CallFields DEF TypeOK

(* findUserId finds a row that is not inactive. *)
LEMMA FindKeyEffect ==
  ASSUME TypeOK, NEW s \in Slots, FindKey(s)
  PROVE  \E k \in fresh, p \in Passwords, q \in Request :
            /\ Frame(s, q) /\ q.pc = "consumeKey" /\ q.key = k /\ q.user = key[k].user
            /\ q.pw = p
<1>1. PICK k \in fresh, p \in Passwords : Become(s, Call("consumeKey", key[k].user, None, k, p))
  BY DEF FindKey
<1>2. k \in KeyIds /\ key[k].user \in Users \cup {None}
  BY DEF TypeOK, KeyRow
<1>3. Call("consumeKey", key[k].user, None, k, p) \in Request
  BY <1>2, CallType DEF Labels
<1> QED BY <1>1, <1>3, BecomeFrame, CallFields DEF TypeOK

(* changePassword has loaded the user. *)
LEMMA LoadForChangeEffect ==
  ASSUME TypeOK, NEW s \in Slots, LoadForChange(s)
  PROVE  \E u \in Users, p \in Passwords, q \in Request :
            Frame(s, q) /\ q.pc = "saveChanged" /\ q.user = u /\ q.pw = p
<1>1. PICK u \in Users, p \in Passwords : Become(s, Call("saveChanged", u, None, None, p))
  BY DEF LoadForChange
<1>2. Call("saveChanged", u, None, None, p) \in Request
  BY CallType DEF Labels
<1> QED BY <1>1, <1>2, BecomeFrame, CallFields DEF TypeOK

-----------------------------------------------------------------------------
(* What the later queries leave in their slots: the request with its       *)
(* locals at another query, or a free slot.                                *)

KeepsLocals(s, q) ==
    /\ q.user = req[s].user /\ q.otp = req[s].otp /\ q.key = req[s].key /\ q.pw = req[s].pw

(* The handler goes on to one of the queries in L, or answers. *)
Proceeds(s, L) ==
    \E q \in Request : /\ Frame(s, q)
                       /\ q = Idle \/ (q.pc \in L /\ KeepsLocals(s, q))
                       /\ q.pc \in L \cup {"idle"}

LEMMA AnswerProceeds ==
  ASSUME TypeOK, NEW s \in Slots, Answer(s), NEW L
  PROVE  Proceeds(s, L)
  BY AnswerFrame, IdleFields DEF TypeOK, Proceeds

LEMMA GotoProceeds ==
  ASSUME TypeOK, NEW s \in Slots, NEW l \in Labels, Goto(s, l), NEW L, l \in L
  PROVE  Proceeds(s, L)
  BY GotoFrame DEF TypeOK, Proceeds, KeepsLocals

(* Which queries follow which. *)
LEMMA ProceedEffects ==
  ASSUME TypeOK, NEW s \in Slots
  PROVE  /\ SaveOtp(s) \/ SaveKey(s) \/ WritePassword(s) \/ SaveChanged(s) \/ QueryFails(s)
               => Proceeds(s, {}) /\ Frame(s, Idle)
         /\ ConsumeOtp(s) => Proceeds(s, {"saveKey"})
         /\ ConsumeKey(s) => Proceeds(s, {"compareNew"})
         /\ CompareNew(s) => Proceeds(s, {"writePassword"})
<1>1. ASSUME SaveOtp(s) \/ SaveKey(s) \/ WritePassword(s) \/ SaveChanged(s) \/ QueryFails(s)
      PROVE  Proceeds(s, {}) /\ Frame(s, Idle)
  <2>1. Answer(s)
    BY <1>1 DEF SaveOtp, SaveKey, WritePassword, SaveChanged, QueryFails
  <2> QED BY <2>1, AnswerProceeds, AnswerFrame DEF TypeOK
<1>2. ConsumeOtp(s) => Proceeds(s, {"saveKey"})
  BY AnswerProceeds, GotoProceeds DEF ConsumeOtp, Labels
<1>3. ConsumeKey(s) => Proceeds(s, {"compareNew"})
  BY GotoProceeds DEF ConsumeKey, Labels
<1>4. CompareNew(s) => Proceeds(s, {"writePassword"})
  BY AnswerProceeds, GotoProceeds DEF CompareNew, Labels
<1> QED BY <1>1, <1>2, <1>3, <1>4

-----------------------------------------------------------------------------
(* Types, rows and locals.                                                 *)

(* Empty tables and idle slots have their types. *)
LEMMA InitType == ASSUME ResetAssumption, Init PROVE TypeOK
<1>1. NoOtp \in OtpRow /\ NoKey \in KeyRow
  BY DEF ResetAssumption, NoOtp, NoKey, OtpRow, KeyRow
<1> QED BY <1>1, IdleFields DEF ResetAssumption, Init, TypeOK

(* Every query of every handler writes rows and locals of their types. *)
LEMMA StepType ==
  ASSUME ResetAssumption, TypeOK, NEW s \in Slots, LocalsOK(s), Step(s) \/ QueryFails(s)
  PROVE  TypeOK'
<1>0. now \in Instants
  BY DEF TypeOK
<1>1. req' \in [Slots -> Request]
  BY ProceedEffects, RetireOtpsEffect, FindOtpEffect, FindKeyEffect, LoadForChangeEffect
     DEF Step, Proceeds, Frame
<1>2. otp' \in [OtpIds -> OtpRow] /\ active' \subseteq OtpIds
  <2>1. CASE SaveOtp(s)
    <3>1. PICK o \in UnusedOtps : /\ otp' = [otp EXCEPT ![o] = [user |-> req[s].user, at |-> now]]
                                  /\ active' = active \cup {o}
      BY <2>1 DEF SaveOtp
    <3>2. [user |-> req[s].user, at |-> now] \in OtpRow /\ o \in OtpIds
      BY <1>0, <2>1 DEF OtpRow, UnusedOtps, LocalsOK, SaveOtp
    <3> QED BY <3>1, <3>2 DEF TypeOK
  <2>2. CASE RetireOtps(s) \/ ConsumeOtp(s)
    BY <2>2 DEF TypeOK, RetireOtps, ConsumeOtp
  <2>3. CASE ~SaveOtp(s) /\ ~RetireOtps(s) /\ ~ConsumeOtp(s)
    BY <2>3 DEF TypeOK, Step, FindOtp, SaveKey, FindKey, ConsumeKey, CompareNew,
       WritePassword, LoadForChange, SaveChanged, QueryFails, rows
  <2> QED BY <2>1, <2>2, <2>3
<1>3. key' \in [KeyIds -> KeyRow] /\ fresh' \subseteq KeyIds
  <2>1. CASE SaveKey(s)
    <3>1. PICK k \in UnusedKeys : /\ key' = [key EXCEPT ![k] = NewKey(req[s].user, req[s].otp)]
                                  /\ fresh' = fresh \cup {k}
      BY <2>1 DEF SaveKey
    <3>2. NewKey(req[s].user, req[s].otp) \in KeyRow /\ k \in KeyIds
      BY <1>0, <2>1 DEF NewKey, KeyRow, UnusedKeys, LocalsOK, SaveKey
    <3> QED BY <3>1, <3>2 DEF TypeOK
  <2>2. CASE ConsumeKey(s)
    BY <2>2 DEF TypeOK, ConsumeKey
  <2>3. CASE ~SaveKey(s) /\ ~ConsumeKey(s)
    BY <2>3 DEF TypeOK, Step, RetireOtps, SaveOtp, FindOtp, ConsumeOtp, FindKey, CompareNew,
       WritePassword, LoadForChange, SaveChanged, QueryFails, rows
  <2> QED BY <2>1, <2>2, <2>3
<1>4. password' \in [Users -> Passwords]
  <2>1. CASE WritePassword(s) \/ SaveChanged(s)
    <3>1. req[s].user \in Users /\ req[s].pw \in Passwords
      BY <2>1 DEF LocalsOK, WritePassword, SaveChanged
    <3> QED BY <2>1, <3>1 DEF TypeOK, WritePassword, SaveChanged
  <2>2. CASE ~WritePassword(s) /\ ~SaveChanged(s)
    BY <2>2 DEF TypeOK, Step, RetireOtps, SaveOtp, FindOtp, ConsumeOtp, SaveKey, FindKey,
       ConsumeKey, CompareNew, LoadForChange, QueryFails, rows
  <2> QED BY <2>1, <2>2
<1>5. granted' \in [OtpIds -> Nat] /\ written' \in [KeyIds -> Nat]
  <2>1. CASE SaveKey(s) \/ WritePassword(s)
    BY <2>1 DEF TypeOK, SaveKey, WritePassword
  <2>2. CASE ~SaveKey(s) /\ ~WritePassword(s)
    BY <2>2 DEF TypeOK, Step, RetireOtps, SaveOtp, FindOtp, ConsumeOtp, FindKey,
       ConsumeKey, CompareNew, LoadForChange, SaveChanged, QueryFails, counts
  <2> QED BY <2>1, <2>2
<1>6. now' \in Instants /\ faults' \in 0 .. MaxFaults
  <2>1. CASE Step(s)
    BY <2>1 DEF TypeOK, Step, RetireOtps, SaveOtp, FindOtp, ConsumeOtp, SaveKey, FindKey,
       ConsumeKey, CompareNew, WritePassword, LoadForChange, SaveChanged
  <2>2. CASE QueryFails(s)
    BY <2>2 DEF TypeOK, QueryFails, ResetAssumption
  <2> QED BY <2>1, <2>2
<1> QED BY <1>1, <1>2, <1>3, <1>4, <1>5, <1>6 DEF TypeOK

(* Columns of a saved row never change, and a spent row stays spent. *)
Advance ==
    /\ \A o \in OtpIds \ UnusedOtps : otp'[o] = otp[o] /\ (o \notin active => o \notin active')
    /\ \A k \in KeyIds \ UnusedKeys : key'[k] = key[k] /\ (k \notin fresh => k \notin fresh')

LEMMA StepAdvances ==
  ASSUME TypeOK, NEW s \in Slots, Step(s) \/ QueryFails(s) PROVE Advance
<1>1. CASE SaveOtp(s)
  BY <1>1 DEF TypeOK, Advance, SaveOtp, UnusedOtps, UnusedKeys
<1>2. CASE SaveKey(s)
  BY <1>2 DEF TypeOK, Advance, SaveKey, UnusedOtps, UnusedKeys
<1>3. CASE RetireOtps(s) \/ ConsumeOtp(s) \/ ConsumeKey(s)
  BY <1>3 DEF Advance, RetireOtps, ConsumeOtp, ConsumeKey
<1>4. CASE ~SaveOtp(s) /\ ~SaveKey(s) /\ ~RetireOtps(s) /\ ~ConsumeOtp(s) /\ ~ConsumeKey(s)
  BY <1>4 DEF Advance, Step, FindOtp, FindKey, CompareNew, WritePassword, LoadForChange,
     SaveChanged, QueryFails, rows
<1> QED BY <1>1, <1>2, <1>3, <1>4

(* A request whose locals agree with the rows keeps agreeing with them     *)
(* through the steps of the others.                                        *)
LEMMA AdvanceKeepsLocals ==
  ASSUME ResetAssumption, Advance, NEW t \in Slots, req'[t] = req[t], LocalsOK(t)
  PROVE  LocalsOK(t)'
<1>1. \A o \in OtpIds : otp[o].user \in Users => o \notin UnusedOtps
  BY NoneIsNoId DEF UnusedOtps
<1>2. \A k \in KeyIds : key[k].user \in Users => k \notin UnusedKeys
  BY NoneIsNoId DEF UnusedKeys
<1> QED BY <1>1, <1>2 DEF Advance, LocalsOK

(* The locals of the request that takes the step agree with the rows too.  *)
LEMMA StepLocals ==
  ASSUME ResetAssumption, TypeOK, RowsOK, NEW s \in Slots, LocalsOK(s),
         Step(s) \/ QueryFails(s)
  PROVE  LocalsOK(s)'
<1>0. \A o \in active : o \in OtpIds /\ otp[o].user \in Users
  BY DEF TypeOK, RowsOK, UnusedOtps, OtpRow
<1>a. \A k \in fresh : k \in KeyIds /\ key[k].user \in Users
  BY DEF TypeOK, RowsOK, UnusedKeys, KeyRow
<1>b. req'[s] = Idle => LocalsOK(s)'
  BY IdleFields DEF LocalsOK
<1>1. CASE RetireOtps(s)
  BY <1>1, RetireOtpsEffect DEF Frame, LocalsOK
<1>2. CASE FindOtp(s)
  <2>1. UNCHANGED rows
    BY <1>2 DEF FindOtp
  <2> QED BY <1>0, <1>2, <2>1, FindOtpEffect DEF Frame, LocalsOK, rows
<1>3. CASE FindKey(s)
  <2>1. UNCHANGED rows
    BY <1>3 DEF FindKey
  <2> QED BY <1>a, <1>3, <2>1, FindKeyEffect DEF Frame, LocalsOK, rows
<1>4. CASE LoadForChange(s)
  BY <1>4, LoadForChangeEffect DEF Frame, LocalsOK
<1>5. CASE ConsumeOtp(s)
  <2>1. active' = active \ {req[s].otp} /\ UNCHANGED otp /\ req[s].pc = "consumeOtp"
    BY <1>5 DEF ConsumeOtp
  <2>2. PICK q \in Request : Frame(s, q) /\ (q = Idle \/ (q.pc \in {"saveKey"} /\ KeepsLocals(s, q)))
    BY <1>5, ProceedEffects DEF Proceeds
  <2>3. CASE q.pc = "saveKey" /\ KeepsLocals(s, q)
    BY <2>1, <2>2, <2>3 DEF Frame, KeepsLocals, LocalsOK
  <2> QED BY <1>b, <2>2, <2>3 DEF Frame
<1>6. CASE ConsumeKey(s)
  <2>1. fresh' = fresh \ {req[s].key} /\ UNCHANGED key /\ req[s].pc = "consumeKey"
    BY <1>6 DEF ConsumeKey
  <2>2. PICK q \in Request : Frame(s, q) /\ (q = Idle \/ (q.pc \in {"compareNew"} /\ KeepsLocals(s, q)))
    BY <1>6, ProceedEffects DEF Proceeds
  <2>3. CASE q.pc = "compareNew" /\ KeepsLocals(s, q)
    BY <2>1, <2>2, <2>3 DEF Frame, KeepsLocals, LocalsOK
  <2> QED BY <1>b, <2>2, <2>3 DEF Frame
<1>7. CASE CompareNew(s)
  <2>1. UNCHANGED rows /\ req[s].pc = "compareNew"
    BY <1>7 DEF CompareNew
  <2>2. PICK q \in Request : Frame(s, q) /\ (q = Idle \/ (q.pc \in {"writePassword"} /\ KeepsLocals(s, q)))
    BY <1>7, ProceedEffects DEF Proceeds
  <2>3. CASE q.pc = "writePassword" /\ KeepsLocals(s, q)
    BY <2>1, <2>2, <2>3 DEF Frame, KeepsLocals, LocalsOK, rows
  <2> QED BY <1>b, <2>2, <2>3 DEF Frame
<1>8. CASE SaveOtp(s) \/ SaveKey(s) \/ WritePassword(s) \/ SaveChanged(s) \/ QueryFails(s)
  BY <1>b, <1>8, ProceedEffects DEF Frame
<1> QED BY <1>1, <1>2, <1>3, <1>4, <1>5, <1>6, <1>7, <1>8 DEF Step

(* Which rows are active, fresh, saved, and what they have been good for. *)
LEMMA StepRows ==
  ASSUME ResetAssumption, TypeOK, RowsOK, NEW s \in Slots, LocalsOK(s),
         Step(s) \/ QueryFails(s)
  PROVE  RowsOK'
<1>0. now \in Nat /\ UNCHANGED now /\ \A o \in OtpIds : otp[o].at \in Nat
  BY DEF ResetAssumption, TypeOK, OtpRow, Step, RetireOtps, SaveOtp, FindOtp, ConsumeOtp,
     SaveKey, FindKey, ConsumeKey, CompareNew, WritePassword, LoadForChange, SaveChanged,
     QueryFails
<1>1. CASE SaveOtp(s)
  <2>1. PICK o \in UnusedOtps : /\ otp' = [otp EXCEPT ![o] = [user |-> req[s].user, at |-> now]]
                                /\ active' = active \cup {o}
    BY <1>1 DEF SaveOtp
  <2>2. o \in OtpIds /\ req[s].user # None
    BY <1>1, NoneIsNoId DEF UnusedOtps, SaveOtp, LocalsOK
  <2>3. otp'[o] = [user |-> req[s].user, at |-> now] /\ \A x \in OtpIds \ {o} : otp'[x] = otp[x]
    BY <2>1, <2>2 DEF TypeOK
  <2>4. UnusedOtps' = UnusedOtps \ {o}
    BY <2>2, <2>3 DEF UnusedOtps
  <2> QED BY <1>0, <1>1, <2>1, <2>3, <2>4 DEF RowsOK, SaveOtp, UnusedKeys, counts
<1>2. CASE SaveKey(s)
  <2>1. PICK k \in UnusedKeys : /\ key' = [key EXCEPT ![k] = NewKey(req[s].user, req[s].otp)]
                                /\ fresh' = fresh \cup {k}
    BY <1>2 DEF SaveKey
  <2>2. /\ k \in KeyIds /\ req[s].user \in Users /\ req[s].user # None
        /\ req[s].otp \in OtpIds \ (active \cup UnusedOtps)
    BY <1>2, <2>1, NoneIsNoId DEF UnusedKeys, UnusedOtps, SaveKey, LocalsOK
  <2>3. key'[k].user = req[s].user /\ \A x \in KeyIds \ {k} : key'[x] = key[x]
    BY <2>1, <2>2 DEF TypeOK, NewKey
  <2>4. UnusedKeys' = UnusedKeys \ {k}
    BY <2>2, <2>3 DEF UnusedKeys
  <2>5. \A o \in OtpIds \ {req[s].otp} : granted'[o] = granted[o]
    BY <1>2 DEF SaveKey, TypeOK
  <2> QED BY <1>0, <1>2, <2>1, <2>2, <2>4, <2>5 DEF RowsOK, SaveKey, UnusedOtps, TypeOK
<1>3. CASE WritePassword(s)
  <2>1. req[s].key \in KeyIds \ (fresh \cup UnusedKeys)
    BY <1>3, NoneIsNoId DEF UnusedKeys, WritePassword, LocalsOK
  <2>2. \A k \in KeyIds \ {req[s].key} : written'[k] = written[k]
    BY <1>3 DEF WritePassword, TypeOK
  <2> QED BY <1>0, <1>3, <2>1, <2>2 DEF RowsOK, WritePassword, UnusedOtps, UnusedKeys, TypeOK
<1>4. CASE RetireOtps(s) \/ ConsumeOtp(s) \/ ConsumeKey(s)
  BY <1>0, <1>4 DEF RowsOK, RetireOtps, ConsumeOtp, ConsumeKey, UnusedOtps, UnusedKeys, counts
<1>5. CASE FindOtp(s) \/ FindKey(s) \/ CompareNew(s) \/ LoadForChange(s) \/ SaveChanged(s)
           \/ QueryFails(s)
  BY <1>0, <1>5 DEF RowsOK, FindOtp, FindKey, CompareNew, LoadForChange, SaveChanged,
     QueryFails, UnusedOtps, UnusedKeys, counts, rows
<1> QED BY <1>1, <1>2, <1>3, <1>4, <1>5 DEF Step

(* A token is saved for the user of the OTP that was spent for it. *)
LEMMA StepChain ==
  ASSUME ResetAssumption, TypeOK, ResetChain, RowsOK, NEW s \in Slots, LocalsOK(s),
         Step(s) \/ QueryFails(s), \A t \in Slots : LocalsOK(t)'
  PROVE  ResetChain'
<1>1. ASSUME NEW t \in Slots, At(t, "writePassword")'
      PROVE  req'[t].key \in KeyIds \ fresh' /\ key'[req'[t].key].user = req'[t].user
  BY <1>1 DEF LocalsOK
<1>2. Advance
  BY StepAdvances
<1>3. ASSUME NEW k \in KeyIds \ UnusedKeys'
      PROVE  key'[k].otp \in OtpIds \ active' /\ otp'[key'[k].otp].user = key'[k].user
  <2>1. CASE k \notin UnusedKeys
    <3>1. key'[k] = key[k] /\ key[k].otp \in OtpIds \ active /\ otp[key[k].otp].user = key[k].user
      BY <1>2, <2>1 DEF Advance, ResetChain
    <3>2. key[k].otp \notin UnusedOtps
      BY <2>1, <3>1 DEF UnusedKeys, UnusedOtps
    <3> QED BY <1>2, <3>1, <3>2 DEF Advance
  <2>2. CASE k \in UnusedKeys
    <3>1. SaveKey(s)
      BY <1>3, <2>2 DEF UnusedKeys, Step, RetireOtps, SaveOtp, FindOtp, ConsumeOtp, FindKey,
         ConsumeKey, CompareNew, WritePassword, LoadForChange, SaveChanged, QueryFails, rows
    <3>2. PICK x \in UnusedKeys : key' = [key EXCEPT ![x] = NewKey(req[s].user, req[s].otp)]
      BY <3>1 DEF SaveKey
    <3>3. x = k
      BY <1>3, <2>2, <3>2 DEF TypeOK, UnusedKeys
    <3>4. key'[k] = NewKey(req[s].user, req[s].otp)
      BY <3>2, <3>3 DEF TypeOK, UnusedKeys
    <3>5. req[s].otp \in OtpIds \ active /\ otp[req[s].otp].user = req[s].user
      BY <3>1 DEF SaveKey, LocalsOK
    <3> QED BY <3>1, <3>4, <3>5 DEF SaveKey, NewKey
  <2> QED BY <2>1, <2>2
<1> QED BY <1>1, <1>3 DEF ResetChain

-----------------------------------------------------------------------------
(* Counting.                                                               *)

(* The slots that are counted are finitely many. *)
LEMMA SlotSets ==
  ASSUME ResetAssumption, NEW S \in SUBSET Slots
  PROVE  /\ IsFiniteSet(S) /\ Cardinality(S) \in Nat /\ Cardinality(Slots) \in Nat
         /\ Cardinality(S) <= Cardinality(Slots) /\ Cardinality(Slots) > 0
<1>1. IsFiniteSet(Slots) /\ Slots # {}
  BY DEF ResetAssumption
<1>2. IsFiniteSet(S) /\ Cardinality(S) <= Cardinality(Slots)
  BY <1>1, FS_Subset
<1>3. Cardinality(Slots) \in Nat /\ Cardinality(S) \in Nat /\ Cardinality(Slots) # 0
  BY <1>1, <1>2, FS_CardinalityType, FS_EmptySet
<1> QED BY <1>1, <1>2, <1>3

(* So are the OTPs. *)
LEMMA OtpSets ==
  ASSUME ResetAssumption, NEW S \in SUBSET OtpIds
  PROVE  IsFiniteSet(S) /\ Cardinality(S) \in Nat
<1>1. IsFiniteSet(S)
  BY FS_Subset DEF ResetAssumption
<1> QED BY <1>1, FS_CardinalityType

(* A request that is counted, and then is not. *)
LEMMA OneLess ==
  ASSUME ResetAssumption, NEW S \in SUBSET Slots, NEW s \in S
  PROVE  Cardinality(S \ {s}) = Cardinality(S) - 1
  BY SlotSets, FS_RemoveElement

(* Some of the counted requests are counted. *)
LEMMA NoMore ==
  ASSUME ResetAssumption, NEW S \in SUBSET Slots, NEW T \in SUBSET S
  PROVE  Cardinality(T) <= Cardinality(S)
  BY SlotSets, FS_Subset

(* Reset tokens granted for an OTP: a request that finds the OTP active    *)
(* finds it good for nothing yet, and a grant turns a request into a token.*)
LEMMA StepOtpUse ==
  ASSUME ResetAssumption, TypeOK, RowsOK, OtpUseBound, NEW s \in Slots, LocalsOK(s),
         Step(s) \/ QueryFails(s), NEW o \in OtpIds
  PROVE  granted'[o] + Cardinality(Redeeming(o)') <= Cardinality(Slots)
<1>1. Redeeming(o) \in SUBSET Slots /\ Redeeming(o)' \in SUBSET Slots
  BY DEF Redeeming
<1>2. granted[o] + Cardinality(Redeeming(o)) <= Cardinality(Slots) /\ granted[o] \in Nat
  BY DEF OtpUseBound, TypeOK
<1>3. ASSUME granted'[o] = granted[o], Redeeming(o)' \subseteq Redeeming(o)
      PROVE  granted'[o] + Cardinality(Redeeming(o)') <= Cardinality(Slots)
  BY <1>1, <1>2, <1>3, NoMore, SlotSets
<1>4. ASSUME granted'[o] = 0
      PROVE  granted'[o] + Cardinality(Redeeming(o)') <= Cardinality(Slots)
  BY <1>1, <1>4, SlotSets
<1>5. CASE SaveKey(s)
  <2>1. Frame(s, Idle)
    BY <1>5, ProceedEffects
  <2>2. CASE req[s].otp = o
    <3>1. s \in Redeeming(o) /\ Redeeming(o)' = Redeeming(o) \ {s}
      BY <1>5, <2>1, <2>2, IdleFields DEF Frame, Redeeming, SaveKey
    <3>2. granted'[o] = granted[o] + 1
      BY <1>5, <2>2 DEF SaveKey, TypeOK
    <3> QED BY <1>1, <1>2, <3>1, <3>2, OneLess, SlotSets
  <2>3. CASE req[s].otp # o
    <3>1. Redeeming(o)' \subseteq Redeeming(o)
      BY <2>1, IdleFields DEF Frame, Redeeming
    <3>2. granted'[o] = granted[o]
      BY <1>5, <2>3 DEF SaveKey, TypeOK
    <3> QED BY <1>3, <3>1, <3>2
  <2> QED BY <2>2, <2>3
<1>6. CASE FindOtp(s)
  <2>1. PICK x \in active, q \in Request : Frame(s, q) /\ q.pc = "consumeOtp" /\ q.otp = x
    BY <1>6, FindOtpEffect
  <2>2. UNCHANGED granted
    BY <1>6 DEF FindOtp, counts
  <2>3. CASE x = o
    BY <1>4, <2>1, <2>2, <2>3 DEF RowsOK
  <2>4. CASE x # o
    <3>1. Redeeming(o)' \subseteq Redeeming(o)
      BY <2>1, <2>4 DEF Frame, Redeeming
    <3> QED BY <1>3, <2>2, <3>1
  <2> QED BY <2>3, <2>4
<1>7. CASE ConsumeOtp(s)
  <2>1. UNCHANGED granted /\ req[s].pc = "consumeOtp"
    BY <1>7 DEF ConsumeOtp, counts
  <2>2. Redeeming(o)' \subseteq Redeeming(o)
    <3>1. PICK q \in Request : /\ Frame(s, q)
                               /\ q = Idle \/ KeepsLocals(s, q)
      BY <1>7, ProceedEffects DEF Proceeds
    <3> QED BY <2>1, <3>1, IdleFields DEF Frame, KeepsLocals, Redeeming
  <2> QED BY <1>3, <2>1, <2>2
<1>8. CASE ~SaveKey(s) /\ ~FindOtp(s) /\ ~ConsumeOtp(s)
  <2>1. UNCHANGED granted
    BY <1>8 DEF Step, RetireOtps, SaveOtp, FindKey, ConsumeKey, CompareNew,
       WritePassword, LoadForChange, SaveChanged, QueryFails, counts
  <2>2. \E q \in Request : Frame(s, q) /\ q.pc \notin {"consumeOtp", "saveKey"}
    BY <1>8, ProceedEffects, RetireOtpsEffect, FindKeyEffect, LoadForChangeEffect
       DEF Step, Proceeds
  <2>3. Redeeming(o)' \subseteq Redeeming(o)
    BY <2>2 DEF Frame, Redeeming
  <2> QED BY <1>3, <2>1, <2>3
<1> QED BY <1>5, <1>6, <1>7, <1>8

(* Passwords written with a reset token: the same argument.                *)
LEMMA StepKeyUse ==
  ASSUME ResetAssumption, TypeOK, RowsOK, KeyUseBound, NEW s \in Slots, LocalsOK(s),
         Step(s) \/ QueryFails(s), NEW k \in KeyIds
  PROVE  written'[k] + Cardinality(Resetting(k)') <= Cardinality(Slots)
<1>1. Resetting(k) \in SUBSET Slots /\ Resetting(k)' \in SUBSET Slots
  BY DEF Resetting
<1>2. written[k] + Cardinality(Resetting(k)) <= Cardinality(Slots) /\ written[k] \in Nat
  BY DEF KeyUseBound, TypeOK
<1>3. ASSUME written'[k] = written[k], Resetting(k)' \subseteq Resetting(k)
      PROVE  written'[k] + Cardinality(Resetting(k)') <= Cardinality(Slots)
  BY <1>1, <1>2, <1>3, NoMore, SlotSets
<1>4. ASSUME written'[k] = 0
      PROVE  written'[k] + Cardinality(Resetting(k)') <= Cardinality(Slots)
  BY <1>1, <1>4, SlotSets
<1>5. CASE WritePassword(s)
  <2>1. Frame(s, Idle)
    BY <1>5, ProceedEffects
  <2>2. CASE req[s].key = k
    <3>1. s \in Resetting(k) /\ Resetting(k)' = Resetting(k) \ {s}
      BY <1>5, <2>1, <2>2, IdleFields DEF Frame, Resetting, WritePassword
    <3>2. written'[k] = written[k] + 1
      BY <1>5, <2>2 DEF WritePassword, TypeOK
    <3> QED BY <1>1, <1>2, <3>1, <3>2, OneLess, SlotSets
  <2>3. CASE req[s].key # k
    <3>1. Resetting(k)' \subseteq Resetting(k)
      BY <2>1, IdleFields DEF Frame, Resetting
    <3>2. written'[k] = written[k]
      BY <1>5, <2>3 DEF WritePassword, TypeOK
    <3> QED BY <1>3, <3>1, <3>2
  <2> QED BY <2>2, <2>3
<1>6. CASE FindKey(s)
  <2>1. PICK x \in fresh, p \in Passwords, q \in Request :
           Frame(s, q) /\ q.pc = "consumeKey" /\ q.key = x
    BY <1>6, FindKeyEffect
  <2>2. UNCHANGED written
    BY <1>6 DEF FindKey, counts
  <2>3. CASE x = k
    BY <1>4, <2>1, <2>2, <2>3 DEF RowsOK
  <2>4. CASE x # k
    <3>1. Resetting(k)' \subseteq Resetting(k)
      BY <2>1, <2>4 DEF Frame, Resetting
    <3> QED BY <1>3, <2>2, <3>1
  <2> QED BY <2>3, <2>4
<1>7. CASE ConsumeKey(s) \/ CompareNew(s)
  <2>1. UNCHANGED written /\ req[s].pc \in {"consumeKey", "compareNew"}
    BY <1>7 DEF ConsumeKey, CompareNew, counts
  <2>2. Resetting(k)' \subseteq Resetting(k)
    <3>1. PICK q \in Request : /\ Frame(s, q)
                               /\ q = Idle \/ KeepsLocals(s, q)
      BY <1>7, ProceedEffects DEF Proceeds
    <3> QED BY <2>1, <3>1, IdleFields DEF Frame, KeepsLocals, Resetting
  <2> QED BY <1>3, <2>1, <2>2
<1>8. CASE ~WritePassword(s) /\ ~FindKey(s) /\ ~ConsumeKey(s) /\ ~CompareNew(s)
  <2>1. UNCHANGED written
    BY <1>8 DEF Step, RetireOtps, SaveOtp, FindOtp, ConsumeOtp, SaveKey, LoadForChange,
       SaveChanged, QueryFails, counts
  <2>2. \E q \in Request : Frame(s, q) /\ q.pc \notin {"consumeKey", "compareNew", "writePassword"}
    BY <1>8, ProceedEffects, RetireOtpsEffect, FindOtpEffect, LoadForChangeEffect
       DEF Step, Proceeds
  <2>3. Resetting(k)' \subseteq Resetting(k)
    BY <2>2 DEF Frame, Resetting
  <2> QED BY <1>3, <2>1, <2>3
<1> QED BY <1>5, <1>6, <1>7, <1>8

-----------------------------------------------------------------------------
(* The active OTPs of a user.                                              *)

Fits(u) == Cardinality(ActiveOf(u)) + Cardinality(Saving(u)) <= Cardinality(Slots)

NewestWorks(u) ==
    ActiveOf(u) = {} \/ Outnumbered(u) \/ \E o \in ActiveOf(u) : o \notin Outdated(u)

(* The sets that are counted. *)
LEMMA OtpCounts ==
  ASSUME ResetAssumption, NEW u
  PROVE  /\ ActiveOf(u) \subseteq active /\ Saving(u) \in SUBSET Slots
         /\ Saving(u)' \in SUBSET Slots
         /\ Outdated(u) \subseteq ActiveOf(u)
  BY DEF ActiveOf, Saving, Outdated

(* The OTPs are the same, and no further request is about to save one. *)
LEMMA SameOtps ==
  ASSUME ResetAssumption, TypeOK, TypeOK', NEW u, Fits(u), NewestWorks(u),
         ActiveOf(u)' = ActiveOf(u), Outdated(u)' \subseteq Outdated(u),
         Saving(u)' \subseteq Saving(u)
  PROVE  Fits(u)' /\ NewestWorks(u)'
<1>1. Cardinality(Saving(u)') <= Cardinality(Saving(u))
  BY OtpCounts, NoMore
<1>2. ActiveOf(u) \in SUBSET OtpIds
  BY DEF TypeOK, ActiveOf
<1>3. /\ Cardinality(Saving(u)) \in Nat /\ Cardinality(Saving(u)') \in Nat
      /\ Cardinality(Slots) \in Nat /\ Cardinality(ActiveOf(u)) \in Nat
  BY <1>2, OtpCounts, SlotSets, OtpSets
<1>4. Fits(u)' /\ (Outnumbered(u) => Outnumbered(u)')
  BY <1>1, <1>3 DEF Fits, Outnumbered
<1> QED BY <1>4 DEF NewestWorks

(* The last OTP saved is the newest, and its request was counted. *)
LEMMA SaveOtpFits ==
  ASSUME ResetAssumption, TypeOK, RowsOK, NEW s \in Slots, LocalsOK(s), SaveOtp(s),
         TypeOK', RowsOK', NEW u \in Users, Fits(u), NewestWorks(u)
  PROVE  Fits(u)' /\ NewestWorks(u)'
<1>1. PICK o \in UnusedOtps : /\ otp' = [otp EXCEPT ![o] = [user |-> req[s].user, at |-> now]]
                              /\ active' = active \cup {o}
  BY DEF SaveOtp
<1>2. /\ o \in OtpIds /\ otp[o].user = None /\ u # None
      /\ otp'[o].user = req[s].user /\ otp'[o].at = now
      /\ \A x \in OtpIds \ {o} : otp'[x] = otp[x]
  BY <1>1, NoneIsNoId DEF UnusedOtps, TypeOK
<1>3. active \subseteq OtpIds /\ o \notin active
  BY <1>1 DEF TypeOK, RowsOK
<1>4. Frame(s, Idle) /\ UNCHANGED now
  BY ProceedEffects DEF SaveOtp
<1>5. CASE req[s].user = u
  <2>1. ActiveOf(u)' = ActiveOf(u) \cup {o} /\ o \notin ActiveOf(u)
    BY <1>1, <1>2, <1>3, <1>5 DEF ActiveOf
  <2>2. s \in Saving(u) /\ Saving(u)' = Saving(u) \ {s}
    BY <1>4, <1>5, IdleFields DEF Frame, Saving, SaveOtp
  <2>3. ActiveOf(u) \in SUBSET OtpIds
    BY <1>3 DEF ActiveOf
  <2>4. Cardinality(ActiveOf(u)') = Cardinality(ActiveOf(u)) + 1
    BY <2>1, <2>3, OtpSets, FS_AddElement
  <2>5. Cardinality(Saving(u)') = Cardinality(Saving(u)) - 1
    BY <2>2, OtpCounts, OneLess
  <2>6. Fits(u)'
    BY <2>3, <2>4, <2>5, OtpCounts, OtpSets, SlotSets DEF Fits
  <2>7. \A p \in OtpIds : otp'[p].at \in Nat /\ otp'[p].at <= now
    BY <1>4 DEF RowsOK, TypeOK, OtpRow, ResetAssumption
  <2>8. o \notin Outdated(u)'
    BY <1>2, <2>7 DEF Outdated, TypeOK, ResetAssumption
  <2> QED BY <2>1, <2>6, <2>8 DEF NewestWorks
<1>6. CASE req[s].user # u
  <2>1. ActiveOf(u)' = ActiveOf(u)
    BY <1>1, <1>2, <1>3, <1>6 DEF ActiveOf
  <2>2. Outdated(u)' \subseteq Outdated(u)
    BY <1>2, <1>3, <1>6, <2>1 DEF Outdated, ActiveOf
  <2>3. Saving(u)' \subseteq Saving(u)
    BY <1>4, IdleFields DEF Frame, Saving
  <2> QED BY <2>1, <2>2, <2>3, SameOtps
<1> QED BY <1>5, <1>6

(* A request for a new OTP retires them all, in whatever number they come. *)
LEMMA RetireOtpsFits ==
  ASSUME ResetAssumption, TypeOK, NEW s \in Slots, RetireOtps(s), TypeOK',
         NEW u \in Users, Fits(u), NewestWorks(u)
  PROVE  Fits(u)' /\ NewestWorks(u)'
<1>1. PICK v \in Users, q \in Request :
         Frame(s, q) /\ q.pc = "saveOtp" /\ q.user = v /\ active' = active \ ActiveOf(v)
  BY RetireOtpsEffect
<1>2. UNCHANGED otp
  BY DEF RetireOtps
<1>3. CASE u = v
  <2>1. ActiveOf(u)' = {}
    BY <1>1, <1>2, <1>3 DEF ActiveOf
  <2>2. Cardinality(ActiveOf(u)') = 0
    BY <2>1, FS_EmptySet
  <2> QED BY <2>1, <2>2, OtpCounts, SlotSets DEF Fits, NewestWorks
<1>4. CASE u # v
  <2>1. ActiveOf(u)' = ActiveOf(u) /\ Outdated(u)' = Outdated(u)
    BY <1>1, <1>2, <1>4 DEF ActiveOf, Outdated
  <2>2. Saving(u)' \subseteq Saving(u)
    BY <1>1, <1>4 DEF Frame, Saving
  <2> QED BY <2>1, <2>2, SameOtps
<1> QED BY <1>3, <1>4

(* An OTP that is spent makes room for one more. *)
LEMMA ConsumeOtpFits ==
  ASSUME ResetAssumption, TypeOK, NEW s \in Slots, ConsumeOtp(s), TypeOK',
         NEW u \in Users, Fits(u), NewestWorks(u)
  PROVE  Fits(u)' /\ NewestWorks(u)'
<1> DEFINE x == req[s].otp
<1>1. active' = active \ {x} /\ UNCHANGED otp
  BY DEF ConsumeOtp
<1>2. Saving(u)' \subseteq Saving(u)
  <2>1. PICK q \in Request : Frame(s, q) /\ q.pc \in {"saveKey", "idle"}
    BY ProceedEffects DEF Proceeds
  <2> QED BY <2>1 DEF Frame, Saving
<1>3. CASE x \in ActiveOf(u)
  <2>1. ActiveOf(u)' = ActiveOf(u) \ {x}
    BY <1>1 DEF ActiveOf
  <2>2. ActiveOf(u) \in SUBSET OtpIds
    BY DEF TypeOK, ActiveOf
  <2>3. Cardinality(ActiveOf(u)') = Cardinality(ActiveOf(u)) - 1
    BY <1>3, <2>1, <2>2, OtpSets, FS_RemoveElement
  <2>4. Cardinality(Saving(u)') <= Cardinality(Saving(u))
    BY <1>2, OtpCounts, NoMore
  <2>5. /\ Cardinality(Saving(u)) \in Nat /\ Cardinality(Saving(u)') \in Nat
        /\ Cardinality(Slots) \in Nat /\ Cardinality(ActiveOf(u)) \in Nat
    BY <2>2, OtpCounts, SlotSets, OtpSets
  <2>6. Fits(u)' /\ Outnumbered(u)'
    BY <2>3, <2>4, <2>5 DEF Fits, Outnumbered
  <2> QED BY <2>6 DEF NewestWorks
<1>4. CASE x \notin ActiveOf(u)
  <2>1. ActiveOf(u)' = ActiveOf(u)
    BY <1>1, <1>4 DEF ActiveOf
  <2>2. Outdated(u)' = Outdated(u)
    BY <1>1, <2>1 DEF Outdated
  <2> QED BY <1>2, <2>1, <2>2, SameOtps
<1> QED BY <1>3, <1>4

(* The active OTPs of a user through every query. *)
LEMMA StepFits ==
  ASSUME ResetAssumption, TypeOK, RowsOK, NEW s \in Slots, LocalsOK(s),
         Step(s) \/ QueryFails(s), TypeOK', RowsOK', NEW u \in Users, Fits(u), NewestWorks(u)
  PROVE  Fits(u)' /\ NewestWorks(u)'
<1>1. CASE SaveOtp(s) \/ RetireOtps(s) \/ ConsumeOtp(s)
  BY <1>1, SaveOtpFits, RetireOtpsFits, ConsumeOtpFits
<1>2. CASE ~SaveOtp(s) /\ ~RetireOtps(s) /\ ~ConsumeOtp(s)
  <2>1. UNCHANGED <<otp, active>>
    BY <1>2 DEF Step, FindOtp, SaveKey, FindKey, ConsumeKey, CompareNew, WritePassword,
       LoadForChange, SaveChanged, QueryFails, rows
  <2>2. ActiveOf(u)' = ActiveOf(u) /\ Outdated(u)' = Outdated(u)
    BY <2>1 DEF ActiveOf, Outdated
  <2>3. \E q \in Request : Frame(s, q) /\ q.pc # "saveOtp"
    BY <1>2, ProceedEffects, FindOtpEffect, FindKeyEffect, LoadForChangeEffect
       DEF Step, Proceeds
  <2>4. Saving(u)' \subseteq Saving(u)
    BY <2>3 DEF Frame, Saving
  <2> QED BY <2>2, <2>4, SameOtps
<1> QED BY <1>1, <1>2

-----------------------------------------------------------------------------
(* The invariant is inductive.                                             *)

(* It holds before the first request. *)
LEMMA InitInv == ASSUME ResetAssumption, Init PROVE ResetInv
<1>1. TypeOK
  BY InitType
<1>2. UnusedOtps = OtpIds /\ UnusedKeys = KeyIds /\ active = {} /\ fresh = {}
  BY DEF Init, UnusedOtps, UnusedKeys, NoOtp, NoKey
<1>3. RowsOK
  BY <1>2 DEF Init, RowsOK, NoOtp
<1>4. \A s \in Slots : req[s] = Idle /\ LocalsOK(s)
  BY IdleFields DEF Init, LocalsOK
<1>5. ResetChain
  BY <1>2, <1>4, IdleFields DEF ResetChain
<1>6. Cardinality({}) = 0 /\ Cardinality(Slots) \in Nat
  BY FS_EmptySet, SlotSets
<1>7. OtpUseBound
  <2>1. \A o \in OtpIds : Redeeming(o) = {} /\ granted[o] = 0
    BY <1>4, IdleFields DEF Redeeming, Init
  <2> QED BY <1>6, <2>1 DEF OtpUseBound
<1>8. KeyUseBound
  <2>1. \A k \in KeyIds : Resetting(k) = {} /\ written[k] = 0
    BY <1>4, IdleFields DEF Resetting, Init
  <2> QED BY <1>6, <2>1 DEF KeyUseBound
<1>9. \A u \in Users : Fits(u) /\ NewestWorks(u)
  <2>1. \A u \in Users : ActiveOf(u) = {} /\ Saving(u) = {}
    BY <1>2, <1>4, IdleFields DEF ActiveOf, Saving
  <2> QED BY <1>6, <2>1 DEF Fits, NewestWorks
<1> QED BY <1>1, <1>3, <1>4, <1>5, <1>7, <1>8, <1>9 DEF ResetInv, Fits, NewestWorks

(* Every query of every request keeps it. *)
LEMMA StepInv ==
  ASSUME ResetAssumption, ResetInv, NEW s \in Slots, Step(s) \/ QueryFails(s)
  PROVE  ResetInv'
<1>1. /\ TypeOK /\ RowsOK /\ ResetChain /\ OtpUseBound /\ KeyUseBound
      /\ \A t \in Slots : LocalsOK(t)
      /\ \A u \in Users : Fits(u) /\ NewestWorks(u)
  BY DEF ResetInv, Fits, NewestWorks
<1>2. TypeOK' /\ RowsOK'
  BY <1>1, StepType, StepRows
<1>3. ASSUME NEW t \in Slots PROVE LocalsOK(t)'
  <2>1. CASE t = s
    BY <1>1, <2>1, StepLocals
  <2>2. CASE t # s
    <3>1. req'[t] = req[t]
      BY <1>1, <2>2, ProceedEffects, RetireOtpsEffect, FindOtpEffect, FindKeyEffect,
         LoadForChangeEffect DEF Step, Proceeds, Frame
    <3> QED BY <1>1, <3>1, StepAdvances, AdvanceKeepsLocals
  <2> QED BY <2>1, <2>2
<1>4. ResetChain'
  BY <1>1, <1>3, StepChain
<1>5. OtpUseBound' /\ KeyUseBound'
  BY <1>1, StepOtpUse, StepKeyUse DEF OtpUseBound, KeyUseBound
<1>6. \A u \in Users : Fits(u)' /\ NewestWorks(u)'
  BY <1>1, <1>2, StepFits
<1> QED BY <1>2, <1>3, <1>4, <1>5, <1>6 DEF ResetInv, Fits, NewestWorks

(* So does the clock. *)
LEMMA TickInv == ASSUME ResetAssumption, ResetInv, Tick PROVE ResetInv'
<1>1. /\ UNCHANGED <<password, otp, active, key, fresh, granted, written, req, faults>>
      /\ now' \in Instants /\ now' > now
  BY DEF Tick, rows, counts
<1>2. TypeOK'
  BY <1>1 DEF ResetInv, TypeOK
<1>3. RowsOK'
  <2>1. \A o \in OtpIds : otp[o].at \in Nat /\ otp[o].at <= now
    BY DEF ResetInv, RowsOK, TypeOK, OtpRow, ResetAssumption
  <2>2. now \in Nat /\ now' \in Nat
    BY <1>1 DEF ResetInv, TypeOK, ResetAssumption
  <2> QED BY <1>1, <2>1, <2>2 DEF ResetInv, RowsOK, UnusedOtps, UnusedKeys
<1> QED BY <1>1, <1>2, <1>3 DEF ResetInv, ResetChain, OtpUseBound, KeyUseBound, LocalsOK,
     ActiveOf, Saving, Outnumbered, Outdated, Redeeming, Resetting, UnusedKeys

(* And a step that changes nothing. *)
LEMMA NextInv == ASSUME ResetAssumption, ResetInv, [Next]_vars PROVE ResetInv'
<1>1. CASE UNCHANGED vars
  BY <1>1 DEF vars, rows, counts, ResetInv, TypeOK, RowsOK, ResetChain, OtpUseBound,
     KeyUseBound, LocalsOK, ActiveOf, Saving, Outnumbered, Outdated, Redeeming, Resetting,
     UnusedKeys, UnusedOtps
<1> QED BY <1>1, StepInv, TickInv DEF Next

(* The invariant holds in every state, whatever the requests in flight and *)
(* the queries that fail.                                                  *)
THEOREM ResetInvariant == Spec => []ResetInv
<1>1. Init => ResetInv
  BY InitInv, ResetAssumption
<1>2. ResetInv /\ [Next]_vars => ResetInv'
  BY NextInv, ResetAssumption
<1> QED BY <1>1, <1>2, PTL DEF Spec

(* Rows, locals and counters keep their types. *)
THEOREM TypeCorrect == Spec => []TypeOK
<1>1. ResetInv => TypeOK
  BY DEF ResetInv
<1> QED BY <1>1, ResetInvariant, PTL

(* createOTP: no more OTPs of a user work than requests ran at once. *)
THEOREM ActiveOtpsAreBounded == Spec => []ActiveOtpBound
<1>1. ResetInv => ActiveOtpBound
  <2> SUFFICES ASSUME ResetInv, NEW u \in Users
               PROVE  Cardinality(ActiveOf(u)) <= Cardinality(Slots)
    BY DEF ActiveOtpBound
  <2>1. ActiveOf(u) \in SUBSET OtpIds
    BY DEF ResetInv, TypeOK, ActiveOf
  <2>2. /\ Cardinality(ActiveOf(u)) \in Nat /\ Cardinality(Saving(u)) \in Nat
        /\ Cardinality(Slots) \in Nat
    BY <2>1, ResetAssumption, OtpSets, OtpCounts, SlotSets
  <2> QED BY <2>2 DEF ResetInv
<1> QED BY <1>1, ResetInvariant, PTL

(* verifyResetPassword: an OTP that has been replaced works only where     *)
(* another request ran beside the one that replaced it.                    *)
THEOREM OutdatedOtpsAreFewer == Spec => []OnlyNewestOtpWorks
<1>1. ResetInv => OnlyNewestOtpWorks
  <2> SUFFICES ASSUME ResetInv, NEW u \in Users
               PROVE  Cardinality(Outdated(u)) < Cardinality(Slots)
    BY DEF OnlyNewestOtpWorks
  <2>1. ActiveOf(u) \in SUBSET OtpIds /\ Outdated(u) \subseteq ActiveOf(u)
    BY DEF ResetInv, TypeOK, ActiveOf, Outdated
  <2>2. /\ IsFiniteSet(ActiveOf(u)) /\ Cardinality(ActiveOf(u)) \in Nat
        /\ IsFiniteSet(Outdated(u)) /\ Cardinality(Outdated(u)) \in Nat
    BY <2>1, ResetAssumption, OtpSets
  <2>3. Cardinality(Saving(u)) \in Nat /\ Cardinality(Slots) \in Nat /\ Cardinality(Slots) > 0
    BY ResetAssumption, OtpCounts, SlotSets
  <2>4. Cardinality(Outdated(u)) <= Cardinality(ActiveOf(u))
    BY <2>1, <2>2, FS_Subset
  <2>5. Cardinality(ActiveOf(u)) + Cardinality(Saving(u)) <= Cardinality(Slots)
    BY DEF ResetInv
  <2>6. CASE ActiveOf(u) = {}
    <3>1. Cardinality(Outdated(u)) = 0
      BY <2>1, <2>6, FS_EmptySet
    <3> QED BY <2>3, <3>1
  <2>7. CASE Outnumbered(u)
    BY <2>2, <2>3, <2>4, <2>7 DEF Outnumbered
  <2>8. CASE \E o \in ActiveOf(u) : o \notin Outdated(u)
    <3>1. Outdated(u) # ActiveOf(u)
      BY <2>8
    <3>2. Cardinality(Outdated(u)) < Cardinality(ActiveOf(u))
      BY <2>1, <2>2, <3>1, FS_Subset
    <3> QED BY <2>2, <2>3, <2>5, <3>2
  <2> QED BY <2>6, <2>7, <2>8 DEF ResetInv
<1> QED BY <1>1, ResetInvariant, PTL

(* An OTP yields one reset token, or one per request that held it at once. *)
THEOREM OtpsAreSpent == Spec => []OtpUseBound
<1>1. ResetInv => OtpUseBound
  BY DEF ResetInv
<1> QED BY <1>1, ResetInvariant, PTL

(* A reset token writes one password, or one per request that held it.     *)
THEOREM KeysAreSpent == Spec => []KeyUseBound
<1>1. ResetInv => KeyUseBound
  BY DEF ResetInv
<1> QED BY <1>1, ResetInvariant, PTL

(* A password is reset with a token bought with an OTP of the same user.   *)
THEOREM ChainHolds == Spec => []ResetChain
<1>1. ResetInv => ResetChain
  BY DEF ResetInv
<1> QED BY <1>1, ResetInvariant, PTL
=============================================================================
