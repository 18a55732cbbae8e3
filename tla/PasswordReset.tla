---------------------------- MODULE PasswordReset ----------------------------
(***************************************************************************)
(* Forgotten and changed passwords: the one-time passwords of users.otps,  *)
(* the reset tokens and the password column, and the handlers that write   *)
(* them (users.service.ts, otp.service.ts, reset-password.service.ts).     *)
(*                                                                         *)
(* A handler's lookups before its first write are one step with the        *)
(* request's arrival; every later query is a step of its own.  A request   *)
(* refused at its lookup changes nothing and is left out.  Time is in      *)
(* minutes.                                                                *)
(***************************************************************************)
EXTENDS Naturals, FiniteSets

CONSTANTS
    Users, Passwords,
    OtpIds,    \* ids that rows of users.otps can have
    KeyIds,    \* tokenKeys that reset-password rows can have
    Slots,     \* requests that can be in flight at once
    Validity,  \* minutes passed to createOTP, and told to the user
    Instants,  \* bound: the minutes at which something happens
    MaxFaults, \* bound: failing queries in a behaviour
    None       \* null value

ASSUME ResetAssumption ==
    /\ IsFiniteSet(Slots) /\ Slots # {} /\ IsFiniteSet(OtpIds)
    /\ Validity \in Nat /\ MaxFaults \in Nat
    /\ Instants \subseteq Nat /\ 0 \in Instants
    /\ None \notin Users \cup OtpIds \cup KeyIds \cup Passwords

VARIABLES
    password,  \* users.users: the password column
    otp,       \* the columns of an OTP row that never change
    active,    \* ids of the OTP rows whose status is ACTIVE
    key,       \* the columns of a reset-token row that never change
    fresh,     \* tokenKeys of the rows whose status is not INACTIVE
    now,       \* the clock
    granted,   \* granted[o]: reset tokens handed out for OTP o
    written,   \* written[k]: passwords written with reset token k
    req,       \* the request in each slot
    faults     \* queries that have failed

rows == <<password, otp, active, key, fresh>>
counts == <<granted, written>>
vars == <<rows, now, counts, req, faults>>

NoOtp == [user |-> None, at |-> 0]
NoKey == [user |-> None, otp |-> None, at |-> 0]

OtpRow == [user : Users \cup {None}, at : Instants]
KeyRow == [user : Users \cup {None}, otp : OtpIds \cup {None}, at : Instants]

(* The query a request runs next. *)
Labels == {"idle", "saveOtp", "consumeOtp", "saveKey", "consumeKey", "compareNew",
           "writePassword", "saveChanged"}

Request == [pc : Labels, user : Users \cup {None}, otp : OtpIds \cup {None},
            key : KeyIds \cup {None}, pw : Passwords \cup {None}]

Call(label, u, o, k, p) == [pc |-> label, user |-> u, otp |-> o, key |-> k, pw |-> p]

Idle == Call("idle", None, None, None, None)

UnusedOtps == {o \in OtpIds : otp[o].user = None}
UnusedKeys == {k \in KeyIds : key[k].user = None}

ActiveOf(u) == {o \in active : otp[o].user = u}

At(s, label) == req[s].pc = label

Become(s, q) == req' = [req EXCEPT ![s] = q]

Goto(s, label) ==
    Become(s, Call(label, req[s].user, req[s].otp, req[s].key, req[s].pw))

Answer(s) == Become(s, Idle)

Init ==
    /\ password \in [Users -> Passwords]
    /\ otp = [o \in OtpIds |-> NoOtp]
    /\ active = {}
    /\ key = [k \in KeyIds |-> NoKey]
    /\ fresh = {}
    /\ now = 0
    /\ granted = [o \in OtpIds |-> 0]
    /\ written = [k \in KeyIds |-> 0]
    /\ req = [s \in Slots |-> Idle]
    /\ faults = 0

-----------------------------------------------------------------------------
(* requestResetPassword: createOTP retires the user's active OTPs, then    *)
(* saves a new one; a mail follows, whose failure leaves the row.          *)

(* Mutant: the previous OTPs are left active. *)
KeepOtps(s) ==
    /\ At(s, "idle")
    /\ \E u \in Users : Become(s, Call("saveOtp", u, None, None, None))
    /\ UNCHANGED <<rows, now, counts, faults>>

RetireOtps(s) ==
    /\ At(s, "idle")
    /\ \E u \in Users :
          /\ active' = active \ ActiveOf(u)
          /\ Become(s, Call("saveOtp", u, None, None, None))
    /\ UNCHANGED <<password, otp, key, fresh, now, counts, faults>>

SaveOtp(s) ==
    /\ At(s, "saveOtp")
    /\ \E o \in UnusedOtps :
          /\ otp' = [otp EXCEPT ![o] = [user |-> req[s].user, at |-> now]]
          /\ active' = active \cup {o}
    /\ Answer(s)
    /\ UNCHANGED <<password, key, fresh, now, counts, faults>>

-----------------------------------------------------------------------------
(* verifyResetPassword: findOTP by user, code and ACTIVE; the row is set   *)
(* inactive before its age is looked at; a valid one is worth a token.     *)

FindOtp(s) ==
    /\ At(s, "idle")
    /\ \E o \in active : Become(s, Call("consumeOtp", otp[o].user, o, None, None))
    /\ UNCHANGED <<rows, now, counts, faults>>

(* isValid multiplies the minutes by 60, by 1000 and by 30. *)
IsValid(o) == now < otp[o].at + Validity * 30

(* Mutant: the row stays active when the code is accepted. *)
AcceptOtp(s) ==
    /\ At(s, "consumeOtp")
    /\ IF IsValid(req[s].otp) THEN Goto(s, "saveKey") ELSE Answer(s)
    /\ UNCHANGED <<rows, now, counts, faults>>

ConsumeOtp(s) ==
    /\ At(s, "consumeOtp")
    /\ active' = active \ {req[s].otp}
    /\ IF IsValid(req[s].otp) THEN Goto(s, "saveKey") ELSE Answer(s)
    /\ UNCHANGED <<password, otp, key, fresh, now, counts, faults>>

(* Mutant: the two ids are passed in the wrong order. *)
SwappedKey(u, o) == [user |-> o, otp |-> u, at |-> now]

NewKey(u, o) == [user |-> u, otp |-> o, at |-> now]

(* createAndSaveResetPasswordToken; granted is a history variable, and so  *)
(* is the column that tells which OTP bought a token.                      *)
SaveKey(s) ==
    /\ At(s, "saveKey")
    /\ \E k \in UnusedKeys :
          /\ key' = [key EXCEPT ![k] = NewKey(req[s].user, req[s].otp)]
          /\ fresh' = fresh \cup {k}
    /\ granted' = [granted EXCEPT ![req[s].otp] = @ + 1]
    /\ Answer(s)
    /\ UNCHANGED <<password, otp, active, now, written, faults>>

-----------------------------------------------------------------------------
(* resetPassword: findUserId verifies the JWT (five minutes), finds the    *)
(* row and sets it inactive; only then is the user loaded and the new      *)
(* password compared with the old one.                                     *)

FindKey(s) ==
    /\ At(s, "idle")
    /\ \E k \in fresh, p \in Passwords :
          /\ now < key[k].at + 5
          /\ Become(s, Call("consumeKey", key[k].user, None, k, p))
    /\ UNCHANGED <<rows, now, counts, faults>>

(* Mutant: findUserId returns the user and leaves the row as it was. *)
AcceptKey(s) ==
    /\ At(s, "consumeKey")
    /\ Goto(s, "compareNew")
    /\ UNCHANGED <<rows, now, counts, faults>>

ConsumeKey(s) ==
    /\ At(s, "consumeKey")
    /\ fresh' = fresh \ {req[s].key}
    /\ Goto(s, "compareNew")
    /\ UNCHANGED <<password, otp, active, key, now, counts, faults>>

CompareNew(s) ==
    /\ At(s, "compareNew")
    /\ IF password[req[s].user] = req[s].pw THEN Answer(s) ELSE Goto(s, "writePassword")
    /\ UNCHANGED <<rows, now, counts, faults>>

WritePassword(s) ==
    /\ At(s, "writePassword")
    /\ password' = [password EXCEPT ![req[s].user] = req[s].pw]
    /\ written' = [written EXCEPT ![req[s].key] = @ + 1]
    /\ Answer(s)
    /\ UNCHANGED <<otp, active, key, fresh, now, granted, faults>>

-----------------------------------------------------------------------------
(* changePassword: load, compare the current password, save the entity.    *)

LoadForChange(s) ==
    /\ At(s, "idle")
    /\ \E u \in Users, p \in Passwords : Become(s, Call("saveChanged", u, None, None, p))
    /\ UNCHANGED <<rows, now, counts, faults>>

SaveChanged(s) ==
    /\ At(s, "saveChanged")
    /\ password' = [password EXCEPT ![req[s].user] = req[s].pw]
    /\ Answer(s)
    /\ UNCHANGED <<otp, active, key, fresh, now, counts, faults>>

-----------------------------------------------------------------------------
(* The environment.                                                        *)

(* A query fails, or a table takes no more rows: the handler answers an    *)
(* error and nothing it wrote is undone.                                   *)
QueryFails(s) ==
    /\ ~At(s, "idle")
    /\ \/ faults < MaxFaults /\ faults' = faults + 1
       \/ At(s, "saveOtp") /\ UnusedOtps = {} /\ UNCHANGED faults
       \/ At(s, "saveKey") /\ UnusedKeys = {} /\ UNCHANGED faults
    /\ Answer(s)
    /\ UNCHANGED <<rows, now, counts>>

Tick ==
    /\ \E t \in Instants : t > now /\ now' = t
    /\ UNCHANGED <<rows, counts, req, faults>>

Step(s) ==
    \/ RetireOtps(s) \/ SaveOtp(s) \/ FindOtp(s) \/ ConsumeOtp(s) \/ SaveKey(s)
    \/ FindKey(s) \/ ConsumeKey(s) \/ CompareNew(s) \/ WritePassword(s)
    \/ LoadForChange(s) \/ SaveChanged(s)

Next == (\E s \in Slots : Step(s) \/ QueryFails(s)) \/ Tick

Spec == Init /\ [][Next]_vars

-----------------------------------------------------------------------------
TypeOK ==
    /\ password \in [Users -> Passwords]
    /\ otp \in [OtpIds -> OtpRow] /\ active \subseteq OtpIds
    /\ key \in [KeyIds -> KeyRow] /\ fresh \subseteq KeyIds
    /\ now \in Instants
    /\ granted \in [OtpIds -> Nat] /\ written \in [KeyIds -> Nat]
    /\ req \in [Slots -> Request]
    /\ faults \in 0 .. MaxFaults

(* createOTP keeps one OTP active per user when requests come one at a     *)
(* time; a burst of requests leaves at most as many as ran at once.        *)
ActiveOtpBound == \A u \in Users : Cardinality(ActiveOf(u)) <= Cardinality(Slots)

Redeeming(o) == {s \in Slots : req[s].pc \in {"consumeOtp", "saveKey"} /\ req[s].otp = o}

(* An OTP is one-time: what two requests got for it they got while both    *)
(* were in flight.  One at a time, it yields one reset token.              *)
OtpUseBound ==
    \A o \in OtpIds : granted[o] + Cardinality(Redeeming(o)) <= Cardinality(Slots)

Resetting(k) == {s \in Slots : req[s].pc \in {"consumeKey", "compareNew", "writePassword"}
                                 /\ req[s].key = k}

(* So is a reset token: it writes one password, or one per request that    *)
(* presented it before any of them had set it inactive.                    *)
KeyUseBound ==
    \A k \in KeyIds : written[k] + Cardinality(Resetting(k)) <= Cardinality(Slots)

(* Every reset token was bought with an OTP of the same user, which is     *)
(* spent, and every password a reset writes is that user's.                *)
ResetChain ==
    /\ \A k \in KeyIds \ UnusedKeys :
          /\ key[k].otp \in OtpIds \ active
          /\ otp[key[k].otp].user = key[k].user
    /\ \A s \in Slots : At(s, "writePassword") =>
          /\ req[s].key \in KeyIds \ fresh
          /\ key[req[s].key].user = req[s].user

Outdated(u) ==
    {o \in ActiveOf(u) : \E p \in OtpIds : otp[p].user = u /\ otp[p].at > otp[o].at}

(* One request at a time, the OTP that works is the last one mailed, also  *)
(* when saving it failed after the old ones were retired.  An older one    *)
(* works only where another request ran beside the one that replaced it.   *)
OnlyNewestOtpWorks == \A u \in Users : Cardinality(Outdated(u)) < Cardinality(Slots)

-----------------------------------------------------------------------------
(* Requests of u that have retired the active OTPs and bring a new one. *)
Saving(u) == {s \in Slots : At(s, "saveOtp") /\ req[s].user = u}

Outnumbered(u) ==
    Cardinality(ActiveOf(u)) + Cardinality(Saving(u)) < Cardinality(Slots)

(* What a request's locals say of the rows, at each of its queries. *)
LocalsOK(s) ==
    LET q == req[s]
        OfUser == q.user \in Users
        HasOtp == q.otp \in OtpIds /\ otp[q.otp].user = q.user
        HasKey == q.key \in KeyIds /\ key[q.key].user = q.user /\ q.pw \in Passwords
    IN  /\ q.pc # "idle" => OfUser
        /\ q.pc \in {"consumeOtp", "saveKey"} => HasOtp
        /\ q.pc = "saveKey" => q.otp \notin active
        /\ q.pc \in {"consumeKey", "compareNew", "writePassword"} => HasKey
        /\ q.pc \in {"compareNew", "writePassword"} => q.key \notin fresh
        /\ q.pc = "saveChanged" => q.pw \in Passwords

(* Rows are saved before they are active, and spent before they are good   *)
(* for anything; none is from the future.                                  *)
RowsOK ==
    /\ active \cap UnusedOtps = {} /\ fresh \cap UnusedKeys = {}
    /\ \A o \in OtpIds : otp[o].at <= now
    /\ \A o \in active \cup UnusedOtps : granted[o] = 0
    /\ \A k \in fresh \cup UnusedKeys : written[k] = 0

(* The inductive invariant: locals agree with the rows they were read      *)
(* from; a request about to save an OTP counts as its row; while an older  *)
(* OTP works, the newest one does or there is room for it.                 *)
ResetInv ==
    /\ TypeOK /\ RowsOK /\ ResetChain /\ OtpUseBound /\ KeyUseBound
    /\ \A s \in Slots : LocalsOK(s)
    /\ \A u \in Users :
          /\ Cardinality(ActiveOf(u)) + Cardinality(Saving(u)) <= Cardinality(Slots)
          /\ ActiveOf(u) = {} \/ Outnumbered(u) \/ \E o \in ActiveOf(u) : o \notin Outdated(u)

(* The mail of requestResetPassword says the OTP will expire in Validity   *)
(* minutes: a code older than that buys no token.                          *)
OtpExpiresAsMailed ==
    [][\A s \in Slots : At(s, "consumeOtp") /\ At(s, "saveKey")' =>
          now < otp[req[s].otp].at + Validity]_vars
=============================================================================
