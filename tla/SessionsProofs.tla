--------------------------- MODULE SessionsProofs ---------------------------
(***************************************************************************)
(* Proofs about Sessions for any users, devices, sessions, requests and     *)
(* times: type correctness, AccessEnds, PasswordEndsSessions and            *)
(* FirstUseAlerted.                                                         *)
(***************************************************************************)
EXTENDS Sessions, TLAPS

USE DEF At, Await, Return

-----------------------------------------------------------------------------
(* Types *)

SigningCalls ==
    [pc : {"sign"}, session : Sessions, age : 0..RequestTime,
     warn : SUBSET (Users \X Devices)]
RotateCalls ==
    [pc : {"rotate"}, session : Sessions, device : Fingerprints,
     age : 0..RequestTime]

\* What a request has in hand, by the await it is at.
LEMMA CallsByAwait ==
    ASSUME NEW call \in Calls
    PROVE  /\ call.pc \in {"newUser", "change", "device", "open"} =>
                call.user \in Users /\ call.device \in Fingerprints
           /\ call.pc \in {"device", "open"} => call.password \in Passwords
           /\ call.pc \in {"device", "open"} => call.verified \in BOOLEAN
           /\ call.pc = "open" => call.first \in BOOLEAN
           /\ call.pc \in {"rotate", "sign"} =>
                call.session \in Sessions /\ call.age \in 0..RequestTime
           /\ call.pc = "rotate" =>
                call.device \in Fingerprints /\ call \in RotateCalls
           /\ call.pc = "sign" => call \in SigningCalls
           /\ call.pc \in {"sign", "warn"} => call.warn \subseteq Users \X Devices
           /\ call.pc = "logout" => call.session \in Sessions
           /\ call.pc = "revokeAll" => call.user \in Users
<1>1. CASE call \in {Idle} \cup [pc : {"warn"}, warn : SUBSET (Users \X Devices)]
  BY <1>1 DEF Idle
<1>2. CASE call \in RotateCalls \cup SigningCalls \cup [pc : {"logout"}, session : Sessions]
  BY <1>2 DEF RotateCalls, SigningCalls
<1>3. CASE call \in [pc : {"newUser", "change"}, user : Users, device : Fingerprints]
  BY <1>3
<1>4. CASE call \in [pc : {"device"}, user : Users, device : Fingerprints,
                     password : Passwords, verified : BOOLEAN]
  BY <1>4
<1>5. CASE call \in [pc : {"open"}, user : Users, device : Fingerprints,
                     password : Passwords, verified : BOOLEAN, first : BOOLEAN]
  BY <1>5
<1>6. CASE call \in [pc : {"revokeAll"}, user : Users]
  BY <1>6
<1>7. QED
  BY <1>1, <1>2, <1>3, <1>4, <1>5, <1>6 DEF Calls, RotateCalls, SigningCalls

\* The calls a step leaves a request with.
LEMMA CallTypes ==
    /\ Idle \in Calls
    /\ \A u \in Users, d \in Fingerprints :
        /\ \A pc \in {"newUser", "change"} :
            [pc |-> pc, user |-> u, device |-> d] \in Calls
        /\ \A p \in Passwords, v \in BOOLEAN :
            /\ [pc |-> "device", user |-> u, device |-> d, password |-> p,
                verified |-> v] \in Calls
            /\ \A f \in BOOLEAN :
                [pc |-> "open", user |-> u, device |-> d, password |-> p,
                 verified |-> v, first |-> f] \in Calls
    /\ \A s \in Sessions, n \in 0..RequestTime :
        /\ \A d \in Fingerprints :
            [pc |-> "rotate", session |-> s, age |-> n, device |-> d] \in Calls
        /\ \A w \in SUBSET (Users \X Devices) :
            [pc |-> "sign", session |-> s, age |-> n, warn |-> w] \in Calls
    /\ \A w \in SUBSET (Users \X Devices) : [pc |-> "warn", warn |-> w] \in Calls
    /\ \A s \in Sessions : [pc |-> "logout", session |-> s] \in Calls
    /\ \A u \in Users : [pc |-> "revokeAll", user |-> u] \in Calls
    /\ RotateCalls \subseteq Calls
    /\ SigningCalls \subseteq Calls
BY DEF Calls, RotateCalls, SigningCalls

LEMMA TimeTypes ==
    /\ AccessTtl \in Nat \ {0} /\ RequestTime \in Nat
    /\ Horizon \in Nat \ {0} /\ Horizon = AccessTtl + RequestTime
    /\ Never = -1
    /\ MaxPasswords \in Nat
BY TimesAssumption, PasswordsAssumption DEF Horizon, Never

LEMMA DeviceOfType ==
    ASSUME NEW u \in Users, NEW d \in Fingerprints
    PROVE  DeviceOf(u, d) \subseteq Users \X Devices
BY DEF DeviceOf, Fingerprints

LEMMA CarriedType ==
    ASSUME TypeOK, NEW h \in Handlers
    PROVE  Carried(h) \subseteq Users \X Devices
BY CallsByAwait DEF TypeOK, Carried

LEMMA RevokeTypes ==
    ASSUME TypeOK, NEW ss \in SUBSET Sessions, Revoke(ss)
    PROVE  revoked' \subseteq Sessions /\ endedFor' \in [Sessions -> Never..Horizon]
BY TimeTypes DEF TypeOK, Revoke

\* Every step keeps the types.
LEMMA RequestTypes ==
    ASSUME TypeOK, NEW h \in Handlers, HandlerStep(h)
    PROVE  TypeOK'
<1> DEFINE call == handler[h]
<1>1. call \in Calls /\ call = handler[h]
  BY DEF TypeOK
<1> HIDE DEF call
<1>2. CASE \E u \in Users, d \in Fingerprints :
            Register(h, u, d) \/ ChangePassword(h, u, d) \/ Login(h, u, d)
  <2>1. PICK u \in Users, d \in Fingerprints :
            Register(h, u, d) \/ ChangePassword(h, u, d) \/ Login(h, u, d)
    BY <1>2
  <2>2. password[u] \in Passwords /\ (u \in phoneVerified) \in BOOLEAN
    BY DEF TypeOK
  <2>3. PICK c \in Calls : handler' = [handler EXCEPT ![h] = c]
    BY <2>1, <2>2, CallTypes DEF Register, ChangePassword, Login
  <2>4. handler' \in [Handlers -> Calls]
    BY <2>3 DEF TypeOK
  <2>5. QED
    BY <2>1, <2>4
       DEF TypeOK, Register, ChangePassword, Login, rows, history
<1>3. CASE CreateUser(h) \/ ChangePasswordTx(h)
  <2>1. call.user \in Users /\ call.device \in Fingerprints
    BY <1>1, <1>3, CallsByAwait DEF CreateUser, ChangePasswordTx
  <2>2. password[call.user] \in Nat /\ password[call.user] \in Passwords
    BY <2>1, TimeTypes DEF TypeOK, Passwords
  <2>3. PICK p \in Passwords :
            /\ password' = [password EXCEPT ![call.user] = p]
            /\ handler' = [handler EXCEPT ![h] =
                            [pc |-> "open", user |-> call.user,
                             device |-> call.device, password |-> p,
                             verified |-> FALSE, first |-> FALSE]]
    <3>1. CASE CreateUser(h)
      <4>1. 1 \in Passwords
        BY <3>1, TimeTypes DEF CreateUser, Passwords
      <4>2. QED
        BY <1>1, <3>1, <4>1 DEF CreateUser
    <3>2. CASE ChangePasswordTx(h)
      <4>1. password[call.user] + 1 \in Passwords
        BY <1>1, <2>2, <3>2, TimeTypes DEF ChangePasswordTx, Passwords
      <4>2. QED
        BY <1>1, <3>2, <4>1 DEF ChangePasswordTx
    <3>3. QED
      BY <1>3, <3>1, <3>2
  <2>4. handler' \in [Handlers -> Calls] /\ password' \in [Users -> Passwords]
    BY <2>1, <2>3, CallTypes DEF TypeOK
  <2>5. known' \subseteq Users \X Devices
    BY <1>1, <1>3, <2>1, DeviceOfType DEF TypeOK, CreateUser, ChangePasswordTx
  <2>6. revoked' \subseteq Sessions /\ endedFor' \in [Sessions -> Never..Horizon]
    <3>1. CASE CreateUser(h)
      BY <3>1 DEF TypeOK, CreateUser
    <3>2. CASE ChangePasswordTx(h)
      <4>1. Revoke(Of(call.user)) /\ Of(call.user) \in SUBSET Sessions
        BY <1>1, <3>2 DEF ChangePasswordTx, Of
      <4>2. QED
        BY <4>1, RevokeTypes
    <3>3. QED
      BY <1>3, <3>1, <3>2
  <2>7. QED
    BY <1>3, <2>4, <2>5, <2>6
       DEF TypeOK, CreateUser, ChangePasswordTx
<1>4. CASE CheckDevice(h)
  <2>1. /\ call.user \in Users /\ call.device \in Fingerprints
        /\ call.password \in Passwords /\ call.verified \in BOOLEAN
    BY <1>1, <1>4, CallsByAwait DEF CheckDevice
  <2>2. handler' \in [Handlers -> Calls]
    <3> DEFINE f == ~IsKnownDevice(call.user, call.device)
               next == [pc |-> "open", user |-> call.user,
                        device |-> call.device, password |-> call.password,
                        verified |-> call.verified, first |-> f]
    <3>1. handler' = [handler EXCEPT ![h] = next]
      BY <1>1, <1>4 DEF CheckDevice
    <3>2. f \in BOOLEAN
      OBVIOUS
    <3> HIDE DEF f
    <3>3. next \in Calls
      BY <2>1, <3>2, CallTypes
    <3> HIDE DEF next
    <3>4. QED
      BY <3>1, <3>3 DEF TypeOK
  <2>3. QED
    BY <1>4, <2>2 DEF TypeOK, CheckDevice, rows, history
<1>5. CASE \E s \in Sessions : Open(h, s)
  <2>1. PICK s \in Sessions : Open(h, s)
    BY <1>5
  <2>2. call.user \in Users /\ call.device \in Fingerprints /\ call.password \in Passwords
    BY <1>1, <2>1, CallsByAwait DEF Open, Opened
  <2>3. FirstUse(h) \in SUBSET (Users \X Devices)
        /\ Warning(h) \in SUBSET (Users \X Devices)
    BY <1>1, <2>2, DeviceOfType DEF FirstUse, Warning
  <2>4. handler' \in [Handlers -> Calls]
    BY <2>1, <2>3, CallTypes, TimeTypes DEF TypeOK, Open, Opened
  <2>5. QED
    BY <1>1, <2>1, <2>2, <2>3, <2>4 DEF TypeOK, Open, Opened
<1>6. CASE Sign(h)
  <2>1. call.session \in Sessions /\ call.warn \in SUBSET (Users \X Devices)
    BY <1>1, <1>6, CallsByAwait DEF Sign
  <2>2. handler' \in [Handlers -> Calls]
    BY <1>1, <1>6, <2>1, CallTypes DEF TypeOK, Sign
  <2>3. access' \in [Sessions -> 0..AccessTtl]
    BY <1>1, <1>6, <2>1, TimeTypes DEF TypeOK, Sign
  <2>4. QED
    BY <1>6, <2>2, <2>3 DEF TypeOK, Sign, rows, history
<1>7. CASE Warn(h) \/ Fail(h)
  <2>1. known' \subseteq Users \X Devices
    BY <1>1, <1>7, CallsByAwait, CarriedType DEF TypeOK, Warn, Fail
  <2>2. handler' \in [Handlers -> Calls]
    BY <1>7, CallTypes DEF TypeOK, Warn, Fail
  <2>3. QED
    BY <1>7, <2>1, <2>2 DEF TypeOK, Warn, Fail, rows
<1>8. CASE \E s \in Sessions, d \in Fingerprints : Refresh(h, s, d)
  <2>1. PICK s \in Sessions, d \in Fingerprints : Refresh(h, s, d)
    BY <1>8
  <2>2. device[s] \in Fingerprints /\ owner[s] \in Users
    BY <2>1 DEF TypeOK, Refresh, Usable
  <2>3. handler' \in [Handlers -> Calls]
    BY <2>1, <2>2, CallTypes, TimeTypes DEF TypeOK, Refresh
  <2>4. known' \subseteq Users \X Devices
    BY <2>1, <2>2, DeviceOfType DEF TypeOK, Refresh
  <2>5. QED
    BY <2>1, <2>3, <2>4 DEF TypeOK, Refresh, rows
<1>9. CASE Rotate(h)
  <2>1. /\ call.session \in Sessions /\ call.device \in Fingerprints
        /\ call.age \in 0..RequestTime
    BY <1>1, <1>9, CallsByAwait DEF Rotate
  <2>2. handler' \in [Handlers -> Calls]
    BY <1>1, <1>9, <2>1, CallTypes DEF TypeOK, Rotate
  <2>3. QED
    BY <1>1, <1>9, <2>1, <2>2 DEF TypeOK, Rotate, history
<1>10. CASE LogoutTx(h) \/ RevokeAll(h)
  <2>1. PICK ss \in SUBSET Sessions : Revoke(ss)
    BY <1>1, <1>10, CallsByAwait DEF LogoutTx, RevokeAll, Of
  <2>2. revoked' \subseteq Sessions /\ endedFor' \in [Sessions -> Never..Horizon]
    BY <2>1, RevokeTypes
  <2>3. handler' \in [Handlers -> Calls]
    BY <1>10, CallTypes DEF TypeOK, LogoutTx, RevokeAll
  <2>4. QED
    BY <1>10, <2>2, <2>3 DEF TypeOK, LogoutTx, RevokeAll
<1>11. CASE \E s \in Sessions : Logout(h, s)
  BY <1>11, CallTypes DEF TypeOK, Logout, rows, history
<1>12. CASE \E u \in Users : LogoutAll(h, u)
  BY <1>12, CallTypes DEF TypeOK, LogoutAll, rows, history
<1>13. QED
  BY <1>2, <1>3, <1>4, <1>5, <1>6, <1>7, <1>8, <1>9, <1>10, <1>11, <1>12
     DEF HandlerStep

LEMMA TickTypes ==
    ASSUME TypeOK, Tick
    PROVE  TypeOK'
<1>1. access' \in [Sessions -> 0..AccessTtl]
  BY TimeTypes DEF TypeOK, Tick
<1>2. endedFor' \in [Sessions -> Never..Horizon]
  BY TimeTypes DEF TypeOK, Tick
<1>3. ASSUME NEW h \in Handlers
      PROVE  handler'[h] \in Calls
  <2> DEFINE call == handler[h]
  <2>1. call \in Calls
    BY DEF TypeOK
  <2>2. handler'[h] = IF h \in Signing THEN [call EXCEPT !.age = @ + 1] ELSE call
    BY DEF Tick
  <2>3. ASSUME h \in Signing
        PROVE  [call EXCEPT !.age = @ + 1] \in Calls
    <3>1. call.age < RequestTime /\ call.pc \in {"rotate", "sign"}
      BY <2>3 DEF Tick, Signing
    <3> HIDE DEF call
    <3>2. call.age + 1 \in 0..RequestTime
      BY <2>1, <3>1, CallsByAwait, TimeTypes
    <3>3. CASE call.pc = "rotate"
      <4>1. call \in RotateCalls
        BY <2>1, <3>3, CallsByAwait
      <4>2. [call EXCEPT !.age = @ + 1] \in RotateCalls
        BY <3>2, <4>1 DEF RotateCalls
      <4>3. QED
        BY <4>2, CallTypes
    <3>4. CASE call.pc = "sign"
      <4>1. call \in SigningCalls
        BY <2>1, <3>4, CallsByAwait
      <4>2. [call EXCEPT !.age = @ + 1] \in SigningCalls
        BY <3>2, <4>1 DEF SigningCalls
      <4>3. QED
        BY <4>2, CallTypes
    <3>5. QED
      BY <3>1, <3>3, <3>4
  <2> HIDE DEF call
  <2>4. QED
    BY <2>1, <2>2, <2>3
<1>4. handler' \in [Handlers -> Calls]
  <2>1. DOMAIN handler' = Handlers /\ handler' = [h \in Handlers |-> handler'[h]]
    BY DEF Tick
  <2>2. QED
    BY <1>3, <2>1
<1>5. QED
  BY <1>1, <1>2, <1>4 DEF TypeOK, Tick, rows

LEMMA StepTypes ==
    ASSUME TypeOK, [Next]_vars
    PROVE  TypeOK'
<1>1. CASE \E h \in Handlers : HandlerStep(h)
  BY <1>1, RequestTypes
<1>2. CASE \E s \in Sessions : Expire(s)
  BY <1>2 DEF TypeOK, Expire, history
<1>3. CASE Tick
  BY <1>3, TickTypes
<1>4. CASE UNCHANGED vars
  BY <1>4 DEF TypeOK, vars, rows, history
<1>5. CASE \E u \in Users : VerifyPhone(u) \/ ChangePhone(u)
  BY <1>5 DEF TypeOK, VerifyPhone, ChangePhone, history
<1>6. QED
  BY <1>1, <1>2, <1>3, <1>4, <1>5 DEF Next

LEMMA InitTypes == Init => TypeOK
BY CallTypes, TimeTypes, UsersAssumption DEF Init, TypeOK, Passwords,
   Fingerprints

\* Every variable keeps its type.
THEOREM TypesHold == Spec => []TypeOK
<1>1. TypeOK /\ [Next]_vars => TypeOK'
  BY StepTypes
<1>2. QED
  BY InitTypes, <1>1, PTL DEF Spec

-----------------------------------------------------------------------------
(* Revocation and access *)

\* Only an opened session is revoked or in hand, and an unrevoked one has no
\* age.
Existing ==
    /\ \A s \in revoked : owner[s] # NoUser
    /\ \A h \in Handlers : handler[h].pc \in {"rotate", "sign", "logout"} =>
                            owner[handler[h].session] # NoUser
    /\ \A s \in Sessions \ revoked : endedFor[s] = Never

\* A request that will sign has not been about its session for less time than
\* the session has been revoked.
InTime ==
    \A h \in Signing : endedFor[handler[h].session] <= handler[h].age

EndedInv == Existing /\ InTime /\ AccessEnds

LEMMA EndedInit == Init => EndedInv
BY TimeTypes DEF Init, EndedInv, Existing, InTime, AccessEnds, Signing, Idle

LEMMA RevokeEnds ==
    ASSUME TypeOK, EndedInv, NEW h \in Handlers, NEW ss \in SUBSET Sessions,
           Revoke(ss), UNCHANGED <<owner, access>>,
           \A s \in ss : owner[s] # NoUser,
           \A g \in Handlers :
               handler'[g] = handler[g]
               \/ handler'[g].pc \notin {"rotate", "sign", "logout"}
    PROVE  EndedInv'
<1>1. \A s \in Sessions :
        /\ endedFor'[s] = (IF s \in ss \ revoked THEN 0 ELSE endedFor[s])
        /\ endedFor[s] \in Never..Horizon
        /\ access[s] \in 0..AccessTtl
  BY DEF Revoke, TypeOK
<1>2. Existing'
  BY <1>1 DEF EndedInv, Existing, Revoke, TypeOK
<1>3. InTime'
  <2>1. ASSUME NEW g \in Signing'
        PROVE  endedFor'[handler'[g].session] <= handler'[g].age
    <3>1. g \in Signing /\ handler'[g] = handler[g]
      BY DEF Signing
    <3>2. handler[g] \in Calls
      BY <3>1 DEF TypeOK, Signing
    <3>3. handler[g].session \in Sessions /\ handler[g].age \in 0..RequestTime
      BY <3>1, <3>2, CallsByAwait DEF Signing
    <3>4. endedFor[handler[g].session] <= handler[g].age
      BY <3>1 DEF EndedInv, InTime
    <3>5. QED
      BY <1>1, <3>1, <3>3, <3>4, TimeTypes
  <2>2. QED
    BY <2>1 DEF InTime
<1>4. AccessEnds'
  <2>1. \A s \in Sessions : access[s] > 0 => endedFor[s] + access[s] <= Horizon
    BY DEF EndedInv, AccessEnds
  <2>2. \A s \in Sessions : access'[s] = access[s]
    OBVIOUS
  <2>3. QED
    BY <1>1, <2>1, <2>2, TimeTypes DEF AccessEnds
<1>5. QED
  BY <1>2, <1>3, <1>4 DEF EndedInv

LEMMA RequestEnds ==
    ASSUME TypeOK, EndedInv, NEW h \in Handlers, HandlerStep(h)
    PROVE  EndedInv'
<1>0. handler[h] \in Calls
  BY DEF TypeOK
\* Steps that touch no session and leave none in hand.
<1>1. CASE /\ UNCHANGED <<owner, revoked, access, endedFor>>
           /\ \A g \in Handlers \ {h} : handler'[g] = handler[g]
           /\ handler'[h].pc \notin {"rotate", "sign", "logout"}
  BY <1>1 DEF EndedInv, Existing, InTime, AccessEnds, Signing, TypeOK
<1>2. CASE \E s \in Sessions : Logout(h, s)
  BY <1>2 DEF Logout, EndedInv, Existing, InTime, AccessEnds, Signing, TypeOK,
              rows, history
<1>3. CASE \E s \in Sessions : Open(h, s)
  <2>1. PICK s \in Sessions : Open(h, s)
    BY <1>3
  <2>2. PICK u \in Users : owner' = [owner EXCEPT ![s] = u]
    BY <1>0, <2>1, CallsByAwait DEF Open, Opened
  <2>3. u # NoUser
    BY UsersAssumption
  <2>4. endedFor[s] = Never
    BY <2>1 DEF Open, Opened, EndedInv, Existing
  <2>5. Existing'
    BY <2>1, <2>2, <2>3 DEF Open, Opened, EndedInv, Existing, TypeOK
  <2>6. InTime'
    BY <2>1, <2>4, TimeTypes DEF Open, Opened, EndedInv, InTime, Signing, TypeOK
  <2>7. QED
    BY <2>1, <2>5, <2>6 DEF Open, Opened, EndedInv, AccessEnds
<1>4. CASE Sign(h)
  <2> DEFINE s == handler[h].session
  <2>1. s \in Sessions /\ handler[h].age \in 0..RequestTime /\ h \in Signing
    BY <1>0, <1>4, CallsByAwait DEF Sign, Signing
  <2>2. endedFor[s] <= handler[h].age /\ endedFor[s] \in Never..Horizon
    BY <2>1 DEF EndedInv, InTime, TypeOK
  <2>3. endedFor[s] + AccessTtl <= Horizon
    BY <2>1, <2>2, TimeTypes
  <2>4. access' = [access EXCEPT ![s] = AccessTtl] /\ endedFor' = endedFor
    BY <1>4 DEF Sign, history
  <2>5. /\ \A g \in Handlers \ {h} : handler'[g] = handler[g]
        /\ handler'[h].pc \notin {"rotate", "sign", "logout"}
    BY <1>4 DEF Sign, Idle, TypeOK
  <2> HIDE DEF s
  <2>6. AccessEnds'
    BY <2>1, <2>3, <2>4 DEF EndedInv, AccessEnds, TypeOK
  <2>7. Existing' /\ InTime'
    BY <1>4, <2>4, <2>5
       DEF Sign, EndedInv, Existing, InTime, Signing, TypeOK, rows
  <2>8. QED
    BY <2>6, <2>7 DEF EndedInv
<1>5. CASE \E s \in Sessions, d \in Fingerprints : Refresh(h, s, d)
  <2>1. PICK s \in Sessions, d \in Fingerprints : Refresh(h, s, d)
    BY <1>5
  <2>2. owner[s] # NoUser /\ endedFor[s] = Never
    BY <2>1 DEF Refresh, Usable, EndedInv, Existing
  <2>3. UNCHANGED <<owner, revoked, access, endedFor>>
    BY <2>1 DEF Refresh, rows
  <2>4. /\ \A g \in Handlers \ {h} : handler'[g] = handler[g]
        /\ \/ /\ handler'[h].pc = "rotate"
              /\ handler'[h].session = s
              /\ handler'[h].age = 0
           \/ handler'[h].pc = "revokeAll"
    BY <2>1 DEF Refresh, TypeOK
  <2>5. Existing'
    BY <2>2, <2>3, <2>4 DEF EndedInv, Existing, TypeOK
  <2>6. InTime'
    BY <2>2, <2>3, <2>4, TimeTypes DEF EndedInv, InTime, Signing, TypeOK
  <2>7. QED
    BY <2>3, <2>5, <2>6 DEF EndedInv, AccessEnds
<1>6. CASE Rotate(h)
  <2>1. h \in Signing /\ handler[h].pc = "rotate"
    BY <1>6 DEF Rotate, Signing
  <2>2. /\ \A g \in Handlers \ {h} : handler'[g] = handler[g]
        /\ handler'[h].pc = "sign"
        /\ handler'[h].session = handler[h].session
        /\ handler'[h].age = handler[h].age
    BY <1>6 DEF Rotate, TypeOK
  <2>3. UNCHANGED <<owner, revoked, access, endedFor>>
    BY <1>6 DEF Rotate, history
  <2>4. Existing'
    BY <2>1, <2>2, <2>3 DEF EndedInv, Existing, TypeOK
  <2>5. InTime'
    BY <2>1, <2>2, <2>3 DEF EndedInv, InTime, Signing, TypeOK
  <2>6. QED
    BY <2>3, <2>4, <2>5 DEF EndedInv, AccessEnds
<1>7. CASE LogoutTx(h)
  <2>1. handler[h].session \in Sessions /\ owner[handler[h].session] # NoUser
    BY <1>0, <1>7, CallsByAwait DEF LogoutTx, EndedInv, Existing
  <2>2. /\ Revoke({handler[h].session})
        /\ UNCHANGED <<owner, access>>
        /\ handler' = [handler EXCEPT ![h] = Idle]
    BY <1>7 DEF LogoutTx
  <2>3. \A g \in Handlers : handler'[g] = handler[g] \/ handler'[g].pc = "idle"
    BY <2>2 DEF TypeOK, Idle
  <2>4. QED
    BY <2>1, <2>2, <2>3, RevokeEnds
<1>8. CASE RevokeAll(h) \/ ChangePasswordTx(h)
  <2>1. PICK u \in Users : Revoke(Of(u))
    BY <1>0, <1>8, CallsByAwait DEF RevokeAll, ChangePasswordTx
  <2>2. Of(u) \in SUBSET Sessions /\ \A s \in Of(u) : owner[s] # NoUser
    BY UsersAssumption DEF Of
  <2>3. \A g \in Handlers : handler'[g] = handler[g]
                            \/ handler'[g].pc \in {"idle", "open"}
    BY <1>8 DEF RevokeAll, ChangePasswordTx, TypeOK, Idle
  <2>4. UNCHANGED <<owner, access>>
    BY <1>8 DEF RevokeAll, ChangePasswordTx
  <2>5. QED
    BY <2>1, <2>2, <2>3, <2>4, RevokeEnds
<1>9. CASE \/ CreateUser(h) \/ CheckDevice(h) \/ Warn(h) \/ Fail(h)
           \/ \E u \in Users :
                \/ LogoutAll(h, u)
                \/ \E d \in Fingerprints :
                      Register(h, u, d) \/ Login(h, u, d) \/ ChangePassword(h, u, d)
  <2>1. UNCHANGED <<owner, revoked, access, endedFor>>
    BY <1>9 DEF CreateUser, CheckDevice, Warn, Fail, LogoutAll, Register, Login,
                ChangePassword, rows, history
  <2>2. /\ \A g \in Handlers \ {h} : handler'[g] = handler[g]
        /\ handler'[h].pc \notin {"rotate", "sign", "logout"}
    BY <1>9 DEF CreateUser, CheckDevice, Warn, Fail, LogoutAll, Register, Login,
                ChangePassword, Idle, TypeOK
  <2>3. QED
    BY <1>1, <2>1, <2>2
<1>10. QED
  BY <1>2, <1>3, <1>4, <1>5, <1>6, <1>7, <1>8, <1>9 DEF HandlerStep

LEMMA TickEnds ==
    ASSUME TypeOK, EndedInv, Tick
    PROVE  EndedInv'
<1>1. \A s \in Sessions :
        /\ access'[s] = (IF access[s] > 0 THEN access[s] - 1 ELSE 0)
        /\ endedFor'[s] = (IF endedFor[s] \in 0..Horizon - 1 THEN endedFor[s] + 1
                          ELSE endedFor[s])
        /\ access[s] \in 0..AccessTtl
        /\ endedFor[s] \in Never..Horizon
  BY DEF Tick, TypeOK
<1>2. \A h \in Handlers : /\ handler'[h].pc = handler[h].pc
                          /\ h \in Signing \/ handler'[h] = handler[h]
  <2>1. \A h \in Handlers :
            handler'[h] = IF h \in Signing THEN [handler[h] EXCEPT !.age = @ + 1]
                          ELSE handler[h]
    BY DEF Tick
  <2>2. \A h \in Signing : handler[h] \in RotateCalls \cup SigningCalls
    BY CallsByAwait DEF Signing, TypeOK
  <2>3. QED
    BY <2>1, <2>2 DEF RotateCalls, SigningCalls
<1>3. \A h \in Signing : /\ handler'[h].session = handler[h].session
                         /\ handler'[h].age = handler[h].age + 1
                         /\ handler[h].session \in Sessions
                         /\ handler[h].age \in Nat
  <2> SUFFICES ASSUME NEW h \in Signing
               PROVE  /\ handler'[h].session = handler[h].session
                      /\ handler'[h].age = handler[h].age + 1
                      /\ handler[h].session \in Sessions
                      /\ handler[h].age \in Nat
    OBVIOUS
  <2>1. handler'[h] = [handler[h] EXCEPT !.age = @ + 1]
    BY DEF Tick, Signing
  <2>2. CASE handler[h] \in RotateCalls
    BY <2>1, <2>2, TimeTypes DEF RotateCalls
  <2>3. CASE handler[h] \in SigningCalls
    BY <2>1, <2>3, TimeTypes DEF SigningCalls
  <2>4. QED
    BY <2>2, <2>3, CallsByAwait DEF Signing, TypeOK
<1>4. Existing'
  BY <1>1, <1>2, <1>3, TimeTypes DEF EndedInv, Existing, Tick, Signing, rows
<1>5. InTime'
  <2>1. Signing' = Signing
    BY <1>2 DEF Signing
  <2>2. QED
    BY <1>1, <1>3, <2>1, TimeTypes DEF EndedInv, InTime
<1>6. AccessEnds'
  BY <1>1, TimeTypes DEF EndedInv, AccessEnds
<1>7. QED
  BY <1>4, <1>5, <1>6 DEF EndedInv

LEMMA StepEnds ==
    ASSUME TypeOK, EndedInv, [Next]_vars
    PROVE  EndedInv'
<1>1. CASE \E h \in Handlers : HandlerStep(h)
  BY <1>1, RequestEnds
<1>2. CASE \E s \in Sessions : Expire(s)
  BY <1>2 DEF Expire, EndedInv, Existing, InTime, AccessEnds, Signing, history
<1>3. CASE Tick
  BY <1>3, TickEnds
<1>4. CASE UNCHANGED vars
  BY <1>4 DEF EndedInv, Existing, InTime, AccessEnds, Signing, vars, rows,
     history
<1>5. CASE \E u \in Users : VerifyPhone(u) \/ ChangePhone(u)
  BY <1>5 DEF VerifyPhone, ChangePhone, EndedInv, Existing, InTime, AccessEnds,
             Signing, history
<1>6. QED
  BY <1>1, <1>2, <1>3, <1>4, <1>5 DEF Next

\* A revoked session gives access for no longer than one request and one
\* token's life.
THEOREM AccessAlwaysEnds == Spec => []AccessEnds
<1>1. TypeOK /\ EndedInv /\ [Next]_vars => EndedInv'
  BY StepEnds
<1>2. EndedInv => AccessEnds
  BY DEF EndedInv
<1>3. QED
  BY EndedInit, TypesHold, <1>1, <1>2, PTL DEF Spec

-----------------------------------------------------------------------------
(* Passwords and sessions *)

\* Only who has an account opens sessions, and what is not revoked goes with
\* the present password, expired or not: Rotate renews expired rows.
PasswordInv ==
    /\ \A s \in Sessions : owner[s] # NoUser => password[owner[s]] > 0
    /\ \A h \in Handlers : handler[h].pc \in {"device", "open"} =>
                            password[handler[h].user] > 0
    /\ \A s \in Sessions \ (revoked \cup late) :
            owner[s] # NoUser => openedWith[s] = password[owner[s]]

LEMMA RequestPasswords ==
    ASSUME TypeOK, PasswordInv, NEW h \in Handlers, HandlerStep(h)
    PROVE  PasswordInv'
<1>0. handler[h] \in Calls
  BY DEF TypeOK
<1>1. ASSUME UNCHANGED <<password, owner, openedWith>>,
             revoked \subseteq revoked', late' = late,
             \A g \in Handlers \ {h} : handler'[g] = handler[g],
             handler'[h].pc \in {"device", "open"} =>
                password[handler'[h].user] > 0
      PROVE  PasswordInv'
  BY <1>1 DEF PasswordInv
<1>2. CASE CreateUser(h)
  <2> DEFINE u == handler[h].user
  <2>1. u \in Users /\ u # NoUser
    BY <1>0, <1>2, CallsByAwait, UsersAssumption DEF CreateUser
  <2>2. /\ password[u] = 0
        /\ password' = [password EXCEPT ![u] = 1]
        /\ UNCHANGED <<owner, revoked, openedWith, late>>
        /\ \A g \in Handlers \ {h} : handler'[g] = handler[g]
        /\ handler'[h].user = u
    BY <1>2 DEF CreateUser, TypeOK
  <2> HIDE DEF u
  <2>3. \A s \in Sessions : owner[s] \in Users \cup {NoUser} /\ owner[s] # u
    BY <2>2, <2>1 DEF PasswordInv, TypeOK
  <2>4. \A g \in Handlers \ {h} : handler[g].pc \in {"device", "open"} =>
            handler[g].user \in Users
    BY CallsByAwait DEF TypeOK
  <2>5. QED
    BY <2>1, <2>2, <2>3, <2>4 DEF PasswordInv, TypeOK
<1>3. CASE ChangePasswordTx(h)
  <2> DEFINE u == handler[h].user
  <2>1. u \in Users /\ u # NoUser
    BY <1>0, <1>3, CallsByAwait, UsersAssumption DEF ChangePasswordTx
  <2>2. /\ password' = [password EXCEPT ![u] = @ + 1]
        /\ Revoke(Of(u))
        /\ UNCHANGED <<owner, openedWith, late>>
        /\ \A g \in Handlers \ {h} : handler'[g] = handler[g]
        /\ handler'[h].user = u
    BY <1>3 DEF ChangePasswordTx, TypeOK
  <2> HIDE DEF u
  <2>3. \A v \in Users : password[v] \in Nat
                         /\ password'[v] = IF v = u THEN password[v] + 1 ELSE password[v]
    BY <2>2, TimeTypes DEF TypeOK, Passwords
  <2>4. revoked' = revoked \cup {s \in Sessions : owner[s] = u}
    BY <2>2 DEF Revoke, Of
  <2>5. \A s \in Sessions : owner[s] # NoUser => owner[s] \in Users
    BY DEF TypeOK
  <2>6. \A g \in Handlers \ {h} : handler[g].pc \in {"device", "open"} =>
            handler[g].user \in Users
    BY CallsByAwait DEF TypeOK
  <2>7. QED
    BY <2>1, <2>2, <2>3, <2>4, <2>5, <2>6 DEF PasswordInv
<1>4. CASE \E s \in Sessions : Open(h, s)
  <2>1. PICK s \in Sessions : Open(h, s)
    BY <1>4
  <2> DEFINE u == handler[h].user
  <2>2. u \in Users /\ password[u] > 0 /\ handler[h].pc = "open"
    BY <1>0, <2>1, CallsByAwait DEF Open, Opened, PasswordInv
  <2>3. /\ owner' = [owner EXCEPT ![s] = u]
        /\ openedWith' = [openedWith EXCEPT ![s] = handler[h].password]
        /\ late' = IF handler[h].password # password[u] THEN late \cup {s} ELSE late
        /\ UNCHANGED <<password, revoked>>
        /\ \A g \in Handlers \ {h} : handler'[g] = handler[g]
        /\ handler'[h].pc = "sign"
    BY <2>1 DEF Open, Opened, TypeOK
  <2> HIDE DEF u
  <2>4. QED
    BY <2>2, <2>3 DEF PasswordInv, TypeOK
<1>5. CASE Sign(h) \/ Warn(h) \/ Fail(h) \/ Rotate(h)
  BY <1>1, <1>5
     DEF Sign, Warn, Fail, Rotate, TypeOK, rows, history, Idle
<1>6. CASE LogoutTx(h) \/ RevokeAll(h)
  BY <1>1, <1>6 DEF LogoutTx, RevokeAll, Revoke, TypeOK, Idle
<1>7. CASE \E s \in Sessions, d \in Fingerprints : Refresh(h, s, d)
  BY <1>1, <1>7 DEF Refresh, TypeOK, rows, history
<1>8. CASE \E s \in Sessions : Logout(h, s)
  BY <1>1, <1>8 DEF Logout, TypeOK, rows, history
<1>9. CASE \E u \in Users, d \in Fingerprints :
            Register(h, u, d) \/ ChangePassword(h, u, d) \/ Login(h, u, d)
  BY <1>1, <1>9 DEF Register, ChangePassword, Login, TypeOK, rows, history
<1>10. CASE \E u \in Users : LogoutAll(h, u)
  BY <1>1, <1>10 DEF LogoutAll, TypeOK, rows, history
<1>11. CASE CheckDevice(h)
  <2>1. handler'[h].user = handler[h].user /\ handler[h].pc = "device"
    BY <1>11 DEF CheckDevice, TypeOK
  <2>2. password[handler[h].user] > 0
    BY <2>1 DEF PasswordInv
  <2>3. QED
    BY <1>1, <1>11, <2>1, <2>2 DEF CheckDevice, TypeOK, rows, history
<1>12. QED
  BY <1>2, <1>3, <1>4, <1>5, <1>6, <1>7, <1>8, <1>9, <1>10, <1>11
     DEF HandlerStep

LEMMA TickKeepsCalls ==
    ASSUME TypeOK, Tick, NEW h \in Handlers
    PROVE  /\ handler'[h].pc = handler[h].pc
           /\ handler[h].pc \notin {"rotate", "sign"} => handler'[h] = handler[h]
           /\ handler[h].pc \in {"rotate", "sign"} =>
                handler'[h].session = handler[h].session
           /\ handler[h].pc = "rotate" => handler'[h].device = handler[h].device
           /\ handler[h].pc = "sign" => handler'[h].warn = handler[h].warn
<1>1. handler'[h] = IF h \in Signing THEN [handler[h] EXCEPT !.age = @ + 1]
                    ELSE handler[h]
  BY DEF Tick
<1>2. CASE handler[h].pc \notin {"rotate", "sign"}
  BY <1>1, <1>2 DEF Signing
<1>3. CASE handler[h].pc = "rotate"
  <2>1. handler[h] \in RotateCalls /\ h \in Signing
    BY <1>3, CallsByAwait DEF TypeOK, Signing
  <2>2. QED
    BY <1>1, <1>3, <2>1 DEF RotateCalls
<1>4. CASE handler[h].pc = "sign"
  <2>1. handler[h] \in SigningCalls /\ h \in Signing
    BY <1>4, CallsByAwait DEF TypeOK, Signing
  <2>2. QED
    BY <1>1, <1>4, <2>1 DEF SigningCalls
<1>5. QED
  BY <1>2, <1>3, <1>4

LEMMA StepPasswords ==
    ASSUME TypeOK, PasswordInv, [Next]_vars
    PROVE  PasswordInv'
<1>1. CASE \E h \in Handlers : HandlerStep(h)
  BY <1>1, RequestPasswords
<1>2. CASE \E s \in Sessions : Expire(s)
  BY <1>2 DEF Expire, PasswordInv, history
<1>3. CASE Tick
  BY <1>3, TickKeepsCalls DEF Tick, PasswordInv, rows
<1>4. CASE UNCHANGED vars
  BY <1>4 DEF PasswordInv, vars, rows, history
<1>5. CASE \E u \in Users : VerifyPhone(u) \/ ChangePhone(u)
  BY <1>5 DEF VerifyPhone, ChangePhone, PasswordInv, history
<1>6. QED
  BY <1>1, <1>2, <1>3, <1>4, <1>5 DEF Next

\* A session of an earlier password is refused, unless it was opened late.
THEOREM PasswordsEndSessions == Spec => []PasswordEndsSessions
<1>1. Init => PasswordInv
  BY DEF Init, PasswordInv, Idle
<1>2. TypeOK /\ PasswordInv /\ [Next]_vars => PasswordInv'
  BY StepPasswords
<1>3. PasswordInv => PasswordEndsSessions
  BY DEF PasswordInv, PasswordEndsSessions, Usable
<1>4. QED
  BY TypesHold, <1>1, <1>2, <1>3, PTL DEF Spec

-----------------------------------------------------------------------------
(* Devices and warnings *)

Told == known \cup UNION {Carried(h) : h \in Handlers}

Owed(u, d) == u # NoUser /\ d # NoDevice => <<u, d>> \in Told

\* A request that will open a session from a device that is not new, or rotate
\* one, brings a device that is accounted for.
AlertInv ==
    /\ \A s \in Sessions : Owed(owner[s], device[s])
    /\ \A h \in Handlers :
        /\ handler[h].pc = "open" /\ ~handler[h].first =>
                Owed(handler[h].user, handler[h].device)
        /\ handler[h].pc = "rotate" =>
                /\ owner[handler[h].session] # NoUser
                /\ Owed(owner[handler[h].session], handler[h].device)

\* What a step of h leaves told: nothing is lost if its own part is kept.
LEMMA ToldKept ==
    ASSUME NEW h \in Handlers,
           \A g \in Handlers \ {h} : handler'[g] = handler[g],
           known \subseteq known',
           Carried(h) \subseteq known' \cup Carried(h)'
    PROVE  Told \subseteq Told'
<1>1. \A g \in Handlers \ {h} : Carried(g)' = Carried(g)
  BY DEF Carried
<1>2. ASSUME NEW x \in Told
      PROVE  x \in Told'
  <2>1. CASE x \in known
    BY <2>1 DEF Told
  <2>2. CASE \E g \in Handlers : x \in Carried(g)
    BY <1>1, <2>2 DEF Told
  <2>3. QED
    BY <2>1, <2>2 DEF Told
<1>3. QED
  BY <1>2

LEMMA RequestTells ==
    ASSUME TypeOK, NEW h \in Handlers, HandlerStep(h)
    PROVE  /\ \A g \in Handlers \ {h} : handler'[g] = handler[g]
           /\ Told \subseteq Told'
<1>1. \A g \in Handlers \ {h} : handler'[g] = handler[g]
  BY DEF HandlerStep, TypeOK, Register, CreateUser, Login, CheckDevice, Open,
         Opened, Sign, Warn, Refresh, Rotate, Logout, LogoutTx, LogoutAll,
         RevokeAll, ChangePassword, ChangePasswordTx, Fail
<1>2. known \subseteq known'
  BY DEF HandlerStep, Register, CreateUser, Login, CheckDevice, Open, Opened,
         Sign, Warn, Refresh, Rotate, Logout, LogoutTx, LogoutAll, RevokeAll,
         ChangePassword, ChangePasswordTx, Fail, history
<1>3. Carried(h) \subseteq known' \cup Carried(h)'
  <2>1. CASE handler[h].pc \notin {"sign", "warn"}
    BY <2>1 DEF Carried
  <2>2. CASE Sign(h)
    <3>1. CASE handler[h].warn = {}
      BY <2>2, <3>1 DEF Carried, Sign
    <3>2. CASE handler[h].warn # {}
      <4>1. handler'[h] = [pc |-> "warn", warn |-> handler[h].warn]
        BY <2>2, <3>2 DEF Sign, TypeOK
      <4>2. QED
        BY <2>2, <4>1 DEF Carried, Sign
    <3>3. QED
      BY <3>1, <3>2
  <2>3. CASE Warn(h) \/ Fail(h)
    BY <2>3 DEF Carried, Warn, Fail
  <2>4. QED
    BY <2>1, <2>2, <2>3
       DEF HandlerStep, Register, CreateUser, Login, CheckDevice, Open, Opened,
           Refresh, Rotate, Logout, LogoutTx, LogoutAll, RevokeAll,
           ChangePassword, ChangePasswordTx
<1>4. QED
  BY <1>1, <1>2, <1>3, ToldKept

\* A step that opens no session and rotates none, and leaves nobody owing.
LEMMA AlertKept ==
    ASSUME AlertInv, NEW h \in Handlers, UNCHANGED <<owner, device>>,
           Told \subseteq Told',
           \A g \in Handlers \ {h} : handler'[g] = handler[g],
           handler'[h].pc = "open" /\ ~handler'[h].first =>
                Owed(handler[h].user, handler[h].device)',
           handler'[h].pc = "rotate" =>
                /\ owner[handler'[h].session] # NoUser
                /\ Owed(owner[handler[h].session], handler[h].device)'
    PROVE  AlertInv'
<1>1. \A u, d : Owed(u, d) => Owed(u, d)'
  BY DEF Owed
<1>2. \A s \in Sessions : Owed(owner[s], device[s])'
  BY <1>1 DEF AlertInv, Owed
<1>3. ASSUME NEW g \in Handlers
      PROVE  /\ handler'[g].pc = "open" /\ ~handler'[g].first =>
                    Owed(handler[g].user, handler[g].device)'
             /\ handler'[g].pc = "rotate" =>
                    /\ owner'[handler'[g].session] # NoUser
                    /\ Owed(owner[handler[g].session], handler[g].device)'
  <2>1. CASE g = h
    BY <2>1
  <2>2. CASE g # h
    BY <1>1, <2>2 DEF AlertInv, Owed
  <2>3. QED
    BY <2>1, <2>2
<1>4. QED
  BY <1>2, <1>3 DEF AlertInv, Owed

LEMMA RequestAlerts ==
    ASSUME TypeOK, AlertInv, NEW h \in Handlers, HandlerStep(h)
    PROVE  AlertInv'
<1>0. /\ handler[h] \in Calls
      /\ \A g \in Handlers \ {h} : handler'[g] = handler[g]
      /\ Told \subseteq Told'
  BY RequestTells DEF TypeOK
<1>1. \A u, d : Owed(u, d) => Owed(u, d)'
  BY <1>0 DEF Owed
<1>2. \A u, d : DeviceOf(u, d) \subseteq Told' => Owed(u, d)'
  BY DEF Owed, DeviceOf
<1>3. CASE \E s \in Sessions : Open(h, s)
  <2>1. PICK s \in Sessions : Open(h, s)
    BY <1>3
  <2>2. PICK u, d : u = handler[h].user /\ d = handler[h].device
    OBVIOUS
  <2>3. u \in Users /\ u # NoUser
    BY <1>0, <2>1, <2>2, CallsByAwait, UsersAssumption DEF Open, Opened
  <2>4. /\ owner[s] = NoUser
        /\ owner' = [owner EXCEPT ![s] = u]
        /\ device' = [device EXCEPT ![s] = d]
        /\ handler'[h].pc = "sign"
        /\ handler'[h].warn = Warning(h)
    BY <2>1, <2>2 DEF Open, Opened, TypeOK
  <2>5. Owed(u, d)'
    <3>1. CASE handler[h].first
      <4>1. FirstUse(h) = DeviceOf(u, d)
        BY <2>2, <3>1 DEF FirstUse
      <4>2. CASE handler[h].verified
        <5>1. Carried(h)' = DeviceOf(u, d)
          BY <2>4, <4>1, <4>2 DEF Carried, Warning
        <5>2. QED
          BY <1>2, <5>1 DEF Told
      <4>3. CASE ~handler[h].verified
        <5>1. DeviceOf(u, d) \subseteq known'
          BY <2>1, <4>1, <4>3 DEF Open, Opened
        <5>2. QED
          BY <1>2, <5>1 DEF Told
      <4>4. QED
        BY <4>2, <4>3
    <3>2. CASE ~handler[h].first
      BY <1>1, <2>1, <2>2, <3>2 DEF AlertInv, Open, Opened
    <3>3. QED
      BY <3>1, <3>2
  <2>6. ASSUME NEW t \in Sessions
        PROVE  Owed(owner[t], device[t])'
    <3>1. CASE t = s
      BY <2>4, <2>5, <3>1 DEF TypeOK, Owed
    <3>2. CASE t # s
      BY <1>1, <2>4, <3>2 DEF TypeOK, AlertInv, Owed
    <3>3. QED
      BY <3>1, <3>2
  <2>7. ASSUME NEW g \in Handlers \ {h}, handler[g].pc = "rotate"
        PROVE  /\ owner'[handler[g].session] = owner[handler[g].session]
               /\ owner[handler[g].session] # NoUser
    <3>1. handler[g].session \in Sessions
      BY <2>7, CallsByAwait DEF TypeOK
    <3>2. QED
      BY <2>4, <2>7, <3>1 DEF AlertInv, TypeOK
  <2>8. ASSUME NEW g \in Handlers
        PROVE  /\ handler'[g].pc = "open" /\ ~handler'[g].first =>
                    Owed(handler[g].user, handler[g].device)'
               /\ handler'[g].pc = "rotate" =>
                    /\ owner'[handler'[g].session] # NoUser
                    /\ Owed(owner[handler[g].session], handler[g].device)'
    <3>1. CASE g = h
      BY <2>4, <3>1
    <3>2. CASE g # h
      <4>1. handler'[g] = handler[g]
        BY <1>0, <3>2
      <4>2. CASE handler[g].pc = "open"
        BY <1>1, <4>1, <4>2 DEF AlertInv, Owed
      <4>3. CASE handler[g].pc = "rotate"
        <5>1. Owed(owner[handler[g].session], handler[g].device)
          BY <4>3 DEF AlertInv
        <5>2. owner'[handler[g].session] = owner[handler[g].session]
              /\ owner[handler[g].session] # NoUser
          BY <2>7, <3>2, <4>3
        <5>3. QED
          BY <1>0, <4>1, <4>3, <5>1, <5>2 DEF Owed
      <4>4. QED
        BY <4>1, <4>2, <4>3
    <3>3. QED
      BY <3>1, <3>2
  <2>9. QED
    BY <2>6, <2>8 DEF AlertInv
<1>4. CASE Rotate(h)
  <2>1. PICK s, d : s = handler[h].session /\ d = handler[h].device
    OBVIOUS
  <2>2. s \in Sessions
    BY <1>0, <1>4, <2>1, CallsByAwait DEF Rotate
  <2>3. /\ device' = [device EXCEPT ![s] = d]
        /\ owner' = owner
        /\ handler'[h].pc = "sign"
    BY <1>4, <2>1 DEF Rotate, TypeOK
  <2>4. Owed(owner[s], d)
    BY <1>4, <2>1 DEF Rotate, AlertInv
  <2>5. ASSUME NEW t \in Sessions
        PROVE  Owed(owner[t], device[t])'
    <3>1. CASE t = s
      BY <1>0, <2>3, <2>4, <3>1 DEF TypeOK, Owed
    <3>2. CASE t # s
      BY <1>0, <2>3, <3>2 DEF TypeOK, AlertInv, Owed
    <3>3. QED
      BY <3>1, <3>2
  <2>6. QED
    BY <1>0, <1>1, <2>3, <2>5 DEF AlertInv, Owed
<1>5. CASE CheckDevice(h)
  <2>1. /\ handler'[h].pc = "open"
        /\ handler'[h].user = handler[h].user
        /\ handler'[h].device = handler[h].device
        /\ handler'[h].first = ~IsKnownDevice(handler[h].user, handler[h].device)
        /\ UNCHANGED <<owner, device>>
    BY <1>5 DEF CheckDevice, TypeOK, rows
  <2>2. IsKnownDevice(handler[h].user, handler[h].device) =>
            Owed(handler[h].user, handler[h].device)
    BY DEF IsKnownDevice, Of, AlertInv, Owed
  <2>3. ~handler'[h].first => Owed(handler[h].user, handler[h].device)
    BY <2>1, <2>2
  <2>4. QED
    BY <1>0, <2>1, <2>3, AlertKept DEF Owed
<1>6. CASE CreateUser(h) \/ ChangePasswordTx(h)
  <2>1. /\ handler'[h].pc = "open"
        /\ handler'[h].user = handler[h].user
        /\ handler'[h].device = handler[h].device
        /\ UNCHANGED <<owner, device>>
    BY <1>6 DEF CreateUser, ChangePasswordTx, TypeOK
  <2>2. PICK u, d : u = handler[h].user /\ d = handler[h].device
    OBVIOUS
  <2>3. DeviceOf(u, d) \subseteq known'
    BY <1>6, <2>2 DEF CreateUser, ChangePasswordTx
  <2>4. Owed(u, d)'
    BY <1>2, <2>3 DEF Told
  <2>5. Owed(handler[h].user, handler[h].device)'
    BY <2>1, <2>2, <2>4 DEF Owed
  <2>6. QED
    BY <1>0, <2>1, <2>5, AlertKept
<1>7. CASE \E s \in Sessions, d \in Fingerprints : Refresh(h, s, d)
  <2>1. PICK s \in Sessions, d \in Fingerprints : Refresh(h, s, d)
    BY <1>7
  <2>2. owner[s] # NoUser /\ UNCHANGED <<owner, device>>
    BY <2>1 DEF Refresh, Usable, rows
  <2>3. CASE handler'[h].pc = "rotate"
    <3>1. /\ known' = known \cup DeviceOf(owner[s], d)
          /\ handler'[h].session = s
          /\ handler'[h].device = IF d = NoDevice THEN device[s] ELSE d
      BY <2>1, <2>3 DEF Refresh, TypeOK
    <3>2. PICK u : u = owner[s]
      OBVIOUS
    <3>3. Owed(u, d)'
      BY <1>2, <3>1, <3>2 DEF Told
    <3>4. Owed(u, device[s])
      BY <3>2 DEF AlertInv
    <3>5. Owed(owner[handler[h].session], handler[h].device)'
      BY <1>0, <2>2, <3>1, <3>2, <3>3, <3>4 DEF Owed
    <3>6. QED
      BY <1>0, <2>2, <2>3, <3>1, <3>5, AlertKept
  <2>4. CASE handler'[h].pc = "revokeAll"
    BY <1>0, <2>2, <2>4, AlertKept
  <2>5. QED
    BY <2>1, <2>3, <2>4 DEF Refresh, TypeOK
<1>8. ASSUME UNCHANGED <<owner, device>>, handler'[h].pc \notin {"open", "rotate"}
      PROVE  AlertInv'
  BY <1>0, <1>8, AlertKept
<1>9. CASE Sign(h) \/ Warn(h) \/ Fail(h) \/ LogoutTx(h) \/ RevokeAll(h)
  BY <1>8, <1>9 DEF Sign, Warn, Fail, LogoutTx, RevokeAll, TypeOK, Idle, rows
<1>10. CASE \E s \in Sessions : Logout(h, s)
  BY <1>8, <1>10 DEF Logout, TypeOK, rows
<1>11. CASE \E u \in Users :
            \/ LogoutAll(h, u)
            \/ \E d \in Fingerprints :
                  Register(h, u, d) \/ Login(h, u, d) \/ ChangePassword(h, u, d)
  BY <1>8, <1>11 DEF LogoutAll, Register, Login, ChangePassword, TypeOK, rows
<1>12. QED
  BY <1>3, <1>4, <1>5, <1>6, <1>7, <1>9, <1>10, <1>11 DEF HandlerStep

LEMMA StepAlerts ==
    ASSUME TypeOK, AlertInv, [Next]_vars
    PROVE  AlertInv'
<1>1. CASE \E h \in Handlers : HandlerStep(h)
  BY <1>1, RequestAlerts
<1>2. CASE \E s \in Sessions : Expire(s)
  BY <1>2 DEF Expire, AlertInv, Owed, Told, Carried, history
<1>3. CASE Tick
  <2>1. \A h \in Handlers : Carried(h)' = Carried(h)
    BY <1>3, TickKeepsCalls DEF Carried
  <2>2. UNCHANGED <<Told, owner, device>>
    BY <1>3, <2>1 DEF Told, Tick, rows
  <2>3. \A h \in Handlers :
            /\ handler'[h].pc = handler[h].pc
            /\ handler[h].pc = "open" => handler'[h] = handler[h]
            /\ handler[h].pc = "rotate" =>
                    /\ handler'[h].session = handler[h].session
                    /\ handler'[h].device = handler[h].device
    BY <1>3, TickKeepsCalls
  <2>4. QED
    BY <2>2, <2>3 DEF AlertInv, Owed
<1>4. CASE UNCHANGED vars
  BY <1>4 DEF AlertInv, Owed, Told, Carried, vars, rows, history
<1>5. CASE \E u \in Users : VerifyPhone(u) \/ ChangePhone(u)
  BY <1>5 DEF VerifyPhone, ChangePhone, AlertInv, Owed, Told, Carried, history
<1>6. QED
  BY <1>1, <1>2, <1>3, <1>4, <1>5 DEF Next

\* For any users, devices, sessions and requests, a device on record was
\* announced or came in by one of the exceptions FirstUseAlerted names, although
\* phones are verified and replaced at any time.
THEOREM DevicesAreAlerted == Spec => []FirstUseAlerted
<1>1. Init => AlertInv
  BY DEF Init, AlertInv, Owed, Idle
<1>2. TypeOK /\ AlertInv /\ [Next]_vars => AlertInv'
  BY StepAlerts
<1>3. AlertInv => FirstUseAlerted
  BY DEF AlertInv, FirstUseAlerted, Owed, Told
<1>4. QED
  BY TypesHold, <1>1, <1>2, <1>3, PTL DEF Spec

=============================================================================
