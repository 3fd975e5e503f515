------------------------------ MODULE Sessions ------------------------------
(***************************************************************************)
(* AuthService (src/src/auth/auth.service.ts): accounts, the sessions that  *)
(* logins open, and the access tokens handed out through them.  A refresh   *)
(* token leads to its session's row; an access token is good until it       *)
(* expires, whatever becomes of the session (JwtStrategy looks at the user  *)
(* only), and nothing in the program ever deactivates a user.               *)
(*                                                                          *)
(* Every await ends an action and handler[h] keeps what was read before it. *)
(* Requests that are turned away change nothing and are left out.  Time     *)
(* passes in ticks; from reading a session, or opening it, to the access    *)
(* token a request takes at most RequestTime.                               *)
(***************************************************************************)
EXTENDS Integers, FiniteSets

CONSTANTS
    Users,
    NoUser,         \* the owner of a session not yet opened
    Devices,        \* fingerprints of user agents
    NoDevice,       \* a request without a user agent
    Sessions,       \* Session.id, each opened once
    Handlers,       \* HTTP requests in flight
    AccessTtl,      \* JWT_ACCESS_TTL, in ticks
    RequestTime,
    MaxPasswords    \* bound: passwords a user ever has

ASSUME UsersAssumption == NoUser \notin Users
ASSUME DevicesAssumption == NoDevice \notin Devices
ASSUME TimesAssumption == AccessTtl \in Nat \ {0} /\ RequestTime \in Nat
ASSUME PasswordsAssumption == MaxPasswords \in Nat

VARIABLES
    password,       \* how many passwords a user has had, 0: no account yet
    phoneVerified,  \* users whose row has a phone number and phoneVerifiedAt
    owner,          \* Session.userId
    device,         \* Session.deviceFingerprint
    revoked,        \* sessions whose revokedAt is set,
    expired,        \* whose expiresAt is past,
    rotated,        \* whose refreshTokenHash has been replaced
    access,         \* life left in the last access token of each session
    handler,        \* what each request has in hand at its await
    openedWith,     \* history: the password each session was opened with,
    late,           \* sessions opened although it had changed meanwhile,
    endedFor,       \* ticks since each was revoked,
    known           \* devices a user was warned of, or brought along without
                    \* logging in, or first logged in from while the phone
                    \* was not verified, or whose warning was lost

rows == <<password, phoneVerified, owner, device, revoked, expired, rotated>>
history == <<openedWith, late, endedFor, known>>
vars == <<rows, access, handler, history>>

Passwords == 0..MaxPasswords
Fingerprints == Devices \cup {NoDevice}

\* As long after a session was revoked as its access may last.
Horizon == AccessTtl + RequestTime
Never == -1

Idle == [pc |-> "idle"]
Calls ==
    {Idle}
    \cup [pc : {"newUser", "change"}, user : Users, device : Fingerprints]
    \cup [pc : {"device"}, user : Users, device : Fingerprints,
          password : Passwords, verified : BOOLEAN]
    \cup [pc : {"open"}, user : Users, device : Fingerprints,
          password : Passwords, verified : BOOLEAN, first : BOOLEAN]
    \cup [pc : {"rotate"}, session : Sessions, device : Fingerprints,
          age : 0..RequestTime]
    \cup [pc : {"sign"}, session : Sessions, age : 0..RequestTime,
          warn : SUBSET (Users \X Devices)]
    \cup [pc : {"warn"}, warn : SUBSET (Users \X Devices)]
    \cup [pc : {"logout"}, session : Sessions]
    \cup [pc : {"revokeAll"}, user : Users]

Await(h, call) == handler' = [handler EXCEPT ![h] = call]
Return(h) == Await(h, Idle)
At(h, pc) == handler[h].pc = pc

\* The sessions ever opened for u.
Of(u) == {s \in Sessions : owner[s] = u}
Usable == {s \in Sessions : owner[s] # NoUser} \ (revoked \cup expired)

Init ==
    /\ password = [u \in Users |-> 0]
    /\ phoneVerified = {}
    /\ owner = [s \in Sessions |-> NoUser]
    /\ device = [s \in Sessions |-> NoDevice]
    /\ revoked = {}
    /\ expired = {}
    /\ rotated = {}
    /\ access = [s \in Sessions |-> 0]
    /\ handler = [h \in Handlers |-> Idle]
    /\ openedWith = [s \in Sessions |-> 0]
    /\ late = {}
    /\ endedFor = [s \in Sessions |-> Never]
    /\ known = {}

\* A user's device, if there is a user agent to tell it by.  One that comes
\* along with a registration, a new password or a refresh is never announced.
DeviceOf(u, d) == {<<u, b>> : b \in {d} \ {NoDevice}}

\* What h has still to tell users once it has signed.
Carried(h) == IF handler[h].pc \in {"sign", "warn"} THEN handler[h].warn ELSE {}

-----------------------------------------------------------------------------
(* Opening a session *)

\* register: the address is free ...
Register(h, u, d) ==
    /\ At(h, "idle")
    /\ password[u] = 0
    /\ Await(h, [pc |-> "newUser", user |-> u, device |-> d])
    /\ UNCHANGED <<rows, access, history>>

\* ... and still is, or the unique index refuses.  A link is sent
\* (EmailLinks) before the session is opened.
CreateUser(h) ==
    LET u == handler[h].user IN
    /\ At(h, "newUser")
    /\ password[u] = 0
    /\ MaxPasswords > 0
    /\ password' = [password EXCEPT ![u] = 1]
    /\ known' = known \cup DeviceOf(u, handler[h].device)
    /\ Await(h, [pc |-> "open", user |-> u, device |-> handler[h].device,
                 password |-> 1, verified |-> FALSE, first |-> FALSE])
    /\ UNCHANGED <<phoneVerified, owner, device, revoked, expired, rotated, access,
                   openedWith, late, endedFor>>

\* login with the right password.  The row read here also says whether the user
\* can be warned.
Login(h, u, d) ==
    /\ At(h, "idle")
    /\ password[u] > 0
    /\ Await(h, [pc |-> "device", user |-> u, device |-> d,
                 password |-> password[u], verified |-> u \in phoneVerified])
    /\ UNCHANGED <<rows, access, history>>

\* isKnownDevice: any session ever counts, and no user agent raises no alarm.
IsKnownDevice(u, d) == d = NoDevice \/ \E s \in Of(u) : device[s] = d

CheckDevice(h) ==
    LET u == handler[h].user
        d == handler[h].device
    IN
    /\ At(h, "device")
    /\ Await(h, [pc |-> "open", user |-> u, device |-> d,
                 password |-> handler[h].password,
                 verified |-> handler[h].verified,
                 first |-> ~IsKnownDevice(u, d)])
    /\ UNCHANGED <<rows, access, history>>

\* The device a login found to be new.
FirstUse(h) ==
    IF handler[h].first THEN DeviceOf(handler[h].user, handler[h].device) ELSE {}

\* Whom to warn of what once the session is open: the phone must have been
\* verified when the login began.
Warning(h) == IF handler[h].verified THEN FirstUse(h) ELSE {}

Opened(h, s, warn) ==
    /\ At(h, "open")
    /\ owner[s] = NoUser
    /\ owner' = [owner EXCEPT ![s] = handler[h].user]
    /\ device' = [device EXCEPT ![s] = handler[h].device]
    /\ openedWith' = [openedWith EXCEPT ![s] = handler[h].password]
    /\ late' = IF handler[h].password # password[handler[h].user]
               THEN late \cup {s}
               ELSE late
    /\ known' = known \cup IF handler[h].verified THEN {} ELSE FirstUse(h)
    /\ Await(h, [pc |-> "sign", session |-> s, age |-> 0, warn |-> warn])
    /\ UNCHANGED <<password, phoneVerified, revoked, expired, rotated, access,
                   endedFor>>

\* Mutant of Open: isKnownDevice is asked once the session, which matches, is
\* there.
OpenThenCheck(h, s) == Opened(h, s, {})

\* issueSession: the row ...
Open(h, s) == Opened(h, s, Warning(h))

\* Mutant of Sign: the life of the token is given in another unit than read.
SignInOtherUnit(h) ==
    /\ At(h, "sign")
    /\ access' = [access EXCEPT ![handler[h].session] = 2 * AccessTtl]
    /\ Return(h)
    /\ UNCHANGED <<rows, history>>

\* ... and, in issueSession and rotateSession alike, the access token.
Sign(h) ==
    LET warn == handler[h].warn IN
    /\ At(h, "sign")
    /\ access' = [access EXCEPT ![handler[h].session] = AccessTtl]
    /\ IF warn = {} THEN Return(h) ELSE Await(h, [pc |-> "warn", warn |-> warn])
    /\ UNCHANGED <<rows, history>>

\* The new-device-login message is queued, or that fails and only the log says
\* so.
Warn(h) ==
    /\ At(h, "warn")
    /\ known' = known \cup handler[h].warn
    /\ Return(h)
    /\ UNCHANGED <<rows, access, openedWith, late, endedFor>>

-----------------------------------------------------------------------------
(* Refreshing and ending sessions *)

\* Mutant of Refresh: revokedAt is not looked at.
RefreshUnlessExpired(h, s, d) ==
    /\ At(h, "idle")
    /\ owner[s] # NoUser /\ s \notin expired
    /\ known' = known \cup DeviceOf(owner[s], d)
    /\ Await(h, [pc |-> "rotate", session |-> s, age |-> 0,
                 device |-> IF d = NoDevice THEN device[s] ELSE d])
    /\ UNCHANGED <<rows, access, openedWith, late, endedFor>>

\* refresh with a refresh token of s.  bcrypt decides whether an earlier one
\* still matches the hash; it looks at 72 bytes, in which all of a session's
\* tokens agree, so both outcomes are allowed here.
Refresh(h, s, d) ==
    /\ At(h, "idle")
    /\ s \in Usable
    /\ \/ /\ known' = known \cup DeviceOf(owner[s], d)
          /\ Await(h, [pc |-> "rotate", session |-> s, age |-> 0,
                       device |-> IF d = NoDevice THEN device[s] ELSE d])
       \/ /\ s \in rotated
          /\ Await(h, [pc |-> "revokeAll", user |-> owner[s]])
          /\ UNCHANGED known
    /\ UNCHANGED <<rows, access, openedWith, late, endedFor>>

\* Mutant of Rotate: the update puts the row it read back as it was.
RotateRestores(h) ==
    LET s == handler[h].session IN
    /\ At(h, "rotate")
    /\ device' = [device EXCEPT ![s] = handler[h].device]
    /\ rotated' = rotated \cup {s}
    /\ expired' = expired \ {s}
    /\ revoked' = revoked \ {s}
    /\ Await(h, [pc |-> "sign", session |-> s, age |-> handler[h].age,
                 warn |-> {}])
    /\ UNCHANGED <<password, phoneVerified, owner, access, history>>

\* rotateSession updates by id and asks nothing again.
Rotate(h) ==
    LET s == handler[h].session IN
    /\ At(h, "rotate")
    /\ device' = [device EXCEPT ![s] = handler[h].device]
    /\ rotated' = rotated \cup {s}
    /\ expired' = expired \ {s}
    /\ Await(h, [pc |-> "sign", session |-> s, age |-> handler[h].age,
                 warn |-> {}])
    /\ UNCHANGED <<password, phoneVerified, owner, revoked, access, history>>

\* updateMany sets revokedAt where it is null.
Revoke(ss) ==
    /\ revoked' = revoked \cup ss
    /\ endedFor' = [s \in Sessions |->
                      IF s \in ss \ revoked THEN 0 ELSE endedFor[s]]

\* JwtAuthGuard lets an access token through until it expires.
SignedIn(u) == \E s \in Of(u) : access[s] > 0

\* logout takes the session from a refresh token, and the guard wants some
\* access token besides.
Logout(h, s) ==
    /\ At(h, "idle")
    /\ owner[s] # NoUser
    /\ \E u \in Users : SignedIn(u)
    /\ Await(h, [pc |-> "logout", session |-> s])
    /\ UNCHANGED <<rows, access, history>>

LogoutTx(h) ==
    /\ At(h, "logout")
    /\ Revoke({handler[h].session})
    /\ Return(h)
    /\ UNCHANGED <<password, phoneVerified, owner, device, expired, rotated,
                   access, openedWith, late, known>>

LogoutAll(h, u) ==
    /\ At(h, "idle")
    /\ SignedIn(u)
    /\ Await(h, [pc |-> "revokeAll", user |-> u])
    /\ UNCHANGED <<rows, access, history>>

\* The end of logoutAll, and of a refresh whose token did not match.
RevokeAll(h) ==
    /\ At(h, "revokeAll")
    /\ Revoke(Of(handler[h].user))
    /\ Return(h)
    /\ UNCHANGED <<password, phoneVerified, owner, device, expired, rotated,
                   access, openedWith, late, known>>

\* changePassword: the current one is right ...
ChangePassword(h, u, d) ==
    /\ At(h, "idle")
    /\ SignedIn(u)
    /\ Await(h, [pc |-> "change", user |-> u, device |-> d])
    /\ UNCHANGED <<rows, access, history>>

\* ... and is replaced, unchecked, in one transaction with the end of all
\* sessions.  The caller gets a new one.
ChangePasswordTx(h) ==
    LET u == handler[h].user IN
    /\ At(h, "change")
    /\ password[u] < MaxPasswords
    /\ password' = [password EXCEPT ![u] = @ + 1]
    /\ Revoke(Of(u))
    /\ known' = known \cup DeviceOf(u, handler[h].device)
    /\ Await(h, [pc |-> "open", user |-> u, device |-> handler[h].device,
                 password |-> password[u] + 1, verified |-> FALSE,
                 first |-> FALSE])
    /\ UNCHANGED <<phoneVerified, owner, device, expired, rotated, access,
                   openedWith, late>>

-----------------------------------------------------------------------------
(* The user's phone: other services write it, at any time as seen from here *)
(* (OneTimeCodes has what they ask for)                                     *)

\* A code sent to the phone is redeemed: OtpController sets phoneVerifiedAt.
VerifyPhone(u) ==
    /\ password[u] > 0
    /\ phoneVerified' = phoneVerified \cup {u}
    /\ UNCHANGED <<password, owner, device, revoked, expired, rotated, access,
                   handler, history>>

\* Another number takes its place: UsersService clears the flag.
ChangePhone(u) ==
    /\ phoneVerified' = phoneVerified \ {u}
    /\ UNCHANGED <<password, owner, device, revoked, expired, rotated, access,
                   handler, history>>

-----------------------------------------------------------------------------
(* Failures and time *)

\* A rejected call or the end of the process drops the request, and what it had
\* still to say.
Fail(h) ==
    /\ ~At(h, "idle")
    /\ known' = known \cup Carried(h)
    /\ Return(h)
    /\ UNCHANGED <<rows, access, openedWith, late, endedFor>>

Expire(s) ==
    /\ s \in Usable
    /\ expired' = expired \cup {s}
    /\ UNCHANGED <<password, phoneVerified, owner, device, revoked, rotated,
                   access, handler, history>>

\* Requests on their way to an access token.
Signing == {h \in Handlers : handler[h].pc \in {"rotate", "sign"}}

Tick ==
    /\ \A h \in Signing : handler[h].age < RequestTime
    /\ handler' = [h \in Handlers |->
                     IF h \in Signing THEN [handler[h] EXCEPT !.age = @ + 1]
                     ELSE handler[h]]
    /\ access' = [s \in Sessions |-> IF access[s] > 0 THEN access[s] - 1 ELSE 0]
    /\ endedFor' = [s \in Sessions |->
                      IF endedFor[s] \in 0..Horizon - 1 THEN endedFor[s] + 1
                      ELSE endedFor[s]]
    /\ UNCHANGED <<rows, openedWith, late, known>>

HandlerStep(h) ==
    \/ CreateUser(h) \/ CheckDevice(h) \/ Sign(h) \/ Warn(h) \/ Rotate(h)
    \/ LogoutTx(h) \/ RevokeAll(h) \/ ChangePasswordTx(h) \/ Fail(h)
    \/ \E s \in Sessions :
          Open(h, s) \/ Logout(h, s) \/ \E d \in Fingerprints : Refresh(h, s, d)
    \/ \E u \in Users :
          \/ LogoutAll(h, u)
          \/ \E d \in Fingerprints :
                Register(h, u, d) \/ Login(h, u, d) \/ ChangePassword(h, u, d)

Next ==
    \/ \E h \in Handlers : HandlerStep(h)
    \/ \E u \in Users : VerifyPhone(u) \/ ChangePhone(u)
    \/ \E s \in Sessions : Expire(s)
    \/ Tick

Spec == Init /\ [][Next]_vars

-----------------------------------------------------------------------------
(* Properties *)

(***************************************************************************)
(* The types.                                                              *)
(***************************************************************************)
TypeOK ==
    /\ password \in [Users -> Passwords]
    /\ phoneVerified \subseteq Users
    /\ owner \in [Sessions -> Users \cup {NoUser}]
    /\ device \in [Sessions -> Fingerprints]
    /\ revoked \subseteq Sessions /\ expired \subseteq Sessions
    /\ rotated \subseteq Sessions
    /\ access \in [Sessions -> 0..AccessTtl]
    /\ handler \in [Handlers -> Calls]
    /\ openedWith \in [Sessions -> Passwords]
    /\ late \subseteq Sessions
    /\ endedFor \in [Sessions -> Never..Horizon]
    /\ known \subseteq Users \X Devices

(***************************************************************************)
(* Once a session is revoked (logout, logout everywhere, a new password),   *)
(* access through it ends, though not at once: JwtStrategy never looks at   *)
(* the session, and a refresh that had read the row before may still rotate *)
(* it and sign.  But no access token is good for longer than one request    *)
(* and one token's life from then on.  That is less than the comment on     *)
(* changePassword has it, "existing tokens can't be used after the change": *)
(* refresh tokens can't, access tokens can until they expire.               *)
(***************************************************************************)
AccessEnds ==
    \A s \in Sessions : access[s] > 0 => endedFor[s] + access[s] <= Horizon

(***************************************************************************)
(* A change of the password ends the sessions of earlier passwords: what    *)
(* can still be refreshed was opened with the present one, except where a   *)
(* login had checked the old password before the change and inserted its    *)
(* session after it.  No refresh under way brings an ended session back.    *)
(***************************************************************************)
PasswordEndsSessions ==
    \A s \in Usable \ late : openedWith[s] = password[owner[s]]

(***************************************************************************)
(* Every device on record for a user was announced to them, unless it came  *)
(* along with a registration, a new password or a refresh, or the login     *)
(* that brought it began while no phone was verified, or the message, or    *)
(* the request carrying it, was lost.  Two logins at once, a refresh or a   *)
(* change of the phone in between, open no other way in.  (What came in by  *)
(* an exception is known from then on, also once a phone is verified:       *)
(* isKnownDevice asks for a session, not for a message.)                    *)
(***************************************************************************)
FirstUseAlerted ==
    \A s \in Sessions :
        owner[s] # NoUser /\ device[s] # NoDevice =>
            <<owner[s], device[s]>> \in known \cup UNION {Carried(h) : h \in Handlers}

=============================================================================
