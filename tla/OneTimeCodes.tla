---------------------------- MODULE OneTimeCodes ----------------------------
(***************************************************************************)
(* OtpService (src/src/sms/otp.service.ts) with its two callers, the one    *)
(* that sets a user's phone number (src/src/users/users.service.ts) and the *)
(* controller that verifies it (src/src/sms/otp.controller.ts).             *)
(*                                                                          *)
(* Codes of different purposes have nothing to do with each other: these    *)
(* are the codes for PHONE_VERIFY, the only ones that change a user.  The   *)
(* hourly limit may turn any request for a code away: that is Fail.         *)
(***************************************************************************)
EXTENDS Integers, Sequences, FiniteSets

CONSTANTS
    Users,
    Phones,
    Handlers,       \* HTTP requests in flight
    NoUser,         \* a code asked for without an account,
    NoPhone,        \* an account without a number
    MaxAttempts,    \* OTP_MAX_ATTEMPTS
    MaxCodes        \* bound: codes ever issued

ASSUME NoUserAssumption == NoUser \notin Users
ASSUME NoPhoneAssumption == NoPhone \notin Phones
ASSUME AttemptsAssumption == MaxAttempts \in Nat \ {0}
ASSUME CodesAssumption == MaxCodes \in Nat

VARIABLES
    phone,          \* User.phoneNumber
    verified,       \* User.phoneVerifiedAt is set
    tokens,         \* the OtpToken rows in the order of createdAt
    handler,        \* what each request has in hand at its await
    accepted        \* history: how often each code was accepted

codeVars == <<phone, verified, tokens, handler, accepted>>

Tokens == [phone : Phones, user : Users \cup {NoUser}, used : BOOLEAN,
           expired : BOOLEAN, attempts : 0..MaxAttempts]

Idle == [pc |-> "idle"]
Calls ==
    {Idle}
    \cup [pc : {"setPhone"}, user : Users, phone : Phones, verified : BOOLEAN]
    \cup [pc : {"invalidate", "create"}, user : Users \cup {NoUser},
          phone : Phones]
    \cup [pc : {"lapse", "redeem"}, token : 1..MaxCodes]
    \cup [pc : {"reject"}, token : 1..MaxCodes, attempts : 1..MaxAttempts]
    \cup [pc : {"flag"}, user : Users]

Await(h, call) == handler' = [handler EXCEPT ![h] = call]
Return(h) == Await(h, Idle)
At(h, pc) == handler[h].pc = pc

CodesInit ==
    /\ phone = [u \in Users |-> NoPhone]
    /\ verified = [u \in Users |-> FALSE]
    /\ tokens = <<>>
    /\ handler = [h \in Handlers |-> Idle]
    /\ accepted = [c \in 1..MaxCodes |-> 0]

-----------------------------------------------------------------------------
(* Issuing a code *)

\* setPhoneAndSendOtp keeps the flag of a number that does not change.
SetPhone(h, u, p) ==
    /\ At(h, "idle")
    /\ Await(h, [pc |-> "setPhone", user |-> u, phone |-> p,
                 verified |-> phone[u] = p /\ verified[u]])
    /\ UNCHANGED <<phone, verified, tokens, accepted>>

\* The number must not be another account's (P2002: see Fail).
SetPhoneWrite(h) ==
    LET u == handler[h].user
        p == handler[h].phone
    IN
    /\ At(h, "setPhone")
    /\ \A v \in Users \ {u} : phone[v] # p
    /\ phone' = [phone EXCEPT ![u] = p]
    /\ verified' = [verified EXCEPT ![u] = handler[h].verified]
    /\ Await(h, [pc |-> "invalidate", user |-> u, phone |-> p])
    /\ UNCHANGED <<tokens, accepted>>

\* POST /auth/otp/send, for any number and no account.
Send(h, p) ==
    /\ At(h, "idle")
    /\ Await(h, [pc |-> "invalidate", user |-> NoUser, phone |-> p])
    /\ UNCHANGED <<phone, verified, tokens, accepted>>

\* Mutant: only the codes of the same account are invalidated.
InvalidateOfUser(h) ==
    LET prior(t) == t.phone = handler[h].phone /\ t.user = handler[h].user IN
    /\ At(h, "invalidate")
    /\ tokens' = [i \in DOMAIN tokens |->
                    [tokens[i] EXCEPT !.used = @ \/ prior(tokens[i])]]
    /\ Await(h, [handler[h] EXCEPT !.pc = "create"])
    /\ UNCHANGED <<phone, verified, accepted>>

\* issueAndSend: first the earlier codes for the number are used up ...
Invalidate(h) ==
    LET prior(t) == t.phone = handler[h].phone IN
    /\ At(h, "invalidate")
    /\ tokens' = [i \in DOMAIN tokens |->
                    [tokens[i] EXCEPT !.used = @ \/ prior(tokens[i])]]
    /\ Await(h, [handler[h] EXCEPT !.pc = "create"])
    /\ UNCHANGED <<phone, verified, accepted>>

\* ... then the new one is created.  A failure to send it is logged only.
Create(h) ==
    /\ At(h, "create")
    /\ Len(tokens) < MaxCodes
    /\ tokens' = Append(tokens,
                    [phone |-> handler[h].phone, user |-> handler[h].user,
                     used |-> FALSE, expired |-> FALSE, attempts |-> 0])
    /\ Return(h)
    /\ UNCHANGED <<phone, verified, accepted>>

-----------------------------------------------------------------------------
(* Entering a code *)

\* Mutant: the query does not ask for usedAt null.
UsedOrNot(p) == {i \in DOMAIN tokens : tokens[i].phone = p}

Unused(p) == {i \in DOMAIN tokens : tokens[i].phone = p /\ ~tokens[i].used}

\* verify looks at the latest code for the number that is not used, whichever
\* code was entered.
Verify(h, p, entered) ==
    \E i \in Unused(p) :
        /\ \A j \in Unused(p) : j <= i
        /\ At(h, "idle")
        /\ \/ /\ tokens[i].expired
              /\ Await(h, [pc |-> "lapse", token |-> i])
           \/ /\ ~tokens[i].expired
              /\ entered # i
              /\ Await(h, [pc |-> "reject", token |-> i,
                           attempts |-> tokens[i].attempts + 1])
           \/ /\ ~tokens[i].expired
              /\ entered = i
              /\ Await(h, [pc |-> "redeem", token |-> i])
        /\ UNCHANGED <<phone, verified, tokens, accepted>>

\* Mutant: the error is not thrown and the controller goes on.
LapseAndFlag(h) ==
    LET u == tokens[handler[h].token].user IN
    /\ At(h, "lapse")
    /\ tokens' = [tokens EXCEPT ![handler[h].token].used = TRUE]
    /\ IF u = NoUser THEN Return(h) ELSE Await(h, [pc |-> "flag", user |-> u])
    /\ UNCHANGED <<phone, verified, accepted>>

Lapse(h) ==
    /\ At(h, "lapse")
    /\ tokens' = [tokens EXCEPT ![handler[h].token].used = TRUE]
    /\ Return(h)
    /\ UNCHANGED <<phone, verified, accepted>>

\* Mutant: the last attempt allowed does not use the code up.
RejectOneMore(h) ==
    LET i == handler[h].token
        attempts == handler[h].attempts
    IN
    /\ At(h, "reject")
    /\ tokens' = [tokens EXCEPT ![i].attempts = attempts,
                                ![i].used = attempts > MaxAttempts]
    /\ Return(h)
    /\ UNCHANGED <<phone, verified, accepted>>

\* usedAt is written either way: set after the last attempt, else null.
Reject(h) ==
    LET i == handler[h].token
        attempts == handler[h].attempts
    IN
    /\ At(h, "reject")
    /\ tokens' = [tokens EXCEPT ![i].attempts = attempts,
                                ![i].used = attempts >= MaxAttempts]
    /\ Return(h)
    /\ UNCHANGED <<phone, verified, accepted>>

\* The code is used up and, in the controller, its account's turn comes.
Redeem(h) ==
    LET i == handler[h].token IN
    /\ At(h, "redeem")
    /\ tokens' = [tokens EXCEPT ![i].used = TRUE]
    /\ accepted' = [accepted EXCEPT ![i] = @ + 1]
    /\ IF tokens[i].user = NoUser
       THEN Return(h)
       ELSE Await(h, [pc |-> "flag", user |-> tokens[i].user])
    /\ UNCHANGED <<phone, verified>>

Flag(h) ==
    /\ At(h, "flag")
    /\ verified' = [verified EXCEPT ![handler[h].user] = TRUE]
    /\ Return(h)
    /\ UNCHANGED <<phone, tokens, accepted>>

-----------------------------------------------------------------------------
(* The environment *)

\* A query rejects, the limit is reached, or the process dies.
Fail(h) ==
    /\ ~At(h, "idle")
    /\ Return(h)
    /\ UNCHANGED <<phone, verified, tokens, accepted>>

\* OTP_TTL_MINUTES are over for a code.
Expire(i) ==
    /\ tokens' = [tokens EXCEPT ![i].expired = TRUE]
    /\ UNCHANGED <<phone, verified, handler, accepted>>

CodesNext ==
    \/ \E h \in Handlers :
        \/ \E u \in Users, p \in Phones : SetPhone(h, u, p)
        \/ \E p \in Phones :
            \/ Send(h, p)
            \/ \E entered \in 0..Len(tokens) : Verify(h, p, entered)
        \/ SetPhoneWrite(h)
        \/ Invalidate(h)
        \/ Create(h)
        \/ Lapse(h)
        \/ Reject(h)
        \/ Redeem(h)
        \/ Flag(h)
        \/ Fail(h)
    \/ \E i \in DOMAIN tokens : Expire(i)

CodesSpec == CodesInit /\ [][CodesNext]_codeVars

-----------------------------------------------------------------------------
(* Properties *)

CodesTypeOK ==
    /\ phone \in [Users -> Phones \cup {NoPhone}]
    /\ verified \in [Users -> BOOLEAN]
    /\ tokens \in Seq(Tokens)
    /\ Len(tokens) <= MaxCodes
    /\ handler \in [Handlers -> Calls]
    /\ accepted \in [1..MaxCodes -> Nat]

\* A user's phone counts as verified only if a code issued for that user was
\* accepted, however the requests overlap and fail.
VerifiedByCode ==
    \A u \in Users :
        verified[u] =>
            \E i \in DOMAIN tokens : tokens[i].user = u /\ accepted[i] > 0

=============================================================================
