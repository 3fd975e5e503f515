----------------------------- MODULE EmailLinks -----------------------------
(***************************************************************************)
(* EmailVerificationService (src/src/auth/email-verification.service.ts):   *)
(* the links that confirm an address, which registration and POST           *)
(* /auth/resend-verification issue and GET /auth/verify-email redeems, over *)
(* the email queue that carries them.                                       *)
(***************************************************************************)
EXTENDS MailQueue

CONSTANTS
    Users,
    NoUser,         \* the owner of a link not yet issued
    Links,          \* EmailVerificationToken.id, each issued once
    Handlers        \* HTTP requests in flight

ASSUME NoUserAssumption == NoUser \notin Users
ASSUME MessagesAssumption == Messages = Links

VARIABLES
    registered,     \* users with an account
    verified,       \* User.isEmailVerified
    owner,          \* EmailVerificationToken.userId
    used,           \* links whose usedAt is set,
    expired,        \* whose expiresAt is past
    handler,        \* what each request has in hand at its await
    crossed,        \* history: users whose last links were issued in parallel,
    stranded        \* users whose last issuance failed half way

linkRows == <<registered, verified, owner, used, expired>>
history == <<crossed, stranded>>
linkVars == <<linkRows, handler, history, mailVars>>

Idle == [pc |-> "idle"]
Calls ==
    {Idle}
    \cup [pc : {"invalidate", "create"}, user : Users]
    \cup [pc : {"dispatch", "sendNow", "redeem"}, link : Links]

Await(h, call) == handler' = [handler EXCEPT ![h] = call]
Return(h) == Await(h, Idle)
At(h, pc) == handler[h].pc = pc

\* Links that still work.
Good(u) == {l \in Links \ (used \cup expired) : owner[l] = u}

\* Requests between the two queries of an issuance for u, and all that have
\* yet to create a link for u.
Creating(u) == {h \in Handlers : At(h, "create") /\ handler[h].user = u}
Issuing(u) ==
    {h \in Handlers : handler[h].pc \in {"invalidate", "create"}
                      /\ handler[h].user = u}

LinksInit ==
    /\ registered = {}
    /\ verified = {}
    /\ owner = [l \in Links |-> NoUser]
    /\ used = {}
    /\ expired = {}
    /\ handler = [h \in Handlers |-> Idle]
    /\ crossed = {}
    /\ stranded = {}
    /\ MailInit

-----------------------------------------------------------------------------
(* Issuing a link *)

\* register has created the account (Sessions) and goes on to issueAndSend.
Register(h, u) ==
    /\ At(h, "idle")
    /\ u \notin registered
    /\ registered' = registered \cup {u}
    /\ Await(h, [pc |-> "invalidate", user |-> u])
    /\ UNCHANGED <<verified, owner, used, expired, history, mailVars>>

Resend(h, u) ==
    /\ At(h, "idle")
    /\ u \in registered \ verified
    /\ Await(h, [pc |-> "invalidate", user |-> u])
    /\ UNCHANGED <<linkRows, history, mailVars>>

\* Mutant of Invalidate: only links that are out of date are marked.
InvalidateExpired(h) ==
    LET u == handler[h].user IN
    /\ At(h, "invalidate")
    /\ used' = used \cup {l \in expired : owner[l] = u}
    /\ crossed' = IF Creating(u) = {} THEN crossed \ {u} ELSE crossed
    /\ Await(h, [pc |-> "create", user |-> u])
    /\ UNCHANGED <<registered, verified, owner, expired, stranded, mailVars>>

\* issueAndSend: the earlier links of the user are marked as used ...
Invalidate(h) ==
    LET u == handler[h].user IN
    /\ At(h, "invalidate")
    /\ used' = used \cup {l \in Links : owner[l] = u}
    /\ crossed' = IF Creating(u) = {} THEN crossed \ {u} ELSE crossed
    /\ Await(h, [pc |-> "create", user |-> u])
    /\ UNCHANGED <<registered, verified, owner, expired, stranded, mailVars>>

\* Mutant of Create: what is unused is marked after the link is there.
CreateThenInvalidate(h, l) ==
    LET u == handler[h].user IN
    /\ At(h, "create")
    /\ owner[l] = NoUser
    /\ owner' = [owner EXCEPT ![l] = u]
    /\ used' = used \cup {k \in Links : owner'[k] = u}
    /\ crossed' = IF Creating(u) = {h} THEN crossed ELSE crossed \cup {u}
    /\ stranded' = stranded \ {u}
    /\ Await(h, [pc |-> "dispatch", link |-> l])
    /\ UNCHANGED <<registered, verified, expired, mailVars>>

\* ... and the new one is created.
Create(h, l) ==
    LET u == handler[h].user IN
    /\ At(h, "create")
    /\ owner[l] = NoUser
    /\ owner' = [owner EXCEPT ![l] = u]
    /\ crossed' = IF Creating(u) = {h} THEN crossed ELSE crossed \cup {u}
    /\ stranded' = stranded \ {u}
    /\ Await(h, [pc |-> "dispatch", link |-> l])
    /\ UNCHANGED <<registered, verified, used, expired, mailVars>>

\* dispatchVerificationEmail: the job's id is the address and the millisecond,
\* and BullMQ ignores a job whose id it has.
Dispatch(h) ==
    LET l == handler[h].link IN
    /\ At(h, "dispatch")
    /\ \/ Enqueue(l)
       \/ /\ \E k \in Known : owner[k] = owner[l]
          /\ UNCHANGED mailVars
    /\ Return(h)
    /\ UNCHANGED <<linkRows, history>>

\* The queue is unavailable, or its answer is lost: the request sends the mail.
DispatchFails(h) ==
    LET l == handler[h].link IN
    /\ At(h, "dispatch")
    /\ Enqueue(l) \/ UNCHANGED mailVars
    /\ Await(h, [pc |-> "sendNow", link |-> l])
    /\ UNCHANGED <<linkRows, history>>

SendNow(h) ==
    /\ At(h, "sendNow")
    /\ Send(handler[h].link)
    /\ Return(h)
    /\ UNCHANGED <<linkRows, history, left>>

-----------------------------------------------------------------------------
(* Following a link *)

\* verify: the link is found, unused and in time ...
Verify(h, l) ==
    /\ At(h, "idle")
    /\ l \in sent \ (used \cup expired)
    /\ Await(h, [pc |-> "redeem", link |-> l])
    /\ UNCHANGED <<linkRows, history, mailVars>>

\* ... and is used up, whatever has become of it, together with the user's
\* flag.
Redeem(h) ==
    LET l == handler[h].link IN
    /\ At(h, "redeem")
    /\ used' = used \cup {l}
    /\ verified' = verified \cup {owner[l]}
    /\ Return(h)
    /\ UNCHANGED <<registered, owner, expired, history, mailVars>>

-----------------------------------------------------------------------------
(* The environment *)

\* A query rejects, the mail cannot be sent, or the process dies.
Fail(h) ==
    /\ ~At(h, "idle")
    /\ stranded' = stranded \cup {u \in Users : h \in Issuing(u)}
    /\ Return(h)
    /\ UNCHANGED <<linkRows, crossed, mailVars>>

\* EMAIL_VERIFICATION_TTL_HOURS are over for a link.
Expire(l) ==
    /\ owner[l] # NoUser
    /\ l \notin expired
    /\ expired' = expired \cup {l}
    /\ UNCHANGED <<registered, verified, owner, used, handler, history,
                   mailVars>>

RequestStep(h) ==
    \/ \E u \in Users : Register(h, u) \/ Resend(h, u)
    \/ Invalidate(h)
    \/ \E l \in Links : Create(h, l) \/ Verify(h, l)
    \/ Dispatch(h) \/ DispatchFails(h) \/ SendNow(h)
    \/ Redeem(h)
    \/ Fail(h)

LinksNext ==
    \/ \E h \in Handlers : RequestStep(h)
    \/ \E l \in Links : Expire(l)
    \/ MailStep /\ UNCHANGED <<linkRows, handler, history>>

LinksSpec == LinksInit /\ [][LinksNext]_linkVars

\* BullMQ runs what is queued; nothing is asked of requests or the mail server.
LinksFairSpec == LinksSpec /\ \A m \in Messages : WF_mailVars(Work(m))

-----------------------------------------------------------------------------
(* Properties *)

\* The types.
LinksTypeOK ==
    /\ registered \subseteq Users
    /\ verified \subseteq Users
    /\ owner \in [Links -> Users \cup {NoUser}]
    /\ used \subseteq Links
    /\ expired \subseteq Links
    /\ handler \in [Handlers -> Calls]
    /\ crossed \subseteq Users
    /\ stranded \subseteq Users
    /\ MailTypeOK

(***************************************************************************)
(* "Only the latest link works", as the comment in issueAndSend has it:     *)
(* true unless two issuances for one user crossed between their queries,    *)
(* and true again from the next issuance that crosses none.                 *)
(***************************************************************************)
OneGoodLink ==
    \A u \in Users \ crossed : \A l, k \in Good(u) : l = k

(***************************************************************************)
(* Marking the earlier links and creating the new one are not one           *)
(* transaction.  Still a user is without a working link only if the address *)
(* is confirmed, a link has run out, an issuance is under way, or one       *)
(* failed half way.                                                         *)
(***************************************************************************)
LinkAvailable ==
    \A u \in registered \ (verified \cup stranded) :
        \/ Good(u) # {}
        \/ Issuing(u) # {}
        \/ \E l \in expired : owner[l] = u

(***************************************************************************)
(* A queued mail does not stay in the queue for ever: the server takes it,  *)
(* or every attempt has failed, however often the worker dies.              *)
(***************************************************************************)
QueuedIsSettled == \A m \in Messages : (left[m] > 0) ~> (left[m] = 0)

=============================================================================
