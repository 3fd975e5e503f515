------------------------- MODULE SellerApplications -------------------------
(***************************************************************************)
(* SellerApplicationsService                                                *)
(* (src/src/seller-applications/seller-applications.service.ts): a buyer    *)
(* applies to become a seller, an admin reviews, an approval expires after a *)
(* term and reminders go out before that; and the seller's stores, which    *)
(* need the role to be opened and are closed on expiry.                     *)
(*                                                                          *)
(* As in Orders, every await ends an action and handler[p] keeps what was   *)
(* read before it.  Time is counted in days; a request is served within the *)
(* day in which it began, a job of the worker may run into the next.        *)
(***************************************************************************)
EXTENDS Integers

CONSTANTS
    Users,          \* accounts, none of them an admin; one application each
    Handlers,       \* HTTP requests in flight
    Worker,         \* the BullMQ worker of the KYC queue: one job at a time
    Term,           \* KYC_VERIFICATION_TTL_MONTHS, in days
    Offsets,        \* KYC_REMINDER_OFFSET_DAYS
    MaxDay          \* bound on the days modelled

ASSUME WorkerIsNoRequest == Worker \notin Handlers
ASSUME TermAssumption == Term \in Nat \ {0}
ASSUME MaxDayAssumption == MaxDay \in Nat
\* No reminder is due on the day of the approval.
ASSUME OffsetsAssumption == Offsets \subseteq 1..(Term - 1)

Procs == Handlers \cup {Worker}

VARIABLES
    application,    \* SellerApplication.status, "NONE" before the row exists
    expiresOn,      \* SellerApplication.expiresAt
    remindedOn,     \* SellerApplication.lastReminderAt
    role,           \* User.role
    owned,          \* users who own a store,
    open,           \* and an active one
    today,
    handler,        \* what each handler has in hand at its await
    sent,           \* history: reminders of this approval, per offset,
    late            \* users whose store an admin opened, or a request whose
                    \* role was checked before it was lost

applicationRow == <<application, expiresOn, remindedOn>>
stores == <<owned, open, late>>
vars == <<applicationRow, role, stores, today, handler, sent>>

Statuses == {"PENDING", "APPROVED", "REJECTED", "CANCELLED", "EXPIRED"}
Resubmittable == {"NONE", "REJECTED", "CANCELLED", "EXPIRED"}

Never == -1     \* a date column that is null
Days == 0..MaxDay
Dates == 0..(MaxDay + Term) \cup {Never}

NothingSent == [k \in Offsets |-> 0]

Idle == [pc |-> "idle"]
Calls ==
    {Idle}
    \cup [pc : {"submit", "withdraw", "reject", "openStore"}, user : Users]
    \cup [pc : {"submitWrite"}, user : Users, found : BOOLEAN]
    \cup [pc : {"approve"}, user : Users, now : Days]
    \cup [pc : {"expire"}, due : SUBSET Users]
    \cup [pc : {"remind"}, now : Days, due : SUBSET (Users \X Offsets)]

Await(p, h) == handler' = [handler EXCEPT ![p] = h]
Return(p) == Await(p, Idle)
At(p, pc) == handler[p].pc = pc

\* A user registers as a buyer or as a seller.
Init ==
    /\ application = [u \in Users |-> "NONE"]
    /\ expiresOn = [u \in Users |-> Never]
    /\ remindedOn = [u \in Users |-> Never]
    /\ role \in [Users -> {"BUYER", "SELLER"}]
    /\ owned = {}
    /\ open = {}
    /\ today = 0
    /\ handler = [p \in Procs |-> Idle]
    /\ sent = [u \in Users |-> NothingSent]
    /\ late = {}

-----------------------------------------------------------------------------
(* The applicant *)

\* submit: the caller's role is the one the access-token check read.
Submit(p, u) ==
    /\ p \in Handlers
    /\ At(p, "idle")
    /\ role[u] = "BUYER"
    /\ Await(p, [pc |-> "submit", user |-> u])
    /\ UNCHANGED <<applicationRow, role, stores, today, sent>>

\* Then the application is read; one under review or approved is a conflict.
SubmitRead(p) ==
    LET u == handler[p].user IN
    /\ At(p, "submit")
    /\ Await(p, IF application[u] \in Resubmittable
                THEN [pc |-> "submitWrite", user |-> u,
                      found |-> application[u] # "NONE"]
                ELSE Idle)
    /\ UNCHANGED <<applicationRow, role, stores, today, sent>>

\* The row found is reset by its id, or a row is created; a second row for the
\* same user breaks the unique key and is refused.
SubmitWrite(p) ==
    LET u == handler[p].user IN
    /\ At(p, "submitWrite")
    /\ IF handler[p].found \/ application[u] = "NONE"
       THEN /\ application' = [application EXCEPT ![u] = "PENDING"]
            /\ expiresOn' = [expiresOn EXCEPT ![u] = Never]
            /\ remindedOn' = [remindedOn EXCEPT ![u] = Never]
       ELSE UNCHANGED applicationRow
    /\ Return(p)
    /\ UNCHANGED <<role, stores, today, sent>>

\* cancel: read and check.
Withdraw(p, u) ==
    /\ p \in Handlers
    /\ At(p, "idle")
    /\ application[u] = "PENDING"
    /\ Await(p, [pc |-> "withdraw", user |-> u])
    /\ UNCHANGED <<applicationRow, role, stores, today, sent>>

WithdrawWrite(p) ==
    /\ At(p, "withdraw")
    /\ application' = [application EXCEPT ![handler[p].user] = "CANCELLED"]
    /\ Return(p)
    /\ UNCHANGED <<expiresOn, remindedOn, role, stores, today, sent>>

-----------------------------------------------------------------------------
(* The reviewer *)

Approve(p, u) ==
    /\ p \in Handlers
    /\ At(p, "idle")
    /\ application[u] = "PENDING"
    /\ Await(p, [pc |-> "approve", user |-> u, now |-> today])
    /\ UNCHANGED <<applicationRow, role, stores, today, sent>>

\* Mutant: the role is left to a later update.
ApproveRowOnly(p) ==
    LET u == handler[p].user IN
    /\ At(p, "approve")
    /\ application' = [application EXCEPT ![u] = "APPROVED"]
    /\ expiresOn' = [expiresOn EXCEPT ![u] = handler[p].now + Term]
    /\ remindedOn' = [remindedOn EXCEPT ![u] = Never]
    /\ sent' = [sent EXCEPT ![u] = NothingSent]
    /\ Return(p)
    /\ UNCHANGED <<role, stores, today>>

\* The transaction of approve, by id alone: the row and the user's role.
ApproveTx(p) ==
    LET u == handler[p].user IN
    /\ At(p, "approve")
    /\ application' = [application EXCEPT ![u] = "APPROVED"]
    /\ expiresOn' = [expiresOn EXCEPT ![u] = handler[p].now + Term]
    /\ remindedOn' = [remindedOn EXCEPT ![u] = Never]
    /\ role' = [role EXCEPT ![u] = "SELLER"]
    /\ sent' = [sent EXCEPT ![u] = NothingSent]
    /\ Return(p)
    /\ UNCHANGED <<stores, today>>

Reject(p, u) ==
    /\ p \in Handlers
    /\ At(p, "idle")
    /\ application[u] = "PENDING"
    /\ Await(p, [pc |-> "reject", user |-> u])
    /\ UNCHANGED <<applicationRow, role, stores, today, sent>>

RejectWrite(p) ==
    /\ At(p, "reject")
    /\ application' = [application EXCEPT ![handler[p].user] = "REJECTED"]
    /\ Return(p)
    /\ UNCHANGED <<expiresOn, remindedOn, role, stores, today, sent>>

-----------------------------------------------------------------------------
(* Stores *)

\* StoresService.create, or update with isActive: the guard looks at the role.
OpenStore(p, u) ==
    /\ p \in Handlers
    /\ At(p, "idle")
    /\ role[u] = "SELLER"
    /\ Await(p, [pc |-> "openStore", user |-> u])
    /\ UNCHANGED <<applicationRow, role, stores, today, sent>>

OpenStoreWrite(p) ==
    LET u == handler[p].user IN
    /\ At(p, "openStore")
    /\ owned' = owned \cup {u}
    /\ open' = open \cup {u}
    /\ late' = IF role[u] = "SELLER" THEN late ELSE late \cup {u}
    /\ Return(p)
    /\ UNCHANGED <<applicationRow, role, today, sent>>

Close(u) ==
    /\ open' = open \ {u}
    /\ late' = late \ {u}

\* A seller, or an admin for them, closes or deletes the last active store.
CloseStores(u) ==
    /\ u \in open
    /\ Close(u)
    /\ UNCHANGED owned \/ owned' = owned \ {u}
    /\ UNCHANGED <<applicationRow, role, today, handler, sent>>

\* requireOwnerOrAdmin lets an admin update any store, whoever owns it.
AdminOpens(u) ==
    /\ u \in owned
    /\ open' = open \cup {u}
    /\ late' = late \cup {u}
    /\ UNCHANGED <<applicationRow, role, owned, today, handler, sent>>

-----------------------------------------------------------------------------
(* The expiry sweep *)

\* Mutant: the sweep looks a day ahead.
LapsedTomorrow ==
    {u \in Users : /\ application[u] = "APPROVED"
                   /\ expiresOn[u] # Never
                   /\ expiresOn[u] <= today + 1}

\* The approvals that have run out.
Lapsed == {u \in Users : /\ application[u] = "APPROVED"
                         /\ expiresOn[u] # Never
                         /\ expiresOn[u] <= today}

\* Mutant: an approval on its last day is taken, one past it is missed.
ExpireOnTheDay(p) ==
    LET due == {u \in Lapsed : expiresOn[u] = today} IN
    /\ p = Worker
    /\ At(p, "idle")
    /\ due # {}
    /\ Await(p, [pc |-> "expire", due |-> due])
    /\ UNCHANGED <<applicationRow, role, stores, today, sent>>

\* expireDueApplications reads the lapsed applications once.
Expire(p) ==
    /\ p = Worker
    /\ At(p, "idle")
    /\ Lapsed # {}
    /\ Await(p, [pc |-> "expire", due |-> Lapsed])
    /\ UNCHANGED <<applicationRow, role, stores, today, sent>>

\* Mutant: the stores are left to their owner.
ExpireKeepsStores(p, u) ==
    /\ At(p, "expire")
    /\ u \in handler[p].due
    /\ application' = [application EXCEPT ![u] = "EXPIRED"]
    /\ role' = [role EXCEPT ![u] = "BUYER"]
    /\ Await(p, [pc |-> "expire", due |-> handler[p].due \ {u}])
    /\ UNCHANGED <<expiresOn, remindedOn, stores, today, sent>>

\* One round: row, role and stores in one transaction, without another look.
ExpireOne(p, u) ==
    /\ At(p, "expire")
    /\ u \in handler[p].due
    /\ application' = [application EXCEPT ![u] = "EXPIRED"]
    /\ role' = [role EXCEPT ![u] = "BUYER"]
    /\ Close(u)
    /\ Await(p, [pc |-> "expire", due |-> handler[p].due \ {u}])
    /\ UNCHANGED <<expiresOn, remindedOn, owned, today, sent>>

\* A round whose transaction failed: logged, and the sweep goes on.
ExpireSkip(p, u) ==
    /\ At(p, "expire")
    /\ u \in handler[p].due
    /\ Await(p, [pc |-> "expire", due |-> handler[p].due \ {u}])
    /\ UNCHANGED <<applicationRow, role, stores, today, sent>>

-----------------------------------------------------------------------------
(* The reminder sweep *)

\* matchOffset: the milestones of u that are crossed and not yet reminded of,
\* and the first of them, largest offset first.
Reminded(u, k) ==
    remindedOn[u] # Never /\ remindedOn[u] >= expiresOn[u] - k

Unreminded(u) ==
    {k \in Offsets : today >= expiresOn[u] - k /\ ~Reminded(u, k)}

MatchOffset(u, k) ==
    k \in Unreminded(u) /\ \A j \in Unreminded(u) : j <= k

DueReminders ==
    {d \in Users \X Offsets :
        /\ application[d[1]] = "APPROVED"
        /\ expiresOn[d[1]] > today
        /\ MatchOffset(d[1], d[2])}

\* sendDueReminders reads the candidates once, with their reminder dates.
Remind(p) ==
    /\ p = Worker
    /\ At(p, "idle")
    /\ DueReminders # {}
    /\ Await(p, [pc |-> "remind", now |-> today, due |-> DueReminders])
    /\ UNCHANGED <<applicationRow, role, stores, today, sent>>

NextReminder(p, d) ==
    Await(p, [pc |-> "remind", now |-> handler[p].now,
              due |-> handler[p].due \ {d}])

\* Mutant: the reminder goes out and the row is not updated.
RemindUnrecorded(p, d) ==
    /\ At(p, "remind")
    /\ d \in handler[p].due
    /\ sent' = [sent EXCEPT ![d[1]][d[2]] = @ + 1]
    /\ NextReminder(p, d)
    /\ UNCHANGED <<applicationRow, role, stores, today>>

\* Mutant: the row is marked with the expiry instead of the time of sending.
RemindAtExpiry(p, d) ==
    /\ At(p, "remind")
    /\ d \in handler[p].due
    /\ remindedOn' = [remindedOn EXCEPT ![d[1]] = expiresOn[d[1]]]
    /\ sent' = [sent EXCEPT ![d[1]][d[2]] = @ + 1]
    /\ NextReminder(p, d)
    /\ UNCHANGED <<application, expiresOn, role, stores, today>>

\* One round: the row first, then the email and the SMS, whose enqueue errors
\* are swallowed.
RemindOne(p, d) ==
    /\ At(p, "remind")
    /\ d \in handler[p].due
    /\ remindedOn' = [remindedOn EXCEPT ![d[1]] = handler[p].now]
    /\ \/ sent' = [sent EXCEPT ![d[1]][d[2]] = @ + 1]
       \/ UNCHANGED sent
    /\ NextReminder(p, d)
    /\ UNCHANGED <<application, expiresOn, role, stores, today>>

RemindSkip(p, d) ==
    /\ At(p, "remind")
    /\ d \in handler[p].due
    /\ NextReminder(p, d)
    /\ UNCHANGED <<applicationRow, role, stores, today, sent>>

\* Either sweep ends with its list.
SweepDone(p) ==
    /\ handler[p].pc \in {"expire", "remind"}
    /\ handler[p].due = {}
    /\ Return(p)
    /\ UNCHANGED <<applicationRow, role, stores, today, sent>>

-----------------------------------------------------------------------------
(* The environment *)

Fail(p) ==
    /\ ~At(p, "idle")
    /\ Return(p)
    /\ UNCHANGED <<applicationRow, role, stores, today, sent>>

NextDay ==
    /\ today < MaxDay
    /\ \A p \in Handlers : At(p, "idle")
    /\ today' = today + 1
    /\ UNCHANGED <<applicationRow, role, stores, handler, sent>>

-----------------------------------------------------------------------------
(* What requests may ask for, by the controller that takes them *)

SellerApplicationsController(p, u) == Submit(p, u) \/ Withdraw(p, u)

AdminSellerApplicationsController(p, u) == Approve(p, u) \/ Reject(p, u)

UserRequest(p, u) ==
    \/ SellerApplicationsController(p, u)
    \/ AdminSellerApplicationsController(p, u)
    \/ OpenStore(p, u)

\* The routes of stores that check nothing which could be out of date by the
\* time of the write.
StoresController(u) == CloseStores(u) \/ AdminOpens(u)

Continue(p) ==
    \/ SubmitRead(p)
    \/ SubmitWrite(p)
    \/ WithdrawWrite(p)
    \/ ApproveTx(p)
    \/ RejectWrite(p)
    \/ OpenStoreWrite(p)

\* A round or the end of the job the worker has begun.
Proceed(p) ==
    \/ \E u \in Users : ExpireOne(p, u) \/ ExpireSkip(p, u)
    \/ \E d \in Users \X Offsets : RemindOne(p, d) \/ RemindSkip(p, d)
    \/ SweepDone(p)

Next ==
    \/ \E p \in Procs :
        \/ \E u \in Users : UserRequest(p, u)
        \/ Continue(p)
        \/ Expire(p)
        \/ Remind(p)
        \/ Proceed(p)
        \/ Fail(p)
    \/ \E u \in Users : StoresController(u)
    \/ NextDay

Spec == Init /\ [][Next]_vars

\* The daily expiry sweep is started again and again, a job goes on, and the
\* sweep does not fail on the same application for ever.
ExpiryFairness ==
    /\ SF_vars(Expire(Worker))
    /\ WF_vars(Proceed(Worker))
    /\ \A u \in Users : SF_vars(ExpireOne(Worker, u))

FairSpec == Spec /\ ExpiryFairness

-----------------------------------------------------------------------------
(* Properties *)

TypeOK ==
    /\ application \in [Users -> Statuses \cup {"NONE"}]
    /\ expiresOn \in [Users -> Dates]
    /\ remindedOn \in [Users -> Days \cup {Never}]
    /\ role \in [Users -> {"BUYER", "SELLER"}]
    /\ owned \subseteq Users
    /\ open \subseteq owned
    /\ late \subseteq Users
    /\ today \in Days
    /\ handler \in [Procs -> Calls]
    /\ sent \in [Users -> [Offsets -> Nat]]

\* An approved application is one whose user holds the seller's role and whose
\* expiry the sweep will find, however reviews, withdrawals, resubmissions and
\* sweeps of it race: approvals and expiries are never half visible.
ApprovedIsSeller ==
    \A u \in Users :
        application[u] = "APPROVED" =>
            role[u] = "SELLER" /\ expiresOn[u] # Never

\* docs.html.ts on EXPIRED: the stores are deactivated.  Whoever has lost the
\* role owns no active store, unless an admin opened it, or a request that had
\* its role checked before the expiry and wrote after it.
StoresFollowRole == \A u \in open \ late : role[u] = "SELLER"

\* docs.html.ts: "Each milestone sends once per approval cycle".  At most once:
\* a lost enqueue loses the reminder.
RemindedOnce == \A u \in Users, k \in Offsets : sent[u][k] <= 1

\* An approval outlives the day it was given and then lasts its term, with its
\* date: no review, withdrawal or resubmission that overlapped it, and no sweep
\* that runs into the next day with an old list, ends or moves it before that.
ApprovalLasts ==
    [][\A u \in Users :
        (/\ application[u] = "APPROVED"
         /\ today < expiresOn[u]
         /\ expiresOn[u] # today + Term)
            => application'[u] = "APPROVED" /\ expiresOn'[u] = expiresOn[u]]_vars

\* An approval that has lapsed does not stand for ever, although sweeps die
\* half way and race with reviews.
LapsedExpires ==
    \A u \in Users : u \in Lapsed ~> u \notin Lapsed

=============================================================================
