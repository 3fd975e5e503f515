---------------------- MODULE SellerApplicationsProofs ----------------------
(***************************************************************************)
(* Proofs about SellerApplications for any number of users and requests,    *)
(* any term and any reminder offsets: type correctness, ApprovedIsSeller,   *)
(* StoresFollowRole, RemindedOnce and ApprovalLasts.                        *)
(***************************************************************************)
EXTENDS SellerApplications, TLAPS

Jobs == {"expire", "remind"}
Writing == {"submitWrite", "withdraw", "approve", "reject"}

\* The worker runs the sweeps and nothing else does.
JobsAreTheWorkers ==
    \A p \in Procs : ~At(p, "idle") => (p = Worker <=> handler[p].pc \in Jobs)

\* A write that is under way began today; if it finds an approved application
\* then that approval is of today too, for the check before it did not.
WritesAreOfToday ==
    \A p \in Handlers :
        handler[p].pc \in Writing =>
            /\ At(p, "approve") => handler[p].now = today
            /\ application[handler[p].user] = "APPROVED"
                => expiresOn[handler[p].user] = today + Term

\* A reminder on the worker's list has not been sent, and its milestone was
\* crossed when the list was made.
Owed(u, k) ==
    /\ application[u] = "APPROVED"
    /\ expiresOn[u] - k <= handler[Worker].now
    /\ remindedOn[u] <= handler[Worker].now
    /\ sent[u][k] = 0

ListIsOwed ==
    At(Worker, "remind") =>
        /\ handler[Worker].now <= today
        /\ \A u \in Users, k \in Offsets :
                <<u, k>> \in handler[Worker].due => Owed(u, k)

\* What has been sent in this approval is marked on the row.
SentIsMarked ==
    \A u \in Users, k \in Offsets :
        (application[u] = "APPROVED" /\ sent[u][k] > 0) => Reminded(u, k)

MarksArePast == \A u \in Users : remindedOn[u] <= today

ReminderInv ==
    /\ TypeOK
    /\ ApprovedIsSeller
    /\ JobsAreTheWorkers
    /\ WritesAreOfToday
    /\ ListIsOwed
    /\ SentIsMarked
    /\ MarksArePast
    /\ RemindedOnce

-----------------------------------------------------------------------------
(* Type correctness *)

\* What a handler has in hand, by the await it is at.
HandsOK ==
    \A p \in Procs :
        /\ handler[p].pc \in Writing \cup {"submit", "openStore"}
            => handler[p].user \in Users
        /\ At(p, "approve") => handler[p].now \in Days
        /\ At(p, "expire") => handler[p].due \in SUBSET Users
        /\ At(p, "remind") => /\ handler[p].now \in Days
                              /\ handler[p].due \in SUBSET (Users \X Offsets)

\* Whatever a handler of the right type is at, it has in hand what it needs.
LEMMA CallsHandsOK ==
    ASSUME handler \in [Procs -> Calls]
    PROVE  HandsOK
<1>1. SUFFICES ASSUME NEW p \in Procs
               PROVE  /\ handler[p].pc \in Writing \cup {"submit", "openStore"}
                            => handler[p].user \in Users
                      /\ At(p, "approve") => handler[p].now \in Days
                      /\ At(p, "expire") => handler[p].due \in SUBSET Users
                      /\ At(p, "remind") =>
                            /\ handler[p].now \in Days
                            /\ handler[p].due \in SUBSET (Users \X Offsets)
  BY DEF HandsOK
<1>2. handler[p] \in Calls
  OBVIOUS
<1>3. QED
  BY <1>2 DEF Calls, Idle, At, Writing

\* The calls a step can leave a handler with.
LEMMA CallTypes ==
    ASSUME NEW u \in Users, NEW n \in Days
    PROVE  /\ Idle \in Calls
           /\ [pc |-> "submit", user |-> u] \in Calls
           /\ [pc |-> "withdraw", user |-> u] \in Calls
           /\ [pc |-> "reject", user |-> u] \in Calls
           /\ [pc |-> "openStore", user |-> u] \in Calls
           /\ \A b \in BOOLEAN :
                [pc |-> "submitWrite", user |-> u, found |-> b] \in Calls
           /\ [pc |-> "approve", user |-> u, now |-> n] \in Calls
BY DEF Calls

\* The jobs a step can leave the worker with.
LEMMA JobTypes ==
    ASSUME NEW n \in Days, NEW D \in SUBSET Users,
           NEW R \in SUBSET (Users \X Offsets)
    PROVE  /\ Idle \in Calls
           /\ [pc |-> "expire", due |-> D] \in Calls
           /\ [pc |-> "remind", now |-> n, due |-> R] \in Calls
BY DEF Calls

\* Every step keeps the types.
LEMMA TypeStep ==
    ASSUME TypeOK, [Next]_vars
    PROVE  TypeOK'
<1> USE DEF TypeOK, applicationRow, stores
<1> HandsOK
  BY CallsHandsOK
<1>1. CASE UNCHANGED vars
  BY <1>1 DEF vars
<1>2. ASSUME NEW p \in Procs, NEW h \in Calls, Await(p, h)
      PROVE  handler' \in [Procs -> Calls]
  BY <1>2 DEF Await
<1>3. ASSUME NEW p \in Procs, Return(p)
      PROVE  handler' \in [Procs -> Calls]
  <2>1. Idle \in Calls
    BY DEF Calls
  <2>2. QED
    BY <1>2, <1>3, <2>1 DEF Return
<1>4. ASSUME NEW p \in Procs, NEW u \in Users, UserRequest(p, u)
      PROVE  TypeOK'
  <2>1. handler' \in [Procs -> Calls]
    BY <1>2, <1>4, CallTypes
       DEF UserRequest, SellerApplicationsController,
         AdminSellerApplicationsController, Submit, Withdraw, Approve, Reject,
         OpenStore
  <2>2. QED
    BY <1>4, <2>1
       DEF UserRequest, SellerApplicationsController,
         AdminSellerApplicationsController, Submit, Withdraw, Approve, Reject,
         OpenStore
<1>5. ASSUME NEW p \in Procs, SubmitRead(p)
      PROVE  TypeOK'
  <2>1. handler[p].user \in Users
    BY <1>5 DEF SubmitRead, HandsOK, At
  <2>2. (application[handler[p].user] # "NONE") \in BOOLEAN
    OBVIOUS
  <2>3. handler' \in [Procs -> Calls]
    <3>1. CASE application[handler[p].user] \in Resubmittable
      <4>1. [pc |-> "submitWrite", user |-> handler[p].user,
             found |-> application[handler[p].user] # "NONE"] \in Calls
        BY <2>1, <2>2 DEF Calls
      <4>2. QED
        BY <1>2, <1>5, <3>1, <4>1 DEF SubmitRead
    <3>2. CASE application[handler[p].user] \notin Resubmittable
      BY <1>3, <1>5, <3>2 DEF SubmitRead, Return
    <3>3. QED
      BY <3>1, <3>2
  <2>4. QED
    BY <1>5, <2>3 DEF SubmitRead
<1>6. ASSUME NEW p \in Procs, SubmitWrite(p)
      PROVE  TypeOK'
  BY <1>3, <1>6 DEF SubmitWrite, Statuses, Dates
<1>7. ASSUME NEW p \in Procs, WithdrawWrite(p) \/ RejectWrite(p)
      PROVE  TypeOK'
  BY <1>3, <1>7 DEF WithdrawWrite, RejectWrite, Statuses
<1>8. ASSUME NEW p \in Procs, ApproveTx(p)
      PROVE  TypeOK'
  <2>1. handler[p].now \in Days
    BY <1>8 DEF ApproveTx, HandsOK
  <2>2. handler[p].now + Term \in Dates
    BY <2>1, TermAssumption, MaxDayAssumption DEF Days, Dates
  <2>3. NothingSent \in [Offsets -> Nat]
    BY DEF NothingSent
  <2>4. handler' \in [Procs -> Calls]
    BY <1>3, <1>8 DEF ApproveTx
  <2>5. QED
    BY <1>8, <2>2, <2>3, <2>4 DEF ApproveTx, Statuses
<1>9. ASSUME NEW p \in Procs, OpenStoreWrite(p)
      PROVE  TypeOK'
  <2>1. handler[p].user \in Users
    BY <1>9 DEF OpenStoreWrite, HandsOK, At
  <2>2. QED
    BY <1>3, <1>9, <2>1 DEF OpenStoreWrite
<1>10. ASSUME NEW p \in Procs, Expire(p)
       PROVE  TypeOK'
  <2>1. [pc |-> "expire", due |-> Lapsed] \in Calls
    BY DEF Lapsed, Calls
  <2>2. QED
    BY <1>2, <1>10, <2>1 DEF Expire
<1>11. ASSUME NEW p \in Procs, NEW u \in Users,
              ExpireOne(p, u) \/ ExpireSkip(p, u)
       PROVE  TypeOK'
  <2>1. [pc |-> "expire", due |-> handler[p].due \ {u}] \in Calls
    BY <1>11 DEF ExpireOne, ExpireSkip, HandsOK, Calls
  <2>2. QED
    BY <1>2, <1>11, <2>1 DEF ExpireOne, ExpireSkip, Close, Statuses
<1>12. ASSUME NEW p \in Procs, Remind(p)
       PROVE  TypeOK'
  <2>1. [pc |-> "remind", now |-> today, due |-> DueReminders] \in Calls
    BY DEF DueReminders, Calls
  <2>2. QED
    BY <1>2, <1>12, <2>1 DEF Remind
<1>13. ASSUME NEW p \in Procs, NEW d \in Users \X Offsets,
              RemindOne(p, d) \/ RemindSkip(p, d)
       PROVE  TypeOK'
  <2>1. handler[p].now \in Days /\ handler[p].due \in SUBSET (Users \X Offsets)
    BY <1>13 DEF RemindOne, RemindSkip, HandsOK
  <2>2. [pc |-> "remind", now |-> handler[p].now,
         due |-> handler[p].due \ {d}] \in Calls
    BY <2>1 DEF Calls
  <2>3. handler' \in [Procs -> Calls]
    BY <1>2, <1>13, <2>2 DEF RemindOne, RemindSkip, NextReminder
  <2>4. sent' \in [Users -> [Offsets -> Nat]]
    <3>1. PICK u \in Users, k \in Offsets : d = <<u, k>>
      OBVIOUS
    <3>2. [sent EXCEPT ![u][k] = @ + 1] \in [Users -> [Offsets -> Nat]]
      <4>1. sent[u] \in [Offsets -> Nat] /\ sent[u][k] + 1 \in Nat
        OBVIOUS
      <4>2. [sent[u] EXCEPT ![k] = @ + 1] \in [Offsets -> Nat]
        BY <4>1
      <4>3. QED
        BY <4>2
    <3>3. d[1] = u /\ d[2] = k
      BY <3>1
    <3>4. QED
      BY <1>13, <3>2, <3>3 DEF RemindOne, RemindSkip
  <2>5. remindedOn' \in [Users -> Days \cup {Never}]
    BY <1>13, <2>1 DEF RemindOne, RemindSkip
  <2>6. QED
    BY <1>13, <2>3, <2>4, <2>5 DEF RemindOne, RemindSkip
<1>14. ASSUME NEW p \in Procs, SweepDone(p) \/ Fail(p)
       PROVE  TypeOK'
  BY <1>3, <1>14 DEF SweepDone, Fail
<1>15. ASSUME NEW u \in Users, CloseStores(u) \/ AdminOpens(u)
       PROVE  TypeOK'
  BY <1>15 DEF CloseStores, AdminOpens, Close
<1>16. CASE NextDay
  BY <1>16, MaxDayAssumption DEF NextDay, Days
<1>17. QED
  BY <1>1, <1>4, <1>5, <1>6, <1>7, <1>8, <1>9, <1>10, <1>11, <1>12, <1>13,
     <1>14, <1>15, <1>16 DEF Next, StoresController, Continue, Proceed

\* The initial state is well typed.
LEMMA TypeInit == Init => TypeOK
BY MaxDayAssumption
   DEF Init, TypeOK, Calls, Days, Dates, NothingSent, Procs

\* The types of applications, dates, roles, stores and pending calls: no
\* interleaving of reviews and sweeps marks a reminder in the future.
THEOREM ApplicationsTyping == Spec => []TypeOK
BY TypeInit, TypeStep, PTL DEF Spec

-----------------------------------------------------------------------------
(* Approval, role and expiry change together *)

\* Every step keeps an approved user a seller with an expiry date.
LEMMA ApprovedStep ==
    ASSUME TypeOK, ApprovedIsSeller, [Next]_vars
    PROVE  ApprovedIsSeller'
<1> USE DEF TypeOK, ApprovedIsSeller, applicationRow
<1> HandsOK
  BY CallsHandsOK
<1>1. CASE UNCHANGED <<application, expiresOn, role>>
  BY <1>1
<1>2. ASSUME NEW p \in Procs, SubmitWrite(p)
      PROVE  ApprovedIsSeller'
  BY <1>2 DEF SubmitWrite
<1>3. ASSUME NEW p \in Procs, WithdrawWrite(p) \/ RejectWrite(p)
      PROVE  ApprovedIsSeller'
  BY <1>3 DEF WithdrawWrite, RejectWrite
<1>4. ASSUME NEW p \in Procs, ApproveTx(p)
      PROVE  ApprovedIsSeller'
  <2>1. handler[p].now + Term # Never
    BY <1>4, TermAssumption DEF ApproveTx, HandsOK, Days, Never
  <2>2. QED
    BY <1>4, <2>1 DEF ApproveTx
<1>5. ASSUME NEW p \in Procs, NEW u \in Users, ExpireOne(p, u)
      PROVE  ApprovedIsSeller'
  BY <1>5 DEF ExpireOne
<1>6. ASSUME [Next]_vars,
             \A p \in Procs : ~(\/ SubmitWrite(p) \/ WithdrawWrite(p)
                                \/ RejectWrite(p) \/ ApproveTx(p)),
             \A p \in Procs, u \in Users : ~ExpireOne(p, u)
      PROVE  UNCHANGED <<application, expiresOn, role>>
  BY <1>6 DEF Next, StoresController, UserRequest, SellerApplicationsController,
         AdminSellerApplicationsController, Submit, Withdraw, Approve, Reject,
         OpenStore,
        Continue, SubmitRead, OpenStoreWrite, Expire, Remind, Proceed,
        ExpireSkip, RemindOne, RemindSkip, SweepDone, Fail, CloseStores,
        AdminOpens, NextDay, vars
<1>7. QED
  BY <1>1, <1>2, <1>3, <1>4, <1>5, <1>6

\* An approved application always goes with the seller's role and an expiry
\* date, for any number of concurrent reviews, withdrawals and sweeps.
THEOREM ApprovedAreSellers == Spec => []ApprovedIsSeller
<1>1. Init => ApprovedIsSeller
  BY DEF Init, ApprovedIsSeller
<1>2. TypeOK /\ ApprovedIsSeller /\ [Next]_vars => ApprovedIsSeller'
  BY ApprovedStep
<1>3. QED
  BY <1>1, <1>2, ApplicationsTyping, PTL DEF Spec

-----------------------------------------------------------------------------
(* The stores go with the role *)

\* Every step keeps active stores with sellers, and with the users in late.
LEMMA StoresStep ==
    ASSUME TypeOK, StoresFollowRole, [Next]_vars
    PROVE  StoresFollowRole'
<1> USE DEF TypeOK, StoresFollowRole, stores
<1> HandsOK
  BY CallsHandsOK
<1>1. CASE UNCHANGED <<role, open, late>>
  BY <1>1
<1>2. ASSUME NEW p \in Procs, ApproveTx(p)
      PROVE  StoresFollowRole'
  <2>1. handler[p].user \in Users
    BY <1>2 DEF ApproveTx, HandsOK, At, Writing
  <2>2. role' = [role EXCEPT ![handler[p].user] = "SELLER"]
    BY <1>2 DEF ApproveTx
  <2>3. UNCHANGED <<open, late>>
    BY <1>2 DEF ApproveTx
  <2>4. QED
    BY <2>1, <2>2, <2>3
<1>3. ASSUME NEW p \in Procs, OpenStoreWrite(p)
      PROVE  StoresFollowRole'
  BY <1>3 DEF OpenStoreWrite
<1>4. ASSUME NEW p \in Procs, NEW u \in Users, ExpireOne(p, u)
      PROVE  StoresFollowRole'
  BY <1>4 DEF ExpireOne, Close
<1>5. ASSUME NEW u \in Users, CloseStores(u)
      PROVE  StoresFollowRole'
  BY <1>5 DEF CloseStores, Close
<1>6. ASSUME NEW u \in Users, AdminOpens(u)
      PROVE  StoresFollowRole'
  BY <1>6 DEF AdminOpens
<1>7. ASSUME \A p \in Procs : ~ApproveTx(p) /\ ~OpenStoreWrite(p),
             \A p \in Procs, u \in Users : ~ExpireOne(p, u),
             \A u \in Users : ~CloseStores(u) /\ ~AdminOpens(u)
      PROVE  UNCHANGED <<role, open, late>>
  BY <1>7 DEF Next, StoresController, UserRequest, SellerApplicationsController,
         AdminSellerApplicationsController, Submit, Withdraw, Approve, Reject,
         OpenStore,
        Continue, SubmitRead, SubmitWrite, WithdrawWrite, RejectWrite, Expire,
        Remind, Proceed, ExpireSkip, RemindOne, RemindSkip, SweepDone, Fail,
        NextDay, vars
<1>8. QED
  BY <1>1, <1>2, <1>3, <1>4, <1>5, <1>6, <1>7

\* Losing the role closes the stores: an active store whose owner is no seller
\* was opened by an admin or by a request older than the loss, for any number
\* of users, requests and sweeps.
THEOREM StoresGoWithRole == Spec => []StoresFollowRole
<1>1. Init => StoresFollowRole
  BY DEF Init, StoresFollowRole
<1>2. TypeOK /\ StoresFollowRole /\ [Next]_vars => StoresFollowRole'
  BY StoresStep
<1>3. QED
  BY <1>1, <1>2, ApplicationsTyping, PTL DEF Spec

-----------------------------------------------------------------------------
(* Reminders *)

\* Only the requests and the worker's sweeps leave a handler at an await.
LEMMA JobsStep ==
    ASSUME TypeOK, JobsAreTheWorkers, [Next]_vars
    PROVE  JobsAreTheWorkers'
<1> USE DEF TypeOK, JobsAreTheWorkers, At, Jobs
<1>1. CASE UNCHANGED handler
  BY <1>1
<1>2. ASSUME NEW p \in Procs, Return(p)
      PROVE  JobsAreTheWorkers'
  BY <1>2 DEF Return, Await, Idle
<1>3. ASSUME NEW p \in Procs, NEW u \in Users, UserRequest(p, u)
      PROVE  JobsAreTheWorkers'
  <2>1. p # Worker
    BY <1>3, WorkerIsNoRequest
       DEF UserRequest, SellerApplicationsController,
         AdminSellerApplicationsController, Submit, Withdraw, Approve, Reject,
         OpenStore
  <2>2. /\ handler'[p].pc \notin {"expire", "remind"}
        /\ \A q \in Procs \ {p} : handler'[q] = handler[q]
    BY <1>3
       DEF UserRequest, SellerApplicationsController,
         AdminSellerApplicationsController, Submit, Withdraw, Approve, Reject,
         OpenStore, Await
  <2>3. QED
    BY <2>1, <2>2
<1>4. ASSUME NEW p \in Procs, SubmitRead(p)
      PROVE  JobsAreTheWorkers'
  <2>1. p # Worker
    BY <1>4 DEF SubmitRead
  <2>2. handler'[p].pc \in {"submitWrite", "idle"}
    BY <1>4 DEF SubmitRead, Await, Idle
  <2>3. QED
    BY <1>4, <2>1, <2>2 DEF SubmitRead, Await
<1>5. ASSUME NEW p \in Procs, Expire(p) \/ Remind(p)
      PROVE  JobsAreTheWorkers'
  BY <1>5 DEF Expire, Remind, Await
<1>6. ASSUME NEW p \in Procs, NEW u \in Users,
             ExpireOne(p, u) \/ ExpireSkip(p, u)
      PROVE  JobsAreTheWorkers'
  BY <1>6 DEF ExpireOne, ExpireSkip, Await
<1>7. ASSUME NEW p \in Procs, NEW d \in Users \X Offsets,
             RemindOne(p, d) \/ RemindSkip(p, d)
      PROVE  JobsAreTheWorkers'
  BY <1>7 DEF RemindOne, RemindSkip, NextReminder, Await
<1>8. QED
  BY <1>1, <1>2, <1>3, <1>4, <1>5, <1>6, <1>7
     DEF Next, StoresController, Continue, SubmitWrite, WithdrawWrite,
        ApproveTx, RejectWrite,
         OpenStoreWrite, Proceed, SweepDone, Fail, CloseStores, AdminOpens,
         NextDay, vars

\* No request is left over at the end of a day, and an approval found by a
\* write that is under way is of the same day.
LEMMA WritesStep ==
    ASSUME TypeOK, JobsAreTheWorkers, WritesAreOfToday, [Next]_vars
    PROVE  WritesAreOfToday'
<1> USE DEF TypeOK, WritesAreOfToday, At, Writing, Procs
<1> HandsOK
  BY CallsHandsOK
<1>1. CASE UNCHANGED <<application, expiresOn, today, handler>>
  BY <1>1
<1>2. ASSUME NEW p \in Procs, Return(p),
             UNCHANGED <<application, expiresOn, today>>
      PROVE  WritesAreOfToday'
  BY <1>2 DEF Return, Await, Idle
<1>3. ASSUME NEW p \in Procs, NEW u \in Users, UserRequest(p, u)
      PROVE  WritesAreOfToday'
  BY <1>3 DEF UserRequest, SellerApplicationsController,
         AdminSellerApplicationsController, Submit, Withdraw, Approve, Reject,
         OpenStore,
              Await, applicationRow
<1>4. ASSUME NEW p \in Procs, SubmitRead(p)
      PROVE  WritesAreOfToday'
  <2>1. handler[p].user \in Users
    BY <1>4 DEF SubmitRead, HandsOK
  <2>2. CASE application[handler[p].user] \in Resubmittable
    BY <1>4, <2>1, <2>2 DEF SubmitRead, Await, applicationRow, Resubmittable
  <2>3. CASE application[handler[p].user] \notin Resubmittable
    BY <1>2, <1>4, <2>3 DEF SubmitRead, Return, applicationRow
  <2>4. QED
    BY <2>2, <2>3
<1>5. ASSUME NEW p \in Procs,
             SubmitWrite(p) \/ WithdrawWrite(p) \/ RejectWrite(p)
      PROVE  WritesAreOfToday'
  BY <1>5 DEF SubmitWrite, WithdrawWrite, RejectWrite, Return, Await, Idle,
              HandsOK, applicationRow
<1>6. ASSUME NEW p \in Procs, ApproveTx(p)
      PROVE  WritesAreOfToday'
  <2>1. p \in Handlers
    BY <1>6 DEF ApproveTx, JobsAreTheWorkers, Jobs
  <2>2. handler[p].now = today
    BY <1>6, <2>1 DEF ApproveTx
  <2>3. QED
    BY <1>6, <2>2 DEF ApproveTx, Return, Await, Idle, HandsOK
<1>7. ASSUME NEW p \in Procs, Expire(p) \/ Remind(p)
      PROVE  WritesAreOfToday'
  BY <1>7 DEF Expire, Remind, Await, applicationRow
<1>8. ASSUME NEW p \in Procs, NEW u \in Users,
             ExpireOne(p, u) \/ ExpireSkip(p, u)
      PROVE  WritesAreOfToday'
  BY <1>8 DEF ExpireOne, ExpireSkip, Await, HandsOK, applicationRow
<1>9. ASSUME NEW p \in Procs, NEW d \in Users \X Offsets,
             RemindOne(p, d) \/ RemindSkip(p, d)
      PROVE  WritesAreOfToday'
  BY <1>9 DEF RemindOne, RemindSkip, NextReminder, Await, applicationRow
<1>10. CASE NextDay
  BY <1>10 DEF NextDay
<1>11. QED
  BY <1>1, <1>2, <1>3, <1>4, <1>5, <1>6, <1>7, <1>8, <1>9, <1>10
     DEF Next, StoresController, Continue, OpenStoreWrite, Proceed, SweepDone,
        Fail,
         CloseStores, AdminOpens, vars, applicationRow

\* Nothing that is under way touches an application on the reminder list.
LEMMA ListIsUndisturbed ==
    ASSUME TypeOK, JobsAreTheWorkers, WritesAreOfToday, ListIsOwed,
           At(Worker, "remind"), NEW u \in Users, NEW k \in Offsets,
           <<u, k>> \in handler[Worker].due,
           NEW p \in Procs, handler[p].pc \in Writing
    PROVE  handler[p].user # u
<1>1. p \in Handlers
  BY DEF JobsAreTheWorkers, Jobs, Writing, At, Procs
<1>2. Owed(u, k) /\ handler[Worker].now <= today
  BY DEF ListIsOwed
<1>3. k \in Int /\ k < Term /\ Term \in Int
  BY OffsetsAssumption, TermAssumption
<1>4. today \in Int /\ expiresOn[u] \in Int /\ handler[Worker].now \in Int
  BY CallsHandsOK, TermAssumption, MaxDayAssumption
     DEF TypeOK, HandsOK, Procs, Days, Dates, Never
<1>5. expiresOn[u] # today + Term
  BY <1>2, <1>3, <1>4 DEF Owed
<1>6. QED
  BY <1>1, <1>2, <1>5 DEF WritesAreOfToday, Owed

\* A list once made stays owed until its items are sent, one by one.
LEMMA ListStep ==
    ASSUME ReminderInv, [Next]_vars
    PROVE  ListIsOwed'
<1> USE DEF ReminderInv, TypeOK, At
<1> HandsOK
  BY CallsHandsOK
<1>a. Worker \in Procs
  BY DEF Procs
<1>1. CASE UNCHANGED <<application, expiresOn, remindedOn, sent, today,
                       handler[Worker]>>
  BY <1>1 DEF ListIsOwed, Owed
<1>2. ASSUME ~At(Worker, "remind")'
      PROVE  ListIsOwed'
  BY <1>2 DEF ListIsOwed
<1>3. ASSUME NEW p \in Procs, Return(p), p = Worker
      PROVE  ListIsOwed'
  BY <1>2, <1>3 DEF Return, Await, Idle
<1>4. ASSUME NEW p \in Procs, NEW u \in Users, UserRequest(p, u)
      PROVE  ListIsOwed'
  <2>1. p # Worker
    BY <1>4, WorkerIsNoRequest
       DEF UserRequest, SellerApplicationsController,
         AdminSellerApplicationsController, Submit, Withdraw, Approve, Reject,
         OpenStore
  <2>2. QED
    BY <1>1, <1>4, <1>a, <2>1
       DEF UserRequest, SellerApplicationsController,
         AdminSellerApplicationsController, Submit, Withdraw, Approve, Reject,
         OpenStore, Await,
           applicationRow
<1>5. ASSUME NEW p \in Procs, SubmitRead(p) \/ OpenStoreWrite(p)
      PROVE  ListIsOwed'
  <2>1. p # Worker
    BY <1>5 DEF SubmitRead, OpenStoreWrite, JobsAreTheWorkers, Jobs
  <2>2. QED
    BY <1>1, <1>5, <1>a, <2>1
       DEF SubmitRead, OpenStoreWrite, Return, Await, applicationRow
<1>6. ASSUME NEW p \in Procs, SubmitWrite(p) \/ WithdrawWrite(p)
                                \/ ApproveTx(p) \/ RejectWrite(p)
      PROVE  ListIsOwed'
  <2>1. handler[p].pc \in Writing /\ p # Worker
    BY <1>6 DEF SubmitWrite, WithdrawWrite, ApproveTx, RejectWrite, Writing,
                JobsAreTheWorkers, Jobs
  <2>2. handler'[Worker] = handler[Worker] /\ today' = today
    BY <1>6, <1>a, <2>1 DEF SubmitWrite, WithdrawWrite, ApproveTx,
                           RejectWrite, Return, Await
  <2>3. ASSUME At(Worker, "remind"), NEW u \in Users, NEW k \in Offsets,
               <<u, k>> \in handler[Worker].due
        PROVE  Owed(u, k)'
    <3>1. handler[p].user # u
      BY <2>1, <2>3, ListIsUndisturbed
    <3>2. /\ application'[u] = application[u]
          /\ expiresOn'[u] = expiresOn[u]
          /\ remindedOn'[u] = remindedOn[u]
          /\ sent'[u] = sent[u]
      BY <1>6, <3>1 DEF SubmitWrite, WithdrawWrite, ApproveTx, RejectWrite,
                        applicationRow
    <3>3. QED
      BY <2>2, <2>3, <3>2 DEF ListIsOwed, Owed
  <2>4. QED
    BY <2>2, <2>3 DEF ListIsOwed
<1>7. ASSUME NEW p \in Procs, Expire(p)
      PROVE  ListIsOwed'
  BY <1>2, <1>7, <1>a DEF Expire, Await
<1>8. ASSUME NEW p \in Procs, NEW u \in Users,
             ExpireOne(p, u) \/ ExpireSkip(p, u)
      PROVE  ListIsOwed'
  <2>1. p = Worker
    BY <1>8 DEF ExpireOne, ExpireSkip, JobsAreTheWorkers, Jobs
  <2>2. QED
    BY <1>2, <1>8, <2>1 DEF ExpireOne, ExpireSkip, Await
<1>9. ASSUME NEW p \in Procs, Remind(p)
      PROVE  ListIsOwed'
  <2>1. /\ handler'[Worker] = [pc |-> "remind", now |-> today,
                               due |-> DueReminders]
        /\ UNCHANGED <<application, expiresOn, remindedOn, today, sent>>
    BY <1>9, <1>a DEF Remind, Await, applicationRow
  <2>2. ASSUME NEW u \in Users, NEW k \in Offsets,
               <<u, k>> \in DueReminders
        PROVE  Owed(u, k)'
    <3>1. application[u] = "APPROVED" /\ MatchOffset(u, k)
      BY <2>2 DEF DueReminders
    <3>2. today >= expiresOn[u] - k /\ ~Reminded(u, k)
      BY <3>1 DEF MatchOffset, Unreminded
    <3>3. sent[u][k] \in Nat /\ ~(sent[u][k] > 0)
      BY <3>1, <3>2 DEF SentIsMarked
    <3>4. remindedOn[u] <= today
      BY DEF MarksArePast
    <3>5. k \in Int /\ today \in Int /\ expiresOn[u] \in Int
      BY OffsetsAssumption, TermAssumption, MaxDayAssumption
         DEF Days, Dates, Never
    <3>6. expiresOn[u] - k <= today /\ sent[u][k] = 0
      BY <3>2, <3>3, <3>5
    <3>7. QED
      BY <2>1, <3>1, <3>4, <3>6 DEF Owed
  <2>3. today <= today
    BY MaxDayAssumption DEF Days
  <2>4. QED
    BY <2>1, <2>2, <2>3 DEF ListIsOwed
<1>10. ASSUME NEW p \in Procs, NEW d \in Users \X Offsets, RemindSkip(p, d)
       PROVE  ListIsOwed'
  <2>1. p = Worker
    BY <1>10 DEF RemindSkip, JobsAreTheWorkers, Jobs
  <2>2. /\ handler'[Worker] = [pc |-> "remind", now |-> handler[Worker].now,
                               due |-> handler[Worker].due \ {d}]
        /\ UNCHANGED <<application, expiresOn, remindedOn, today, sent>>
    BY <1>10, <1>a, <2>1
       DEF RemindSkip, NextReminder, Await, applicationRow
  <2>3. QED
    BY <1>10, <2>1, <2>2 DEF RemindSkip, ListIsOwed, Owed
<1>11. ASSUME NEW p \in Procs, NEW d \in Users \X Offsets, RemindOne(p, d)
       PROVE  ListIsOwed'
  <2>1. p = Worker
    BY <1>11 DEF RemindOne, JobsAreTheWorkers, Jobs
  <2>2. /\ handler'[Worker] = [pc |-> "remind", now |-> handler[Worker].now,
                               due |-> handler[Worker].due \ {d}]
        /\ UNCHANGED <<application, expiresOn, today>>
    BY <1>11, <1>a, <2>1
       DEF RemindOne, NextReminder, Await
  <2>3. ASSUME NEW u \in Users, NEW k \in Offsets,
               <<u, k>> \in handler[Worker].due \ {d}
        PROVE  Owed(u, k)'
    <3>1. Owed(u, k)
      BY <1>11, <2>1, <2>3 DEF RemindOne, ListIsOwed
    <3>2. d # <<u, k>>
      BY <2>3
    <3>3. sent'[u][k] = sent[u][k]
      <4>1. PICK w \in Users, j \in Offsets : d = <<w, j>>
        OBVIOUS
      <4>2. d[1] = w /\ d[2] = j /\ (w # u \/ j # k)
        BY <3>2, <4>1
      <4>3. [sent EXCEPT ![w][j] = @ + 1][u][k] = sent[u][k]
        BY <4>2
      <4>4. QED
        BY <1>11, <4>2, <4>3 DEF RemindOne
    <3>4. remindedOn'[u] <= handler[Worker].now
      <4>1. handler[Worker].now \in Int
        BY <1>11, <2>1, MaxDayAssumption DEF RemindOne, HandsOK, Days
      <4>2. QED
        BY <1>11, <2>1, <3>1, <4>1 DEF RemindOne, Owed
    <3>5. QED
      BY <2>2, <3>1, <3>3, <3>4 DEF Owed
  <2>4. QED
    BY <1>11, <2>1, <2>2, <2>3 DEF RemindOne, ListIsOwed
<1>12. ASSUME NEW p \in Procs, SweepDone(p) \/ Fail(p)
       PROVE  ListIsOwed'
  <2>1. CASE p = Worker
    BY <1>3, <1>12, <2>1 DEF SweepDone, Fail
  <2>2. CASE p # Worker
    BY <1>1, <1>12, <1>a, <2>2
       DEF SweepDone, Fail, Return, Await, applicationRow
  <2>3. QED
    BY <2>1, <2>2
<1>13. ASSUME NEW u \in Users, CloseStores(u) \/ AdminOpens(u)
       PROVE  ListIsOwed'
  BY <1>1, <1>13 DEF CloseStores, AdminOpens, applicationRow
<1>14. CASE NextDay
  <2>1. today \in Int /\ today' = today + 1
    BY <1>14, MaxDayAssumption DEF NextDay, Days
  <2>2. At(Worker, "remind") => handler[Worker].now \in Int
    BY <1>a, MaxDayAssumption DEF HandsOK, Days
  <2>3. QED
    BY <1>14, <2>1, <2>2 DEF NextDay, ListIsOwed, Owed, applicationRow
<1>15. CASE UNCHANGED vars
  BY <1>1, <1>15 DEF vars, applicationRow
<1>16. QED
  BY <1>4, <1>5, <1>6, <1>7, <1>8, <1>9, <1>10, <1>11, <1>12, <1>13, <1>14,
     <1>15 DEF Next, StoresController, Continue, Proceed

\* Reminders are marked with a day that has come.
LEMMA PastStep ==
    ASSUME ReminderInv, [Next]_vars
    PROVE  MarksArePast'
<1> USE DEF ReminderInv, TypeOK, MarksArePast
<1> HandsOK
  BY CallsHandsOK
<1>0. /\ today \in Int
      /\ \A u \in Users : remindedOn[u] \in Int
      /\ Never <= today
  BY MaxDayAssumption DEF Days, Never
<1>1. CASE UNCHANGED <<remindedOn, today>>
  BY <1>1
<1>2. ASSUME NEW p \in Procs, SubmitWrite(p) \/ ApproveTx(p)
      PROVE  MarksArePast'
  BY <1>0, <1>2 DEF SubmitWrite, ApproveTx, applicationRow
<1>3. ASSUME NEW p \in Procs, NEW d \in Users \X Offsets, RemindOne(p, d)
      PROVE  MarksArePast'
  <2>1. At(Worker, "remind") /\ p = Worker
    BY <1>3 DEF RemindOne, JobsAreTheWorkers, Jobs, At
  <2>2. handler[p].now <= today
    BY <2>1 DEF ListIsOwed
  <2>3. QED
    BY <1>3, <2>2 DEF RemindOne
<1>4. CASE NextDay
  BY <1>0, <1>4 DEF NextDay, applicationRow
<1>5. QED
  BY <1>1, <1>2, <1>3, <1>4
     DEF Next, StoresController, UserRequest, SellerApplicationsController,
         AdminSellerApplicationsController, Submit, Withdraw, Approve, Reject,
         OpenStore,
         Continue, SubmitRead, WithdrawWrite, RejectWrite, OpenStoreWrite,
         Expire, Remind, Proceed, ExpireOne, ExpireSkip, RemindSkip,
         SweepDone, Fail, CloseStores, AdminOpens, vars, applicationRow

\* What one round of the reminder sweep changes of sent.
LEMMA SentByRound ==
    ASSUME TypeOK, NEW p \in Procs, NEW w \in Users, NEW j \in Offsets,
           RemindOne(p, <<w, j>>), NEW u \in Users, NEW k \in Offsets
    PROVE  /\ sent'[u][k] = sent[u][k]
                \/ (u = w /\ k = j /\ sent'[u][k] = sent[u][k] + 1)
           /\ remindedOn'[u] = IF u = w THEN handler[p].now ELSE remindedOn[u]
<1>1. sent \in [Users -> [Offsets -> Nat]]
  BY DEF TypeOK
<1>2. [sent EXCEPT ![w][j] = @ + 1][u][k]
        = IF u = w /\ k = j THEN sent[u][k] + 1 ELSE sent[u][k]
  BY <1>1
<1>3. sent' = [sent EXCEPT ![w][j] = @ + 1] \/ sent' = sent
  BY DEF RemindOne
<1>4. remindedOn' = [remindedOn EXCEPT ![w] = handler[p].now]
  BY DEF RemindOne
<1>5. QED
  BY <1>2, <1>3, <1>4 DEF TypeOK

\* Sending a reminder marks its milestone and none that was marked is lost;
\* no reminder is sent again.
LEMMA SentStep ==
    ASSUME ReminderInv, [Next]_vars
    PROVE  SentIsMarked' /\ RemindedOnce'
<1> USE DEF ReminderInv, TypeOK, SentIsMarked, RemindedOnce, Reminded
<1> HandsOK
  BY CallsHandsOK
<1>1. CASE UNCHANGED <<application, expiresOn, remindedOn, sent>>
  BY <1>1
<1>2. ASSUME NEW p \in Procs,
             SubmitWrite(p) \/ WithdrawWrite(p) \/ RejectWrite(p)
      PROVE  SentIsMarked' /\ RemindedOnce'
  BY <1>2 DEF SubmitWrite, WithdrawWrite, RejectWrite, applicationRow
<1>3. ASSUME NEW p \in Procs, ApproveTx(p)
      PROVE  SentIsMarked' /\ RemindedOnce'
  BY <1>3 DEF ApproveTx, NothingSent
<1>4. ASSUME NEW p \in Procs, NEW u \in Users, ExpireOne(p, u)
      PROVE  SentIsMarked' /\ RemindedOnce'
  BY <1>4 DEF ExpireOne
<1>5. ASSUME NEW p \in Procs, NEW d \in Users \X Offsets, RemindOne(p, d)
      PROVE  SentIsMarked' /\ RemindedOnce'
  <2>1. PICK w \in Users, j \in Offsets : d = <<w, j>>
    OBVIOUS
  <2>2. At(Worker, "remind") /\ p = Worker /\ <<w, j>> \in handler[Worker].due
    BY <1>5, <2>1 DEF RemindOne, JobsAreTheWorkers, Jobs, At
  <2>3. Owed(w, j)
    BY <2>2 DEF ListIsOwed
  <2>4. handler[p].now \in Days
    BY <2>2 DEF HandsOK
  <2>5. UNCHANGED <<application, expiresOn>>
    BY <1>5 DEF RemindOne
  <2>6. ASSUME NEW u \in Users, NEW k \in Offsets
        PROVE  /\ sent'[u][k] <= 1
               /\ (application'[u] = "APPROVED" /\ sent'[u][k] > 0)
                    => Reminded(u, k)'
    <3>0. /\ sent[u][k] \in Nat /\ sent[u][k] <= 1
          /\ remindedOn[u] \in Int /\ expiresOn[u] \in Int /\ k \in Int
          /\ handler[p].now \in Int /\ handler[p].now # Never
      BY <2>4, OffsetsAssumption, TermAssumption, MaxDayAssumption
         DEF Days, Dates, Never
    <3>1. /\ sent'[u][k] = sent[u][k]
                \/ (u = w /\ k = j /\ sent'[u][k] = sent[u][k] + 1)
          /\ remindedOn'[u] = IF u = w THEN handler[p].now ELSE remindedOn[u]
      BY <1>5, <2>1, SentByRound
    <3>2. CASE u = w /\ k = j
      BY <2>2, <2>3, <2>5, <3>0, <3>1, <3>2 DEF Owed
    <3>3. CASE u = w /\ k # j
      <4>1. remindedOn[u] <= handler[p].now
        BY <2>2, <2>3, <3>3 DEF Owed
      <4>2. sent'[u][k] = sent[u][k] /\ remindedOn'[u] = handler[p].now
        BY <3>1, <3>3
      <4>3. QED
        BY <2>5, <3>0, <4>1, <4>2
    <3>4. CASE u # w
      BY <2>5, <3>0, <3>1, <3>4
    <3>5. QED
      BY <3>2, <3>3, <3>4
  <2>7. QED
    BY <2>6
<1>6. QED
  BY <1>1, <1>2, <1>3, <1>4, <1>5
     DEF Next, StoresController, UserRequest, SellerApplicationsController,
         AdminSellerApplicationsController, Submit, Withdraw, Approve, Reject,
         OpenStore,
         Continue, SubmitRead, OpenStoreWrite, Expire, Remind, Proceed,
         ExpireSkip, RemindSkip, SweepDone, Fail, CloseStores, AdminOpens,
         NextDay, vars, applicationRow

\* Nothing is under way and nothing was sent at the start.
LEMMA ReminderInit == Init => ReminderInv
<1> SUFFICES ASSUME Init PROVE ReminderInv
  OBVIOUS
<1>1. TypeOK
  BY TypeInit
<1>2. \A p \in Procs : At(p, "idle")
  BY DEF Init, Idle, At
<1>3. JobsAreTheWorkers /\ WritesAreOfToday /\ ListIsOwed
  BY <1>2 DEF JobsAreTheWorkers, WritesAreOfToday, ListIsOwed, At, Writing,
              Procs
<1>4. SentIsMarked /\ ApprovedIsSeller
  BY DEF Init, SentIsMarked, ApprovedIsSeller
<1>5. MarksArePast
  <2>1. today = 0 /\ \A u \in Users : remindedOn[u] = Never
    BY DEF Init
  <2>2. Never <= 0
    BY DEF Never
  <2>3. QED
    BY <2>1, <2>2 DEF MarksArePast
<1>6. RemindedOnce
  BY DEF Init, RemindedOnce, NothingSent
<1>7. QED
  BY <1>1, <1>3, <1>4, <1>5, <1>6 DEF ReminderInv

\* In one approval no milestone is reminded of twice, for any set of offsets
\* shorter than the term, although sweeps are interrupted, run over midnight
\* and overlap with withdrawals, reviews and a new approval.
THEOREM EachMilestoneOnce == Spec => []RemindedOnce
<1>1. ReminderInv /\ [Next]_vars => ReminderInv'
  <2> SUFFICES ASSUME ReminderInv, [Next]_vars PROVE ReminderInv'
    OBVIOUS
  <2>1. TypeOK' /\ ApprovedIsSeller' /\ JobsAreTheWorkers' /\ WritesAreOfToday'
    BY TypeStep, ApprovedStep, JobsStep, WritesStep DEF ReminderInv
  <2>2. ListIsOwed' /\ MarksArePast' /\ SentIsMarked' /\ RemindedOnce'
    BY ListStep, PastStep, SentStep
  <2>3. QED
    BY <2>1, <2>2 DEF ReminderInv
<1>2. ReminderInv => RemindedOnce
  BY DEF ReminderInv
<1>3. QED
  BY <1>1, <1>2, ReminderInit, PTL DEF Spec

-----------------------------------------------------------------------------
(* An approval lasts its term *)

\* What the expiry sweep has on its list has lapsed and is still approved.
ListHasLapsed == At(Worker, "expire") => handler[Worker].due \subseteq Lapsed

LastingInv ==
    /\ TypeOK
    /\ JobsAreTheWorkers
    /\ WritesAreOfToday
    /\ ListHasLapsed

\* Only the sweep ends or moves an approval of an earlier day.
LEMMA OnlyTheSweepEnds ==
    ASSUME LastingInv, [Next]_vars, NEW u \in Users,
           application[u] = "APPROVED", expiresOn[u] # today + Term
    PROVE  \/ application'[u] = "APPROVED" /\ expiresOn'[u] = expiresOn[u]
           \/ ExpireOne(Worker, u)
<1> DEFINE Kept == application'[u] = "APPROVED" /\ expiresOn'[u] = expiresOn[u]
<1> USE DEF LastingInv, TypeOK, At
<1>1. CASE UNCHANGED <<application, expiresOn>>
  BY <1>1
<1>2. ASSUME NEW p \in Procs, handler[p].pc \in Writing
      PROVE  handler[p].user # u
  <2>1. p \in Handlers
    BY <1>2 DEF JobsAreTheWorkers, Jobs, Writing, Procs
  <2>2. QED
    BY <1>2, <2>1 DEF WritesAreOfToday
<1>3. ASSUME NEW p \in Procs,
             SubmitWrite(p) \/ WithdrawWrite(p) \/ ApproveTx(p) \/ RejectWrite(p)
      PROVE  Kept
  BY <1>2, <1>3 DEF SubmitWrite, WithdrawWrite, ApproveTx, RejectWrite, Writing,
                    applicationRow
<1>4. ASSUME NEW p \in Procs, NEW v \in Users, ExpireOne(p, v)
      PROVE  Kept \/ ExpireOne(Worker, u)
  <2>1. p = Worker
    BY <1>4 DEF ExpireOne, JobsAreTheWorkers, Jobs
  <2>2. CASE v = u
    BY <1>4, <2>1, <2>2
  <2>3. CASE v # u
    BY <1>4, <2>3 DEF ExpireOne
  <2>4. QED
    BY <2>2, <2>3
<1>5. ASSUME NEW p \in Procs, NEW d \in Users \X Offsets, RemindOne(p, d)
      PROVE  Kept
  BY <1>5 DEF RemindOne
<1>6. QED
  BY <1>1, <1>3, <1>4, <1>5
     DEF Next, UserRequest, SellerApplicationsController,
         AdminSellerApplicationsController, Submit, Withdraw, Approve, Reject,
         OpenStore, StoresController, Continue, SubmitRead, OpenStoreWrite,
         Expire, Remind, Proceed, ExpireSkip, RemindSkip, SweepDone, Fail,
         CloseStores, AdminOpens, NextDay, vars, applicationRow

\* The list of the sweep is what has lapsed when it is made, and shrinks.
LEMMA ListShrinks ==
    ASSUME LastingInv, [Next]_vars, At(Worker, "expire")'
    PROVE  \/ /\ handler'[Worker].due = Lapsed
              /\ UNCHANGED <<application, expiresOn, today>>
           \/ /\ At(Worker, "expire")
              /\ handler'[Worker].due \subseteq handler[Worker].due
              /\ \A u \in Users :
                    ExpireOne(Worker, u) => u \notin handler'[Worker].due
<1> DEFINE Made == /\ handler'[Worker].due = Lapsed
                   /\ UNCHANGED <<application, expiresOn, today>>
           Shrunk == /\ At(Worker, "expire")
                     /\ handler'[Worker].due \subseteq handler[Worker].due
                     /\ \A u \in Users :
                            ExpireOne(Worker, u) => u \notin handler'[Worker].due
<1> USE DEF LastingInv, TypeOK, At
<1>a. Worker \in Procs
  BY DEF Procs
<1>b. \A u \in Users :
        ExpireOne(Worker, u) =>
            handler'[Worker].due = handler[Worker].due \ {u}
  BY <1>a DEF ExpireOne, Await
<1>1. ASSUME handler'[Worker] = handler[Worker]
      PROVE  Shrunk
  BY <1>1, <1>b
<1>2. ASSUME NEW p \in Procs, p # Worker, NEW call, Await(p, call)
      PROVE  Shrunk
  BY <1>1, <1>2, <1>a DEF Await
<1>3. ASSUME NEW p \in Procs, Return(p)
      PROVE  Shrunk
  <2>1. p # Worker
    BY <1>3, <1>a DEF Return, Await, Idle
  <2>2. QED
    BY <1>2, <1>3, <2>1 DEF Return
<1>4. ASSUME NEW p \in Procs, NEW u \in Users, UserRequest(p, u)
      PROVE  Shrunk
  <2>1. p # Worker
    BY <1>4, WorkerIsNoRequest
       DEF UserRequest, SellerApplicationsController,
           AdminSellerApplicationsController, Submit, Withdraw, Approve, Reject,
           OpenStore
  <2>2. QED
    BY <1>2, <1>4, <2>1
       DEF UserRequest, SellerApplicationsController,
           AdminSellerApplicationsController, Submit, Withdraw, Approve, Reject,
           OpenStore
<1>5. ASSUME NEW p \in Procs, Continue(p)
      PROVE  Shrunk
  <2>1. p # Worker
    BY <1>5, <1>a DEF Continue, SubmitRead, SubmitWrite, WithdrawWrite,
       ApproveTx, RejectWrite, OpenStoreWrite, JobsAreTheWorkers, Jobs
  <2>2. QED
    BY <1>2, <1>3, <1>5, <2>1
       DEF Continue, SubmitRead, SubmitWrite, WithdrawWrite, ApproveTx,
           RejectWrite, OpenStoreWrite
<1>6. ASSUME NEW p \in Procs, Expire(p)
      PROVE  Made
  BY <1>6, <1>a DEF Expire, Await, applicationRow
<1>7. ASSUME NEW p \in Procs, Remind(p)
      PROVE  FALSE
  BY <1>7, <1>a DEF Remind, Await
<1>8. ASSUME NEW p \in Procs, NEW u \in Users,
             ExpireOne(p, u) \/ ExpireSkip(p, u)
      PROVE  Shrunk
  <2>1. p = Worker
    BY <1>8 DEF ExpireOne, ExpireSkip, JobsAreTheWorkers, Jobs
  <2>2. handler'[Worker].due = handler[Worker].due \ {u}
    BY <1>8, <1>a, <2>1 DEF ExpireOne, ExpireSkip, Await
  <2>3. At(Worker, "expire")
    BY <1>8, <2>1 DEF ExpireOne, ExpireSkip
  <2>4. QED
    BY <1>b, <2>2, <2>3
<1>9. ASSUME NEW p \in Procs, NEW d \in Users \X Offsets,
             RemindOne(p, d) \/ RemindSkip(p, d)
      PROVE  FALSE
  <2>1. p = Worker
    BY <1>9 DEF RemindOne, RemindSkip, JobsAreTheWorkers, Jobs
  <2>2. QED
    BY <1>9, <1>a, <2>1 DEF RemindOne, RemindSkip, NextReminder, Await
<1>10. QED
  BY <1>1, <1>3, <1>4, <1>5, <1>6, <1>7, <1>8, <1>9
     DEF Next, StoresController, Proceed, SweepDone, Fail, CloseStores,
         AdminOpens, NextDay, vars

LEMMA LapsedStep ==
    ASSUME LastingInv, [Next]_vars
    PROVE  ListHasLapsed'
<1> USE DEF LastingInv
<1>1. SUFFICES ASSUME At(Worker, "expire")'
               PROVE  handler'[Worker].due \subseteq Lapsed'
  BY DEF ListHasLapsed
<1>2. CASE /\ handler'[Worker].due = Lapsed
           /\ UNCHANGED <<application, expiresOn, today>>
  BY <1>2 DEF Lapsed
<1>3. CASE /\ At(Worker, "expire")
           /\ handler'[Worker].due \subseteq handler[Worker].due
           /\ \A u \in Users :
                ExpireOne(Worker, u) => u \notin handler'[Worker].due
  <2> SUFFICES ASSUME NEW u, u \in handler'[Worker].due
               PROVE  u \in Lapsed'
    OBVIOUS
  <2>1. u \in Lapsed /\ u \in Users /\ ~ExpireOne(Worker, u)
    BY <1>3 DEF ListHasLapsed, Lapsed
  <2>2. /\ today \in Int /\ expiresOn[u] \in Int /\ Term \in Nat \ {0}
        /\ today' \in Int /\ today <= today'
    <3>1. today \in Int /\ expiresOn[u] \in Int /\ Term \in Nat \ {0}
      BY <2>1, TermAssumption, MaxDayAssumption DEF TypeOK, Days, Dates, Never
    <3>2. today' = today \/ today' = today + 1
      BY DEF Next, UserRequest, SellerApplicationsController,
         AdminSellerApplicationsController, Submit, Withdraw, Approve, Reject,
         OpenStore, StoresController, Continue, SubmitRead, SubmitWrite,
         WithdrawWrite, ApproveTx, RejectWrite, OpenStoreWrite, Expire, Remind,
         Proceed, ExpireOne, ExpireSkip, RemindOne, RemindSkip, SweepDone, Fail,
         CloseStores, AdminOpens, NextDay, vars
    <3>3. QED
      BY <3>1, <3>2
  <2>3. application[u] = "APPROVED" /\ expiresOn[u] <= today
        /\ expiresOn[u] # today + Term
    BY <2>1, <2>2 DEF Lapsed
  <2>4. application'[u] = "APPROVED" /\ expiresOn'[u] = expiresOn[u]
    BY <2>1, <2>3, OnlyTheSweepEnds
  <2>5. QED
    BY <2>1, <2>2, <2>3, <2>4 DEF Lapsed
<1>4. QED
  BY <1>1, <1>2, <1>3, ListShrinks

\* From the day after it was given until it lapses an approval stands, with its
\* date, for any term, any number of users, reviewers and requests in flight:
\* provided that no request outlives the day it began.
THEOREM ApprovalsLast == Spec => ApprovalLasts
<1>1. Init => LastingInv
  BY ReminderInit, Worker \in Procs
     DEF LastingInv, ReminderInv, ListHasLapsed, Init, Idle, At, Procs
<1>2. LastingInv /\ [Next]_vars => LastingInv'
  BY TypeStep, JobsStep, WritesStep, LapsedStep DEF LastingInv
<1>3. LastingInv /\ [Next]_vars =>
        [\A u \in Users :
            (/\ application[u] = "APPROVED"
             /\ today < expiresOn[u]
             /\ expiresOn[u] # today + Term)
                => application'[u] = "APPROVED"
                    /\ expiresOn'[u] = expiresOn[u]]_vars
  <2> SUFFICES ASSUME LastingInv, [Next]_vars, NEW u \in Users,
                      application[u] = "APPROVED", today < expiresOn[u],
                      expiresOn[u] # today + Term
               PROVE  application'[u] = "APPROVED"
                        /\ expiresOn'[u] = expiresOn[u]
    OBVIOUS
  <2>1. ASSUME ExpireOne(Worker, u) PROVE FALSE
    <3>1. u \in Lapsed
      BY <2>1 DEF ExpireOne, LastingInv, ListHasLapsed
    <3>2. today \in Int /\ expiresOn[u] \in Int
      BY TermAssumption, MaxDayAssumption
         DEF LastingInv, TypeOK, Days, Dates, Never
    <3>3. QED
      BY <3>1, <3>2 DEF Lapsed
  <2>2. QED
    BY <2>1, OnlyTheSweepEnds
<1>4. QED
  BY <1>1, <1>2, <1>3, PTL DEF Spec, ApprovalLasts

=============================================================================
