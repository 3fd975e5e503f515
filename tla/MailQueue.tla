----------------------------- MODULE MailQueue ------------------------------
(***************************************************************************)
(* The email queue: jobs that requests add to BullMQ                        *)
(* (src/src/queue/queue.module.ts), the worker that runs them               *)
(* (src/src/queue/email.processor.ts), and the mail server behind           *)
(* MailService.  Whatever the message, a job is one call of the mail server *)
(* and is tried again when it throws.                                       *)
(***************************************************************************)
EXTENDS Integers

CONSTANTS
    Messages,
    Attempts        \* defaultJobOptions.attempts

ASSUME AttemptsAssumption == Attempts \in Nat \ {0}

VARIABLES
    left,           \* attempts a queued message has left, 0: not queued
    sent            \* messages the mail server has taken, once or more

mailVars == <<left, sent>>

MailInit ==
    /\ left = [m \in Messages |-> 0]
    /\ sent = {}

\* What the queue has heard of.
Known == {m \in Messages : left[m] > 0} \cup sent

\* Mutant of Enqueue: as many retries as there should be attempts.
EnqueueWithRetries(m) ==
    /\ left' = [left EXCEPT ![m] = Attempts + 1]
    /\ UNCHANGED sent

Enqueue(m) ==
    /\ left' = [left EXCEPT ![m] = Attempts]
    /\ UNCHANGED sent

\* MailService.send.
Send(m) == sent' = sent \cup {m}

-----------------------------------------------------------------------------
(* The worker *)

Process(m) ==
    /\ left[m] > 0
    /\ Send(m)
    /\ left' = [left EXCEPT ![m] = 0]

\* Mutant of AttemptFails: after the last attempt the job is added anew.
AttemptFailsForEver(m) ==
    /\ left[m] > 0
    /\ left' = [left EXCEPT ![m] = IF @ = 1 THEN Attempts ELSE @ - 1]
    /\ UNCHANGED sent \/ Send(m)

\* The server refuses, or its answer is lost.  The last attempt gives up.
AttemptFails(m) ==
    /\ left[m] > 0
    /\ left' = [left EXCEPT ![m] = @ - 1]
    /\ UNCHANGED sent \/ Send(m)

\* The process dies before the job is marked as done, which is then stalled
\* and runs again.
Stalls(m) ==
    /\ left[m] > 0
    /\ Send(m)
    /\ UNCHANGED left

Work(m) == Process(m) \/ AttemptFails(m)

MailStep == \E m \in Messages : Work(m) \/ Stalls(m)

MailTypeOK ==
    /\ left \in [Messages -> 0..Attempts]
    /\ sent \subseteq Messages

=============================================================================
