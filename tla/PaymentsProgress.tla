-------------------------- MODULE PaymentsProgress --------------------------
(***************************************************************************)
(* What the daily jobs bring about in the end.                              *)
(***************************************************************************)
EXTENDS Payments

\* The worker goes on with the job it has begun.
WorkerStep ==
    \/ ListSince(Worker)
    \/ \E m \in Payments : ScanOne(Worker, m)
    \/ ApplyResult(Worker)
    \/ FindStuck(Worker)
    \/ \E m \in Payments : MarkStuckPaid(Worker, m)
    \/ ReconcileDone(Worker)
    \/ /\ \/ MarkPaid(Worker)
          \/ Confirm(Worker)
          \/ NotifySeller(Worker)
          \/ \E o \in Orders : SweepCancel(Worker, o)
          \/ SweepDone(Worker)
       /\ UNCHANGED payVars

\* A job ends early, or an item of it fails.  (An interruption after its last
\* item is no different from its end.)
WorkerInterrupted ==
    \/ (Crash(Worker) \/ Caught(Worker)) /\ ~WorkerStep
    \/ \E o \in Orders : SweepSkip(Worker, o)

\* BullMQ starts the two daily jobs again and again and runs a started job,
\* and the worker is not interrupted for ever.  Nothing is asked of requests.
JobFairness ==
    /\ SF_vars(Reconcile(Worker))
    /\ SF_vars(Sweep(Worker) /\ UNCHANGED payVars)
    /\ WF_vars(WorkerStep)
    /\ <>[][~WorkerInterrupted]_vars

ProgressSpec == Spec /\ JobFairness

-----------------------------------------------------------------------------
(* Properties *)

\* A payment recorded as SUCCESS does not leave its order waiting for payment
\* for ever, although the process may die between the two updates.
StuckOrdersResolved ==
    \A m \in Payments :
        (payStatus[m] = "SUCCESS" /\ status[OrderOf[m]] = "PENDING_PAYMENT")
            ~> (payStatus[m] # "SUCCESS"
                    \/ status[OrderOf[m]] # "PENDING_PAYMENT")

\* An order left unpaid beyond the grace period does not hold its stock for
\* ever: it is cancelled or paid, although sweeps fail half way, share the
\* worker with reconciliation and race with payments.
AbandonedReleased ==
    \A o \in Orders :
        (status[o] = "PENDING_PAYMENT" /\ o \in aged)
            ~> status[o] # "PENDING_PAYMENT"

\* docs.html.ts: "SUCCESS: PSP confirmed; order has been advanced to
\* CONFIRMED".  At the latest after reconciliation, the order of a payment
\* that stays SUCCESS has been paid.
SuccessAdvancesOrder ==
    \A m \in Payments :
        payStatus[m] = "SUCCESS"
            ~> (payStatus[m] # "SUCCESS" \/ "paidAt" \in stamps[OrderOf[m]])

=============================================================================
