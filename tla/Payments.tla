------------------------------ MODULE Payments ------------------------------
(***************************************************************************)
(* PaymentsService (src/src/payments/payments.service.ts) over Orders:      *)
(* starting a payment, verification and webhooks, refunds, the daily        *)
(* reconciliation, and the calls they make to OrdersService.  The payment   *)
(* gateways (PSPs) are the environment: psp[m] is what the gateway knows of *)
(* payment m, whatever the local row says.                                  *)
(*                                                                          *)
(* Handlers are those of Orders, with more awaits.  reconcile calls          *)
(* applyResult and markPaid in a loop: job[p] is the state of that loop     *)
(* while handler[p] is the call in progress.                                *)
(***************************************************************************)
EXTENDS Orders, Gateways

CONSTANTS
    Payments,           \* payment rows (their reference), each used once
    Providers,          \* the configured gateways
    OrderOf,            \* Payment.orderId, never updated
    ProviderOf          \* Payment.provider, never updated

ASSUME OrderOfAssumption == OrderOf \in [Payments -> Orders]
ASSUME ProviderAssumption ==
    Providers \subseteq Gateways /\ ProviderOf \in [Payments -> Providers]

VARIABLES
    payStatus,  \* Payment.status, "NONE" before the row exists
    hasRef,     \* payments whose providerRef is set
    psp,        \* the gateway's own record of the transaction
    job         \* the loop of reconcile, per process

payRows == <<payStatus, hasRef>>
payVars == <<payRows, psp, job>>
vars == <<orderVars, payVars>>

PayStatuses == {"NONE", "PENDING", "SUCCESS", "FAILED", "REFUNDED"}

PayCalls ==
    [pc : {"newPayment"}, order : Orders]
    \cup [pc : {"init", "initFailed", "askPsp"}, payment : Payments]
    \cup [pc : {"apply"}, payment : Payments, result : Results, ref : BOOLEAN]
    \cup [pc : {"refund", "refunded"}, payment : Payments,
          cancelOrder : BOOLEAN]

NoJob == [pc |-> "none"]
Jobs ==
    {NoJob}
    \cup [pc : {"scan"}, left : SUBSET Providers, found : SUBSET Payments]
    \cup [pc : {"stuck"}, due : SUBSET Payments]

\* p can take a request or a job; in the loop of reconcile it cannot.
Free(p) == At(p, "idle") /\ job[p] = NoJob
InLoop(p, pc) == At(p, "idle") /\ job[p].pc = pc
Loop(p, j) == job' = [job EXCEPT ![p] = j]

Init ==
    /\ OrdersInit
    /\ payStatus = [m \in Payments |-> "NONE"]
    /\ hasRef = {}
    /\ psp = [m \in Payments |-> "unknown"]
    /\ job = [p \in Procs |-> NoJob]

OrdersUnchanged ==
    UNCHANGED <<onSale, stock, orderRows, aged, restored, notified>>

-----------------------------------------------------------------------------
(* Starting a payment *)

\* initiate: the order is read and must await payment.
Initiate(p, o) ==
    /\ p \in Handlers
    /\ Free(p)
    /\ status[o] = "PENDING_PAYMENT"
    /\ Await(p, [pc |-> "newPayment", order |-> o])
    /\ OrdersUnchanged
    /\ UNCHANGED payVars

CreatePayment(p, m) ==
    /\ At(p, "newPayment")
    /\ payStatus[m] = "NONE"
    /\ OrderOf[m] = handler[p].order
    /\ payStatus' = [payStatus EXCEPT ![m] = "PENDING"]
    /\ Await(p, [pc |-> "init", payment |-> m])
    /\ OrdersUnchanged
    /\ UNCHANGED <<hasRef, psp, job>>

\* provider.init answers: the gateway has opened the transaction.  Storing
\* its response changes nothing that is modelled.
PspInit(p) ==
    /\ At(p, "init")
    /\ psp' = [psp EXCEPT ![handler[p].payment] = "open"]
    /\ Return(p)
    /\ OrdersUnchanged
    /\ UNCHANGED <<payRows, job>>

\* provider.init throws; the gateway may have opened the transaction, but the
\* buyer never gets its checkout page.
PspInitThrows(p) ==
    LET m == handler[p].payment IN
    /\ At(p, "init")
    /\ \/ psp' = [psp EXCEPT ![m] = "orphaned"]
       \/ UNCHANGED psp
    /\ Await(p, [pc |-> "initFailed", payment |-> m])
    /\ OrdersUnchanged
    /\ UNCHANGED <<payRows, job>>

InitFailed(p) ==
    /\ At(p, "initFailed")
    /\ payStatus' = [payStatus EXCEPT ![handler[p].payment] = "FAILED"]
    /\ Return(p)
    /\ OrdersUnchanged
    /\ UNCHANGED <<hasRef, psp, job>>

-----------------------------------------------------------------------------
(* Verification and webhooks *)

\* verify: a payment already SUCCESS or REFUNDED is returned as it is.
Verify(p, m) ==
    /\ p \in Handlers
    /\ Free(p)
    /\ payStatus[m] \in {"PENDING", "FAILED"}
    /\ Await(p, [pc |-> "askPsp", payment |-> m])
    /\ OrdersUnchanged
    /\ UNCHANGED payVars

\* handleWebhook: any event about a transaction the gateway knows, any number
\* of times.  Only SUCCESS is an early return here.
Webhook(p, m) ==
    /\ p \in Handlers
    /\ Free(p)
    /\ Announces(psp[m])
    /\ payStatus[m] \notin {"NONE", "SUCCESS"}
    /\ Await(p, [pc |-> "askPsp", payment |-> m])
    /\ OrdersUnchanged
    /\ UNCHANGED payVars

\* provider.verify.
AskPsp(p) ==
    LET m == handler[p].payment IN
    /\ At(p, "askPsp")
    /\ \E a \in Answers(ProviderOf[m], psp[m]) :
        Await(p, [pc |-> "apply", payment |-> m, result |-> a.result,
                  ref |-> a.ref])
    /\ OrdersUnchanged
    /\ UNCHANGED payVars

Outcome(r) == CASE r = "success" -> "SUCCESS"
                [] r = "failed" -> "FAILED"
                [] OTHER -> "PENDING"

\* Mutant: markPaid is called unless the result is a failure.
ApplyUnlessFailed(p) ==
    LET h == handler[p] IN
    /\ At(p, "apply")
    /\ payStatus' = [payStatus EXCEPT ![h.payment] = Outcome(h.result)]
    /\ hasRef' = IF h.ref THEN hasRef \cup {h.payment} ELSE hasRef
    /\ IF h.result # "failed"
       THEN Await(p, [pc |-> "markPaid", order |-> OrderOf[h.payment]])
       ELSE Return(p)
    /\ OrdersUnchanged
    /\ UNCHANGED <<psp, job>>

\* applyResult: the row takes the result, whatever it says by now; after a
\* success, markPaid is called.
ApplyResult(p) ==
    LET h == handler[p] IN
    /\ At(p, "apply")
    /\ payStatus' = [payStatus EXCEPT ![h.payment] = Outcome(h.result)]
    /\ hasRef' = IF h.ref THEN hasRef \cup {h.payment} ELSE hasRef
    /\ IF h.result = "success"
       THEN Await(p, [pc |-> "markPaid", order |-> OrderOf[h.payment]])
       ELSE Return(p)
    /\ OrdersUnchanged
    /\ UNCHANGED <<psp, job>>

-----------------------------------------------------------------------------
(* Refunds *)

\* refund: the payment and its order are read, the payment must be SUCCESS.
Refund(p, m) ==
    /\ p \in Handlers
    /\ Free(p)
    /\ payStatus[m] = "SUCCESS"
    /\ m \in hasRef
    /\ Await(p, [pc |-> "refund", payment |-> m,
                 cancelOrder |-> status[OrderOf[m]] \in Cancellable])
    /\ OrdersUnchanged
    /\ UNCHANGED payVars

\* provider.refund is accepted once: a reversed transaction is refused.
PspRefund(p) ==
    LET h == handler[p] IN
    /\ At(p, "refund")
    /\ psp[h.payment] = "charged"
    /\ psp' = [psp EXCEPT ![h.payment] = "reversed"]
    /\ \/ Await(p, [pc |-> "refunded", payment |-> h.payment,
                    cancelOrder |-> h.cancelOrder])
       \/ Return(p)     \* the answer is lost: the call throws
    /\ OrdersUnchanged
    /\ UNCHANGED <<payRows, job>>

\* Mutant: the gateway's refusal is not checked.
RefusalIgnored(p) ==
    LET h == handler[p] IN
    /\ At(p, "refund")
    /\ Await(p, [pc |-> "refunded", payment |-> h.payment,
                 cancelOrder |-> h.cancelOrder])
    /\ OrdersUnchanged
    /\ UNCHANGED payVars

PspRefuses(p) ==
    /\ At(p, "refund")
    /\ Return(p)
    /\ OrdersUnchanged
    /\ UNCHANGED payVars

\* Mutant: the order is cancelled by what the refund read of it at first.
RefundWriteCancels(p) ==
    LET h == handler[p] IN
    /\ At(p, "refunded")
    /\ payStatus' = [payStatus EXCEPT ![h.payment] = "REFUNDED"]
    /\ IF h.cancelOrder
       THEN Await(p, [pc |-> "cancel", order |-> OrderOf[h.payment]])
       ELSE Return(p)
    /\ OrdersUnchanged
    /\ UNCHANGED <<hasRef, psp, job>>

\* The row becomes REFUNDED; the order is cancelled if it was cancellable when
\* the refund began.
RefundWrite(p) ==
    LET h == handler[p] IN
    /\ At(p, "refunded")
    /\ payStatus' = [payStatus EXCEPT ![h.payment] = "REFUNDED"]
    /\ IF h.cancelOrder
       THEN Await(p, [pc |-> "cancelByRefund", order |-> OrderOf[h.payment]])
       ELSE Return(p)
    /\ OrdersUnchanged
    /\ UNCHANGED <<hasRef, psp, job>>

-----------------------------------------------------------------------------
(* Reconciliation *)

\* reconcile begins with every configured gateway still to be asked.
Reconcile(p) ==
    /\ Free(p)
    /\ Loop(p, [pc |-> "scan", left |-> Providers, found |-> {}])
    /\ OrdersUnchanged
    /\ UNCHANGED <<handler, payRows, psp>>

\* It is the daily job of the worker, and an admin may have it run at any time
\* beside that.
ReconcileJob(p) == p = Worker /\ Reconcile(p)
TriggerReconcile(p) == p \in Handlers /\ Reconcile(p)

\* listSince of the next gateway.  found is what the loop will act on: among
\* the transactions reported as successful, those in the window, on a page
\* that was fetched, before any error, and of the right amount.
ListSince(p) ==
    /\ InLoop(p, "scan")
    /\ job[p].found = {}
    /\ \E v \in job[p].left :
        \E L \in Yields({m \in Payments : /\ ProviderOf[m] = v
                                         /\ "success" \in Report(v, psp[m])}) :
            Loop(p, [pc |-> "scan", left |-> job[p].left \ {v}, found |-> L])
    /\ OrdersUnchanged
    /\ UNCHANGED <<handler, payRows, psp>>

\* One listed transaction: the row is read, and anything but SUCCESS goes
\* through applyResult.
ScanOne(p, m) ==
    /\ InLoop(p, "scan")
    /\ m \in job[p].found
    /\ Loop(p, [pc |-> "scan", left |-> job[p].left,
                found |-> job[p].found \ {m}])
    /\ Await(p, IF payStatus[m] # "SUCCESS"
                THEN [pc |-> "apply", payment |-> m, result |-> "success",
                      ref |-> TRUE]
                ELSE Idle)
    /\ OrdersUnchanged
    /\ UNCHANGED <<payRows, psp>>

\* Mutant: looks among the payments that are still open.
StuckUnpaid ==
    {m \in Payments : /\ payStatus[m] = "PENDING"
                      /\ status[OrderOf[m]] = "PENDING_PAYMENT"}

Stuck ==
    {m \in Payments : /\ payStatus[m] = "SUCCESS"
                      /\ status[OrderOf[m]] = "PENDING_PAYMENT"}

\* Second pass: the SUCCESS payments whose order is still unpaid.
FindStuck(p) ==
    /\ InLoop(p, "scan")
    /\ job[p].found = {}
    /\ job[p].left = {}
    /\ Loop(p, [pc |-> "stuck", due |-> Stuck])
    /\ OrdersUnchanged
    /\ UNCHANGED <<handler, payRows, psp>>

MarkStuckPaid(p, m) ==
    /\ InLoop(p, "stuck")
    /\ m \in job[p].due
    /\ Loop(p, [pc |-> "stuck", due |-> job[p].due \ {m}])
    /\ Await(p, [pc |-> "markPaid", order |-> OrderOf[m]])
    /\ OrdersUnchanged
    /\ UNCHANGED <<payRows, psp>>

ReconcileDone(p) ==
    /\ InLoop(p, "stuck")
    /\ job[p].due = {}
    /\ Loop(p, NoJob)
    /\ OrdersUnchanged
    /\ UNCHANGED <<handler, payRows, psp>>

-----------------------------------------------------------------------------
(* The environment *)

\* The buyer pays on the gateway's page, at first or after a declined attempt.
BuyerPays(m) ==
    /\ psp[m] \in {"open", "declined"}
    /\ psp' = [psp EXCEPT ![m] = "charged"]
    /\ UNCHANGED <<orderVars, payRows, job>>

BuyerDeclined(m) ==
    /\ psp[m] = "open"
    /\ psp' = [psp EXCEPT ![m] = "declined"]
    /\ UNCHANGED <<orderVars, payRows, job>>

\* The process dies, or a rejection ends the request or the job.
Crash(p) ==
    /\ ~Free(p)
    /\ Return(p)
    /\ Loop(p, NoJob)
    /\ OrdersUnchanged
    /\ UNCHANGED <<payRows, psp>>

\* A rejection that reconcile catches: inside markPaid it goes on with the
\* next item, in applyResult's update it gives up on this gateway's list.
Caught(p) ==
    /\ job[p] # NoJob
    /\ ~At(p, "idle")
    /\ Return(p)
    /\ IF At(p, "apply") /\ job[p].pc = "scan"
       THEN Loop(p, [pc |-> "scan", left |-> job[p].left, found |-> {}])
       ELSE UNCHANGED job
    /\ OrdersUnchanged
    /\ UNCHANGED <<payRows, psp>>

-----------------------------------------------------------------------------
\* OrdersService at work; a process in the loop of reconcile takes no request.
OrderHandlers ==
    /\ OrderStep
    /\ \A p \in Procs :
        (At(p, "idle") /\ job[p] # NoJob) => handler'[p] = handler[p]
    /\ UNCHANGED payVars

\* What a request may ask for, the buyer's, an admin's or a gateway's.
PaymentsController(p) ==
    \/ \E o \in Orders : Initiate(p, o)
    \/ \E m \in Payments : Verify(p, m) \/ Webhook(p, m) \/ Refund(p, m)

PaymentHandler(p) ==
    \/ PaymentsController(p)
    \/ \E m \in Payments : CreatePayment(p, m)
    \/ PspInit(p)
    \/ PspInitThrows(p)
    \/ InitFailed(p)
    \/ AskPsp(p)
    \/ ApplyResult(p)
    \/ PspRefund(p)
    \/ PspRefuses(p)
    \/ RefundWrite(p)
    \/ ReconcileJob(p)
    \/ TriggerReconcile(p)
    \/ ListSince(p)
    \/ \E m \in Payments : ScanOne(p, m)
    \/ FindStuck(p)
    \/ \E m \in Payments : MarkStuckPaid(p, m)
    \/ ReconcileDone(p)
    \/ Crash(p)
    \/ Caught(p)

Next ==
    \/ OrderHandlers
    \/ \E p \in Procs : PaymentHandler(p)
    \/ \E m \in Payments : BuyerPays(m) \/ BuyerDeclined(m)

Spec == Init /\ [][Next]_vars

-----------------------------------------------------------------------------
(* Properties *)

TypeOK ==
    /\ RowsTypeOK
    /\ handler \in [Procs -> OrderCalls \cup PayCalls]
    /\ payStatus \in [Payments -> PayStatuses]
    /\ hasRef \subseteq Payments
    /\ psp \in [Payments -> PspStatuses]
    /\ job \in [Procs -> Jobs]

\* An order counts as paid, is shipped or delivered, only if the buyer's money
\* reached a gateway for a payment of this very order: however webhooks,
\* verifications, refunds and reconciliations of several payments interleave,
\* repeat and fail half way.
PaidOnlyIfCharged ==
    \A o \in Orders :
        "paidAt" \in stamps[o] =>
            \E m \in Payments : OrderOf[m] = o /\ psp[m] \in Moved

\* The local rows never claim money that did not move: SUCCESS only after the
\* gateway charged the buyer, REFUNDED only after it gave the money back.
ClaimsAreBacked ==
    \A m \in Payments :
        /\ payStatus[m] = "SUCCESS" => psp[m] \in Moved
        /\ payStatus[m] = "REFUNDED" => psp[m] = "reversed"

\* What the orders service sees of a process: its own calls.
OrderHandler ==
    [p \in Procs |-> IF handler[p] \in PayCalls THEN Idle ELSE handler[p]]

OrdersAlone == INSTANCE Orders WITH handler <- OrderHandler

\* Whatever the payments service has in hand, is told by a gateway, repeats,
\* drops or finds in reconciliation, it uses orders only through markPaid and
\* cancelByRefund of an order that exists: the two services together are an
\* instance of the orders service alone, so what holds of the one holds here.
ImplementsOrders == OrdersAlone!OrdersSpec

=============================================================================
