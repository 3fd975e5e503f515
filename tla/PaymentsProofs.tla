--------------------------- MODULE PaymentsProofs ---------------------------
(***************************************************************************)
(* Proofs about Payments for any number of orders, payments, gateways and   *)
(* handlers: type correctness; that no order counts as paid and no payment  *)
(* as successful unless the gateway took the buyer's money; that the two    *)
(* services together are an instance of the orders service, so that what is *)
(* proved of orders alone holds of both; and what holds of both as long as  *)
(* no two processes have the same order, or the same payment, in hand.      *)
(***************************************************************************)
EXTENDS PaymentPromises, OrdersProofs

Calls == OrderCalls \cup PayCalls

\* The awaits of the payments service.
PayPcs == {"newPayment", "init", "initFailed", "askPsp", "apply", "refund",
           "refunded"}

\* What a handler has in hand at the awaits of the payments service.
PayHandsOK ==
    \A p \in Procs :
        /\ At(p, "newPayment") => handler[p].order \in Orders
        /\ handler[p].pc \in {"init", "initFailed", "askPsp", "apply", "refund",
                              "refunded"} => handler[p].payment \in Payments
        /\ At(p, "apply") => /\ handler[p].result \in Results
                             /\ handler[p].ref \in BOOLEAN
        /\ handler[p].pc \in {"refund", "refunded"}
                => handler[p].cancelOrder \in BOOLEAN

-----------------------------------------------------------------------------
(* The gateways' adapters *)

\* No gateway is understood to report a success unless the money moved.
LEMMA ReportOfMoved ==
    ASSUME NEW v, NEW s, "success" \in Report(v, s)
    PROVE  s \in Moved
<1>1. CASE v = PAYSTACK
  BY <1>1 DEF Report, PaystackWords, paystackStatus, Moved
<1>2. CASE v # PAYSTACK
  <2>1. PICK w \in FlutterwaveWords(s) : flwStatus(w) = "success"
    BY <1>2 DEF Report
  <2>2. w \in {"successful", "success"}
    BY <2>1 DEF flwStatus
  <2>3. QED
    BY <2>1, <2>2 DEF FlutterwaveWords, Moved
<1>3. QED
  BY <1>1, <1>2

LEMMA SuccessIsMoved ==
    ASSUME NEW v, NEW s, NEW a \in Answers(v, s), a.result = "success"
    PROVE  s \in Moved
BY ReportOfMoved DEF Answers, NoData

\* An answer is one of the three results, with or without a reference.
LEMMA AnswersAreResults ==
    ASSUME NEW v, NEW s, NEW a \in Answers(v, s)
    PROVE  a.result \in Results /\ a.ref \in BOOLEAN
<1>1. Report(v, s) \subseteq Results
  BY DEF Report, Results, paystackStatus, flwStatus
<1>2. NoData.result \in Results /\ NoData.ref \in BOOLEAN
  BY DEF NoData, Results
<1>3. CASE a \in {[result |-> r, ref |-> TRUE] : r \in Report(v, s)}
  <2>1. PICK r \in Report(v, s) : a = [result |-> r, ref |-> TRUE]
    BY <1>3
  <2>2. QED
    BY <1>1, <2>1
<1>4. QED
  BY <1>2, <1>3 DEF Answers

-----------------------------------------------------------------------------
(* Types *)

\* A handler of either service is well typed at every await.
LEMMA CallsAreTyped ==
    ASSUME handler \in [Procs -> Calls]
    PROVE  HandsOK /\ PayHandsOK
<1>1. ASSUME NEW p \in Procs
      PROVE  handler[p] \in OrderCalls \/ handler[p] \in PayCalls
  BY DEF Calls
<1>2. HandsOK
  BY <1>1 DEF HandsOK, OrderCalls, PayCalls, Idle, At, OrderHolding
<1>3. PayHandsOK
  BY <1>1 DEF PayHandsOK, OrderCalls, PayCalls, Idle, At
<1>4. QED
  BY <1>2, <1>3

\* A step of the orders handlers is a step of the orders module.
LEMMA OrderHandlersStep ==
    OrderHandlers => OrdersNext /\ UNCHANGED payVars
BY DEF OrderHandlers, OrdersNext

\* The steps of the payments service change no row of the orders module.
LEMMA PaymentHandlerRows ==
    ASSUME NEW p \in Procs, PaymentHandler(p)
    PROVE  OrdersUnchanged
BY DEF PaymentHandler, PaymentsController, ReconcileJob, TriggerReconcile,
   Initiate, CreatePayment, PspInit, PspInitThrows,
       InitFailed, Verify, Webhook, AskPsp, ApplyResult, Refund, PspRefund,
       PspRefuses, RefundWrite, Reconcile, ListSince, ScanOne, FindStuck,
       MarkStuckPaid, ReconcileDone, Crash, Caught

\* Every call a step of the payments service leaves a handler with is a call
\* of one of the two services.
LEMMA PayHandlerStep ==
    ASSUME TypeOK, NEW p \in Procs, PaymentHandler(p)
    PROVE  handler' \in [Procs -> Calls]
<1>1. handler \in [Procs -> Calls] /\ HandsOK /\ PayHandsOK
  BY CallsAreTyped DEF Calls, TypeOK
<1>2. ASSUME NEW h \in Calls, Await(p, h)
      PROVE  handler' \in [Procs -> Calls]
  BY <1>1, <1>2 DEF Await
<1>3. Idle \in Calls
  BY DEF Calls, OrderCalls
<1>4. ASSUME Return(p)
      PROVE  handler' \in [Procs -> Calls]
  BY <1>2, <1>3, <1>4 DEF Return
<1>5. CASE UNCHANGED handler
  BY <1>1, <1>5
<1>6. ASSUME NEW o \in Orders, Initiate(p, o)
      PROVE  handler' \in [Procs -> Calls]
  <2>1. [pc |-> "newPayment", order |-> o] \in Calls
    BY DEF Calls, PayCalls
  <2>2. QED
    BY <1>2, <1>6, <2>1 DEF Initiate
<1>7. ASSUME NEW m \in Payments, CreatePayment(p, m)
      PROVE  handler' \in [Procs -> Calls]
  <2>1. [pc |-> "init", payment |-> m] \in Calls
    BY DEF Calls, PayCalls
  <2>2. QED
    BY <1>2, <1>7, <2>1 DEF CreatePayment
<1>8. CASE PspInitThrows(p)
  <2>1. handler[p].payment \in Payments
    BY <1>1, <1>8 DEF PspInitThrows, PayHandsOK, At
  <2>2. [pc |-> "initFailed", payment |-> handler[p].payment] \in Calls
    BY <2>1 DEF Calls, PayCalls
  <2>3. QED
    BY <1>2, <1>8, <2>2 DEF PspInitThrows
<1>9. ASSUME NEW m \in Payments, Verify(p, m) \/ Webhook(p, m)
      PROVE  handler' \in [Procs -> Calls]
  <2>1. [pc |-> "askPsp", payment |-> m] \in Calls
    BY DEF Calls, PayCalls
  <2>2. QED
    BY <1>2, <1>9, <2>1 DEF Verify, Webhook
<1>10. CASE AskPsp(p)
  <2>1. handler[p].payment \in Payments
    BY <1>1, <1>10 DEF AskPsp, PayHandsOK, At
  <2>2. \A a \in Answers(ProviderOf[handler[p].payment],
                         psp[handler[p].payment]) :
            a.result \in Results /\ a.ref \in BOOLEAN
    BY AnswersAreResults
  <2>3. ASSUME NEW r \in Results, NEW b \in BOOLEAN
        PROVE  [pc |-> "apply", payment |-> handler[p].payment,
                result |-> r, ref |-> b] \in Calls
    BY <2>1 DEF Calls, PayCalls
  <2>4. QED
    BY <1>2, <1>10, <2>2, <2>3 DEF AskPsp
<1>11. CASE ApplyResult(p)
  <2>1. OrderOf[handler[p].payment] \in Orders
    BY <1>1, <1>11, OrderOfAssumption DEF ApplyResult, PayHandsOK, At
  <2>2. [pc |-> "markPaid", order |-> OrderOf[handler[p].payment]] \in Calls
    BY <2>1 DEF Calls, OrderCalls
  <2>3. QED
    BY <1>2, <1>4, <1>11, <2>2 DEF ApplyResult
<1>12. ASSUME NEW m \in Payments, Refund(p, m)
       PROVE  handler' \in [Procs -> Calls]
  <2>1. [pc |-> "refund", payment |-> m,
         cancelOrder |-> status[OrderOf[m]] \in Cancellable] \in PayCalls
    BY DEF PayCalls
  <2>2. [pc |-> "refund", payment |-> m,
         cancelOrder |-> status[OrderOf[m]] \in Cancellable] \in Calls
    BY <2>1 DEF Calls
  <2>3. QED
    BY <1>2, <1>12, <2>1, <2>2 DEF Refund
<1>13. CASE PspRefund(p)
  <2>1. /\ handler[p].payment \in Payments
        /\ handler[p].cancelOrder \in BOOLEAN
    BY <1>1, <1>13 DEF PspRefund, PayHandsOK, At
  <2>2. [pc |-> "refunded", payment |-> handler[p].payment,
         cancelOrder |-> handler[p].cancelOrder] \in Calls
    BY <2>1 DEF Calls, PayCalls
  <2>3. QED
    BY <1>2, <1>4, <1>13, <2>2 DEF PspRefund
<1>14. CASE RefundWrite(p)
  <2>1. OrderOf[handler[p].payment] \in Orders
    BY <1>1, <1>14, OrderOfAssumption DEF RefundWrite, PayHandsOK, At
  <2>2. [pc |-> "cancelByRefund", order |-> OrderOf[handler[p].payment]]
            \in Calls
    BY <2>1 DEF Calls, OrderCalls
  <2>3. QED
    BY <1>2, <1>4, <1>14, <2>2 DEF RefundWrite
<1>15. ASSUME NEW m \in Payments, ScanOne(p, m)
       PROVE  handler' \in [Procs -> Calls]
  <2>1. [pc |-> "apply", payment |-> m, result |-> "success", ref |-> TRUE]
            \in Calls
    BY DEF Calls, PayCalls, Results
  <2>2. QED
    BY <1>2, <1>3, <1>15, <2>1 DEF ScanOne
<1>16. ASSUME NEW m \in Payments, MarkStuckPaid(p, m)
       PROVE  handler' \in [Procs -> Calls]
  <2>1. [pc |-> "markPaid", order |-> OrderOf[m]] \in Calls
    BY OrderOfAssumption DEF Calls, OrderCalls
  <2>2. QED
    BY <1>2, <1>16, <2>1 DEF MarkStuckPaid
<1>17. CASE \/ PspInit(p) \/ InitFailed(p) \/ PspRefuses(p) \/ Crash(p)
            \/ Caught(p)
  BY <1>4, <1>17 DEF PspInit, InitFailed, PspRefuses, Crash, Caught
<1>18. CASE Reconcile(p) \/ ListSince(p) \/ FindStuck(p) \/ ReconcileDone(p)
  BY <1>5, <1>18 DEF Reconcile, ListSince, FindStuck, ReconcileDone
<1>19. QED
  BY <1>6, <1>7, <1>8, <1>9, <1>10, <1>11, <1>12, <1>13, <1>14, <1>15, <1>16,
     <1>17, <1>18 DEF PaymentHandler, PaymentsController, ReconcileJob,
     TriggerReconcile

\* The payment rows and the gateways' records stay in their types.
LEMMA PayRowsStep ==
    ASSUME TypeOK, NEW p \in Procs, PaymentHandler(p)
    PROVE  /\ payStatus' \in [Payments -> PayStatuses]
           /\ hasRef' \subseteq Payments
           /\ psp' \in [Payments -> PspStatuses]
<1> USE DEF payRows
<1> DEFINE Goal == /\ payStatus' \in [Payments -> PayStatuses]
                   /\ hasRef' \subseteq Payments
                   /\ psp' \in [Payments -> PspStatuses]
<1>1. /\ payStatus \in [Payments -> PayStatuses]
      /\ hasRef \subseteq Payments
      /\ psp \in [Payments -> PspStatuses]
  BY DEF TypeOK
<1>2. PayHandsOK
  BY CallsAreTyped DEF Calls, TypeOK
<1>3. ASSUME NEW m \in Payments, CreatePayment(p, m)
      PROVE  Goal
  BY <1>1, <1>3 DEF CreatePayment, PayStatuses
<1>4. CASE PspInit(p)
  BY <1>1, <1>4 DEF PspInit, PspStatuses
<1>5. CASE PspInitThrows(p)
  BY <1>1, <1>5 DEF PspInitThrows, PspStatuses
<1>6. CASE InitFailed(p)
  BY <1>1, <1>6 DEF InitFailed, PayStatuses
<1>7. CASE ApplyResult(p)
  <2>1. handler[p].payment \in Payments
    BY <1>2, <1>7 DEF ApplyResult, PayHandsOK, At
  <2>2. Outcome(handler[p].result) \in PayStatuses
    BY DEF Outcome, PayStatuses
  <2>3. QED
    BY <1>1, <1>7, <2>1, <2>2 DEF ApplyResult
<1>8. CASE PspRefund(p)
  BY <1>1, <1>8 DEF PspRefund, PspStatuses
<1>9. CASE RefundWrite(p)
  BY <1>1, <1>9 DEF RefundWrite, PayStatuses
<1>10. CASE UNCHANGED <<payRows, psp>>
  BY <1>1, <1>10
<1>11. QED
  BY <1>3, <1>4, <1>5, <1>6, <1>7, <1>8, <1>9, <1>10
     DEF PaymentHandler, PaymentsController, ReconcileJob, TriggerReconcile,
        Initiate, Verify, Webhook, AskPsp, Refund, PspRefuses,
         Reconcile, ListSince, ScanOne, FindStuck, MarkStuckPaid,
         ReconcileDone, Crash, Caught, payVars

\* The loop of reconcile stays in its type.
LEMMA JobStep ==
    ASSUME TypeOK, NEW p \in Procs, PaymentHandler(p)
    PROVE  job' \in [Procs -> Jobs]
<1>1. job \in [Procs -> Jobs]
  BY DEF TypeOK
<1>2. ASSUME NEW j \in Jobs, Loop(p, j)
      PROVE  job' \in [Procs -> Jobs]
  BY <1>1, <1>2 DEF Loop
<1>3. NoJob \in Jobs
  BY DEF Jobs
<1>4. ASSUME NEW L \in SUBSET Providers, NEW F \in SUBSET Payments
      PROVE  [pc |-> "scan", left |-> L, found |-> F] \in Jobs
  BY DEF Jobs
<1>5. ASSUME NEW D \in SUBSET Payments
      PROVE  [pc |-> "stuck", due |-> D] \in Jobs
  BY DEF Jobs
<1>6. ASSUME job[p].pc = "scan"
      PROVE  job[p].left \in SUBSET Providers /\ job[p].found \in SUBSET Payments
  BY <1>1, <1>6 DEF Jobs, NoJob
<1>7. ASSUME job[p].pc = "stuck"
      PROVE  job[p].due \in SUBSET Payments
  BY <1>1, <1>7 DEF Jobs, NoJob
<1>8. CASE UNCHANGED job
  BY <1>1, <1>8
<1>9. CASE Reconcile(p)
  BY <1>2, <1>4, <1>9 DEF Reconcile
<1>10. CASE ListSince(p)
  BY <1>2, <1>4, <1>6, <1>10 DEF ListSince, InLoop, Yields
<1>11. ASSUME NEW m \in Payments, ScanOne(p, m)
       PROVE  job' \in [Procs -> Jobs]
  <2>1. job[p].left \in SUBSET Providers
        /\ job[p].found \ {m} \in SUBSET Payments
    BY <1>6, <1>11 DEF ScanOne, InLoop
  <2>2. QED
    BY <1>2, <1>4, <1>11, <2>1 DEF ScanOne
<1>12. CASE FindStuck(p)
  BY <1>2, <1>5, <1>12 DEF FindStuck, Stuck
<1>13. ASSUME NEW m \in Payments, MarkStuckPaid(p, m)
       PROVE  job' \in [Procs -> Jobs]
  <2>1. job[p].due \ {m} \in SUBSET Payments
    BY <1>7, <1>13 DEF MarkStuckPaid, InLoop
  <2>2. QED
    BY <1>2, <1>5, <1>13, <2>1 DEF MarkStuckPaid
<1>14. CASE ReconcileDone(p) \/ Crash(p)
  BY <1>2, <1>3, <1>14 DEF ReconcileDone, Crash
<1>15. CASE Caught(p)
  <2>1. CASE ~(At(p, "apply") /\ job[p].pc = "scan")
    BY <1>8, <1>15, <2>1 DEF Caught
  <2>2. CASE At(p, "apply") /\ job[p].pc = "scan"
    BY <1>2, <1>4, <1>6, <1>15, <2>2 DEF Caught
  <2>3. QED
    BY <2>1, <2>2
<1>16. QED
  BY <1>8, <1>9, <1>10, <1>11, <1>12, <1>13, <1>14, <1>15
     DEF PaymentHandler, PaymentsController, ReconcileJob, TriggerReconcile,
        Initiate, CreatePayment, PspInit, PspInitThrows,
         InitFailed, Verify, Webhook, AskPsp, ApplyResult, Refund, PspRefund,
         PspRefuses, RefundWrite, payVars

\* Every step of payments keeps the types.
LEMMA PaymentsTypeStep ==
    TypeOK /\ [Next]_vars => TypeOK'
<1> SUFFICES ASSUME TypeOK, [Next]_vars
             PROVE  TypeOK'
  OBVIOUS
<1>1. handler \in [Procs -> Calls] /\ RowsTypeOK /\ HandsOK
  BY CallsAreTyped DEF TypeOK, Calls
<1>2. CASE UNCHANGED vars
  BY <1>2 DEF vars, orderVars, orderRows, payVars, payRows, TypeOK, RowsTypeOK
<1>3. CASE OrderHandlers
  <2>1. OrdersNext /\ UNCHANGED payVars
    BY <1>3, OrderHandlersStep
  <2>2. RowsTypeOK'
    BY <1>1, <2>1, RowsStep
  <2>3. handler' \in [Procs -> Calls]
    BY <1>1, <2>1, HandlerStep DEF Calls
  <2>4. QED
    BY <2>1, <2>2, <2>3 DEF TypeOK, Calls, payVars, payRows
<1>4. ASSUME NEW p \in Procs, PaymentHandler(p)
      PROVE  TypeOK'
  <2>1. RowsTypeOK'
    BY <1>1, <1>4, PaymentHandlerRows DEF OrdersUnchanged, orderRows, RowsTypeOK
  <2>2. QED
    BY <1>4, <2>1, PayHandlerStep, PayRowsStep, JobStep DEF TypeOK, Calls
<1>5. ASSUME NEW m \in Payments, BuyerPays(m) \/ BuyerDeclined(m)
      PROVE  TypeOK'
  <2>1. psp' \in [Payments -> PspStatuses]
    BY <1>5 DEF BuyerPays, BuyerDeclined, PspStatuses, TypeOK
  <2>2. UNCHANGED <<orderVars, payRows, job>>
    BY <1>5 DEF BuyerPays, BuyerDeclined
  <2>3. RowsTypeOK'
    BY <1>1, <2>2 DEF RowsTypeOK, orderVars
  <2>4. QED
    BY <2>1, <2>2, <2>3 DEF TypeOK, orderVars, payRows
<1>6. QED
  BY <1>2, <1>3, <1>4, <1>5 DEF Next

\* Type correctness of orders and payments together.
THEOREM PaymentsTyping == Spec => []TypeOK
<1>1. Init => TypeOK
  <2>1. Idle \in OrderCalls /\ NoJob \in Jobs
    BY DEF OrderCalls, Jobs
  <2>2. NoItems \in [Products -> 0..MaxQty]
    BY MaxQtyAssumption DEF NoItems
  <2>3. QED
    BY <2>1, <2>2, SupplyAssumption
       DEF Init, OrdersInit, TypeOK, RowsTypeOK, PayStatuses, PspStatuses
<1>2. QED
  BY <1>1, PaymentsTypeStep, PTL DEF Spec

-----------------------------------------------------------------------------
(* PaidOnlyIfCharged and ClaimsAreBacked *)

\* The two properties are not inductive: a handler or the loop of reconcile
\* carries a claim about the gateway across its awaits.  Each such claim was
\* true when it was picked up, and stays true because a gateway never forgets
\* a charge (PspRemembers).
Charged(o) == \E m \in Payments : OrderOf[m] = o /\ psp[m] \in Moved

RowsBacked ==
    /\ PaidOnlyIfCharged
    /\ ClaimsAreBacked
    /\ \A m \in Payments : payStatus[m] = "NONE" => psp[m] = "unknown"

HandBacked(p) ==
    /\ handler[p].pc \in {"markPaid", "confirm"} => Charged(handler[p].order)
    /\ At(p, "apply") /\ handler[p].result = "success"
            => psp[handler[p].payment] \in Moved
    /\ At(p, "refunded") => psp[handler[p].payment] = "reversed"
    /\ At(p, "init") => /\ psp[handler[p].payment] = "unknown"
                        /\ payStatus[handler[p].payment] # "NONE"

JobBacked(p) ==
    /\ job[p].pc = "scan" => \A m \in job[p].found : psp[m] \in Moved
    /\ job[p].pc = "stuck" => \A m \in job[p].due : psp[m] \in Moved

\* A transaction is opened by one request only.
InitOnce ==
    \A p, r \in Procs :
        (/\ At(p, "init")
         /\ At(r, "init")
         /\ handler[p].payment = handler[r].payment) => p = r

BackedInv ==
    /\ RowsBacked
    /\ \A p \in Procs : HandBacked(p) /\ JobBacked(p)
    /\ InitOnce

\* A gateway never forgets that it was paid, nor that it paid back.
LEMMA PspRemembers ==
    ASSUME TypeOK, BackedInv, [Next]_vars, NEW m \in Payments
    PROVE  /\ psp[m] \in Moved => psp'[m] \in Moved
           /\ psp[m] = "reversed" => psp'[m] = "reversed"
<1> DEFINE Goal == /\ psp[m] \in Moved => psp'[m] \in Moved
                   /\ psp[m] = "reversed" => psp'[m] = "reversed"
<1>1. psp \in [Payments -> PspStatuses]
  BY DEF TypeOK
<1>2. CASE psp' = psp
  BY <1>2
<1>3. ASSUME NEW p \in Procs, PspInit(p) \/ PspInitThrows(p)
      PROVE  Goal
  <2>1. psp[handler[p].payment] = "unknown"
    BY <1>3 DEF PspInit, PspInitThrows, BackedInv, HandBacked
  <2>2. \/ psp' = psp
        \/ psp' = [psp EXCEPT ![handler[p].payment] = "open"]
        \/ psp' = [psp EXCEPT ![handler[p].payment] = "orphaned"]
    BY <1>3 DEF PspInit, PspInitThrows
  <2>3. CASE m = handler[p].payment
    BY <2>1, <2>3 DEF Moved
  <2>4. CASE m # handler[p].payment
    BY <1>1, <2>2, <2>4
  <2>5. QED
    BY <2>3, <2>4
<1>4. ASSUME NEW p \in Procs, PspRefund(p)
      PROVE  Goal
  BY <1>1, <1>4 DEF PspRefund, Moved
<1>5. ASSUME NEW n \in Payments, BuyerPays(n) \/ BuyerDeclined(n)
      PROVE  Goal
  BY <1>1, <1>5 DEF BuyerPays, BuyerDeclined, Moved
<1>6. QED
  BY <1>2, <1>3, <1>4, <1>5
     DEF Next, vars, payVars, payRows, OrderHandlers, PaymentHandler,
        PaymentsController, ReconcileJob, TriggerReconcile, Initiate,
         CreatePayment, InitFailed, Verify, Webhook, AskPsp, ApplyResult,
         Refund, PspRefuses, RefundWrite, Reconcile, ListSince, ScanOne,
         FindStuck, MarkStuckPaid, ReconcileDone, Crash, Caught

\* An order that was paid for stays paid for.
LEMMA ChargedStays ==
    ASSUME TypeOK, BackedInv, [Next]_vars, NEW o
    PROVE  Charged(o) => Charged(o)'
BY PspRemembers DEF Charged

\* A payment whose row does not exist or whose request is still on its way to
\* the gateway is opened by no one else.
LEMMA UnknownStays ==
    ASSUME TypeOK, BackedInv, [Next]_vars, NEW m \in Payments,
           psp[m] = "unknown",
           \A p \in Procs : At(p, "init") /\ handler[p].payment = m =>
                UNCHANGED handler[p]
    PROVE  psp'[m] = "unknown"
<1>1. psp \in [Payments -> PspStatuses] /\ handler \in [Procs -> Calls]
  BY DEF TypeOK, Calls
<1>2. CASE psp' = psp
  BY <1>2
<1>3. ASSUME NEW p \in Procs, PspInit(p) \/ PspInitThrows(p)
      PROVE  psp'[m] = "unknown"
  <2>1. handler'[p].pc # "init" /\ At(p, "init")
    BY <1>1, <1>3 DEF PspInit, PspInitThrows, Await, Return, Idle, At
  <2>2. handler[p].payment # m
    BY <2>1 DEF At
  <2>3. QED
    BY <1>1, <1>3, <2>2 DEF PspInit, PspInitThrows
<1>4. ASSUME NEW p \in Procs, PspRefund(p)
      PROVE  psp'[m] = "unknown"
  BY <1>1, <1>4 DEF PspRefund
<1>5. ASSUME NEW n \in Payments, BuyerPays(n) \/ BuyerDeclined(n)
      PROVE  psp'[m] = "unknown"
  BY <1>1, <1>5 DEF BuyerPays, BuyerDeclined
<1>6. QED
  BY <1>2, <1>3, <1>4, <1>5
     DEF Next, vars, payVars, payRows, OrderHandlers, PaymentHandler,
        PaymentsController, ReconcileJob, TriggerReconcile, Initiate,
         CreatePayment, InitFailed, Verify, Webhook, AskPsp, ApplyResult,
         Refund, PspRefuses, RefundWrite, Reconcile, ListSince, ScanOne,
         FindStuck, MarkStuckPaid, ReconcileDone, Crash, Caught

\* What a step of the orders handlers can do to the claims handlers carry: it
\* starts none of the payments service's calls, and hands an order to confirm
\* only from markPaid.
LEMMA OrderStepCalls ==
    ASSUME TypeOK, OrderStep, NEW p \in Procs
    PROVE  \/ handler'[p] = handler[p]
           \/ handler'[p].pc \notin {"markPaid", "confirm"} \cup PayPcs
           \/ /\ At(p, "markPaid")
              /\ handler'[p] = [pc |-> "confirm", order |-> handler[p].order]
<1> DEFINE Goal ==
        \/ handler'[p] = handler[p]
        \/ handler'[p].pc \notin {"markPaid", "confirm"} \cup PayPcs
        \/ /\ At(p, "markPaid")
           /\ handler'[p] = [pc |-> "confirm", order |-> handler[p].order]
<1> USE DEF PayPcs
<1>1. handler \in [Procs -> Calls]
  BY DEF TypeOK, Calls
<1>2. ASSUME NEW r \in Procs, NEW h, Await(r, h),
             \/ h.pc \notin {"markPaid", "confirm"} \cup PayPcs
             \/ /\ At(r, "markPaid")
                /\ h = [pc |-> "confirm", order |-> handler[r].order]
      PROVE  Goal
  BY <1>1, <1>2 DEF Await
<1>3. ASSUME NEW r \in Procs, Return(r)
      PROVE  Goal
  BY <1>2, <1>3 DEF Return, Idle
<1>4. ASSUME NEW r \in Procs, NEW b \in Baskets, Create(r, b)
      PROVE  Goal
  BY <1>2, <1>4 DEF Create
<1>5. ASSUME NEW r \in Procs, MarkPaid(r)
      PROVE  Goal
  BY <1>2, <1>5 DEF MarkPaid, Idle
<1>6. ASSUME NEW r \in Procs, Confirm(r) \/ CancelByRefund(r) \/ Sweep(r)
      PROVE  Goal
  BY <1>2, <1>6 DEF Confirm, CancelByRefund, Sweep, Idle
<1>7. ASSUME NEW r \in Procs, NEW o \in Orders,
             Cancel(r, o) \/ SweepCancel(r, o) \/ SweepSkip(r, o)
      PROVE  Goal
  BY <1>2, <1>7 DEF Cancel, SweepCancel, SweepSkip
<1>8. ASSUME NEW r \in Procs, NEW o \in Orders, NEW step \in Transitions,
             Transition(r, o, step)
      PROVE  Goal
  BY <1>2, <1>8 DEF Transition
<1>9. ASSUME NEW r \in Procs,
             \/ \E o \in Orders : CreateTx(r, o)
             \/ OutOfStock(r)
             \/ NotifySeller(r)
             \/ TransitionWrite(r)
             \/ CancelTx(r)
             \/ SweepDone(r)
      PROVE  Goal
  BY <1>3, <1>9 DEF CreateTx, OutOfStock, NotifySeller, EnqueueOrderPlaced,
     TransitionWrite,
                    CancelTx, SweepDone
<1>10. CASE UNCHANGED handler
  BY <1>10
<1>11. QED
  BY <1>4, <1>5, <1>6, <1>7, <1>8, <1>9, <1>10 DEF OrderStep, OrdersController,
     Age, Relist

\* paidAt is set by confirm alone.
LEMMA PaidByConfirm ==
    ASSUME TypeOK, OrderStep, NEW o \in Orders, "paidAt" \in stamps'[o]
    PROVE  \/ "paidAt" \in stamps[o]
           \/ \E p \in Procs : At(p, "confirm") /\ handler[p].order = o
<1>1. stamps \in [Orders -> SUBSET Stamps] /\ HandsOK
  BY CallsAreTyped DEF TypeOK, RowsTypeOK, Calls
<1>2. ASSUME NEW p \in Procs, Confirm(p)
      PROVE  \/ "paidAt" \in stamps[o]
             \/ \E r \in Procs : At(r, "confirm") /\ handler[r].order = o
  BY <1>1, <1>2 DEF Confirm
<1>3. ASSUME NEW p \in Procs, TransitionWrite(p)
      PROVE  "paidAt" \in stamps[o]
  <2>1. handler[p].step.stamp # "paidAt"
    BY <1>1, <1>3 DEF TransitionWrite, HandsOK, Transitions
  <2>2. QED
    BY <1>1, <1>3, <2>1 DEF TransitionWrite
<1>4. ASSUME NEW u, CancelInternal(u)
      PROVE  "paidAt" \in stamps[o]
  BY <1>1, <1>4 DEF CancelInternal
<1>5. CASE UNCHANGED stamps
  BY <1>5
<1>6. QED
  BY <1>2, <1>3, <1>4, <1>5
     DEF OrderStep, OrdersController, Create, CreateTx, OutOfStock, MarkPaid,
        NotifySeller, EnqueueOrderPlaced,
         Transition, Cancel, CancelByRefund, CancelTx, Sweep, SweepCancel,
         SweepSkip, SweepDone, Age, Relist, orderRows

\* A payment row is not taken away, and takes its status from what the handler
\* that writes it holds.
LEMMA PayStatusStep ==
    ASSUME TypeOK, BackedInv, [Next]_vars, NEW m \in Payments
    PROVE  /\ payStatus[m] # "NONE" => payStatus'[m] # "NONE"
           /\ payStatus'[m] = "SUCCESS" => psp[m] \in Moved
           /\ payStatus'[m] = "REFUNDED" => psp[m] = "reversed"
<1> DEFINE Goal == /\ payStatus[m] # "NONE" => payStatus'[m] # "NONE"
                   /\ payStatus'[m] = "SUCCESS" => psp[m] \in Moved
                   /\ payStatus'[m] = "REFUNDED" => psp[m] = "reversed"
<1>1. payStatus \in [Payments -> PayStatuses]
  BY DEF TypeOK
<1>2. ClaimsAreBacked
  BY DEF BackedInv, RowsBacked
<1>3. CASE payStatus' = payStatus
  BY <1>2, <1>3 DEF ClaimsAreBacked
<1>4. ASSUME NEW p \in Procs, NEW n \in Payments, CreatePayment(p, n)
      PROVE  Goal
  BY <1>1, <1>2, <1>4 DEF CreatePayment, ClaimsAreBacked
<1>5. ASSUME NEW p \in Procs, InitFailed(p)
      PROVE  Goal
  BY <1>1, <1>2, <1>5 DEF InitFailed, ClaimsAreBacked
<1>6. ASSUME NEW p \in Procs, ApplyResult(p)
      PROVE  Goal
  <2>1. handler[p].result = "success" => psp[handler[p].payment] \in Moved
    BY <1>6 DEF ApplyResult, BackedInv, HandBacked
  <2>2. payStatus' = [payStatus EXCEPT
                        ![handler[p].payment] = Outcome(handler[p].result)]
    BY <1>6 DEF ApplyResult
  <2>3. /\ Outcome(handler[p].result) \notin {"NONE", "REFUNDED"}
        /\ Outcome(handler[p].result) = "SUCCESS"
                => handler[p].result = "success"
    BY DEF Outcome
  <2>4. CASE m = handler[p].payment
    BY <1>1, <2>1, <2>2, <2>3, <2>4
  <2>5. CASE m # handler[p].payment
    BY <1>1, <1>2, <2>2, <2>5 DEF ClaimsAreBacked
  <2>6. QED
    BY <2>4, <2>5
<1>7. ASSUME NEW p \in Procs, RefundWrite(p)
      PROVE  Goal
  <2>1. psp[handler[p].payment] = "reversed"
    BY <1>7 DEF RefundWrite, BackedInv, HandBacked
  <2>2. QED
    BY <1>1, <1>2, <1>7, <2>1 DEF RefundWrite, ClaimsAreBacked
<1>8. QED
  BY <1>3, <1>4, <1>5, <1>6, <1>7
     DEF Next, vars, payVars, payRows, OrderHandlers, PaymentHandler,
        PaymentsController, ReconcileJob, TriggerReconcile, Initiate,
         PspInit, PspInitThrows, Verify, Webhook, AskPsp, Refund, PspRefund,
         PspRefuses, Reconcile, ListSince, ScanOne, FindStuck, MarkStuckPaid,
         ReconcileDone, Crash, Caught, BuyerPays, BuyerDeclined

\* No step writes a row the gateway's record does not back.
LEMMA RowsBackedStep ==
    ASSUME TypeOK, BackedInv, [Next]_vars
    PROVE  RowsBacked'
<1>1. ASSUME NEW o \in Orders, "paidAt" \in stamps'[o]
      PROVE  Charged(o)
  <2>1. CASE stamps' = stamps
    BY <1>1, <2>1 DEF BackedInv, RowsBacked, PaidOnlyIfCharged, Charged
  <2>2. CASE OrderStep
    BY <1>1, <2>2, PaidByConfirm
       DEF BackedInv, RowsBacked, PaidOnlyIfCharged, Charged, HandBacked, At
  <2>3. ASSUME NEW p \in Procs, PaymentHandler(p)
        PROVE  stamps' = stamps
    BY <2>3, PaymentHandlerRows DEF OrdersUnchanged, orderRows
  <2>4. QED
    BY <2>1, <2>2, <2>3 DEF Next, vars, orderVars, OrderHandlers, BuyerPays,
                            BuyerDeclined
<1>2. PaidOnlyIfCharged'
  BY <1>1, ChargedStays DEF PaidOnlyIfCharged, Charged
<1>3. ClaimsAreBacked'
  BY PayStatusStep, PspRemembers DEF ClaimsAreBacked
<1>4. ASSUME NEW m \in Payments, payStatus'[m] = "NONE"
      PROVE  psp'[m] = "unknown"
  <2>1. payStatus[m] = "NONE"
    BY <1>4, PayStatusStep
  <2>2. psp[m] = "unknown"
    BY <2>1 DEF BackedInv, RowsBacked
  <2>3. \A p \in Procs : ~(At(p, "init") /\ handler[p].payment = m)
    BY <2>1 DEF BackedInv, HandBacked
  <2>4. QED
    BY <2>2, <2>3, UnknownStays
<1>5. QED
  BY <1>2, <1>3, <1>4 DEF RowsBacked

\* What a handler claims when it goes on to its next await is true.
LEMMA HandBackedStep ==
    ASSUME TypeOK, BackedInv, [Next]_vars, NEW p \in Procs
    PROVE  HandBacked(p)'
<1>1. handler \in [Procs -> Calls] /\ HandsOK /\ PayHandsOK
  BY CallsAreTyped DEF TypeOK, Calls
<1>2. ASSUME handler'[p] = handler[p]
      PROVE  HandBacked(p)'
  <2>1. At(p, "init") => /\ psp'[handler[p].payment] = "unknown"
                         /\ payStatus'[handler[p].payment] # "NONE"
    <3>1. SUFFICES ASSUME At(p, "init")
                   PROVE  /\ psp'[handler[p].payment] = "unknown"
                          /\ payStatus'[handler[p].payment] # "NONE"
      OBVIOUS
    <3>2. handler[p].payment \in Payments
      BY <1>1, <3>1 DEF PayHandsOK, At
    <3>3. /\ psp[handler[p].payment] = "unknown"
          /\ payStatus[handler[p].payment] # "NONE"
      BY <3>1 DEF BackedInv, HandBacked
    <3>4. \A r \in Procs : At(r, "init")
                /\ handler[r].payment = handler[p].payment => r = p
      BY <3>1 DEF BackedInv, InitOnce
    <3>5. QED
      BY <1>2, <3>2, <3>3, <3>4, UnknownStays, PayStatusStep
  <2>2. handler[p].pc \in {"markPaid", "confirm"}
            => Charged(handler[p].order)'
    BY <1>2, ChargedStays DEF BackedInv, HandBacked, Charged
  <2>3. At(p, "apply") /\ handler[p].result = "success"
            => psp'[handler[p].payment] \in Moved
    BY <1>1, PspRemembers DEF BackedInv, HandBacked, PayHandsOK, At
  <2>4. At(p, "refunded") => psp'[handler[p].payment] = "reversed"
    BY <1>1, PspRemembers DEF BackedInv, HandBacked, PayHandsOK, At
  <2>5. QED
    BY <1>2, <2>1, <2>2, <2>3, <2>4 DEF HandBacked, At, Charged
<1>3. ASSUME handler'[p].pc \notin {"markPaid", "confirm", "apply", "refunded",
                                    "init"}
      PROVE  HandBacked(p)'
  BY <1>3 DEF HandBacked, At
<1>4. ASSUME NEW o \in Orders, Charged(o),
             \/ handler'[p] = [pc |-> "markPaid", order |-> o]
             \/ handler'[p] = [pc |-> "confirm", order |-> o]
      PROVE  HandBacked(p)'
  <2>1. Charged(o)'
    BY <1>4, ChargedStays
  <2>2. QED
    BY <1>4, <2>1 DEF HandBacked, At, Charged
<1>5. CASE OrderStep
  <2>1. CASE /\ At(p, "markPaid")
             /\ handler'[p] = [pc |-> "confirm", order |-> handler[p].order]
    <3>1. handler[p].order \in Orders /\ Charged(handler[p].order)
      BY <1>1, <2>1 DEF HandsOK, OrderHolding, BackedInv, HandBacked, At
    <3>2. QED
      BY <1>4, <2>1, <3>1
  <2>2. QED
    BY <1>2, <1>3, <1>5, <2>1, OrderStepCalls DEF PayPcs
<1>6. ASSUME NEW m \in Payments, CreatePayment(p, m)
      PROVE  HandBacked(p)'
  <2>1. handler'[p] = [pc |-> "init", payment |-> m]
    BY <1>1, <1>6 DEF CreatePayment, Await
  <2>2. psp'[m] = "unknown" /\ payStatus'[m] # "NONE"
    BY <1>6 DEF CreatePayment, BackedInv, RowsBacked, TypeOK
  <2>3. QED
    BY <2>1, <2>2 DEF HandBacked, At
<1>7. CASE AskPsp(p)
  <2> DEFINE m == handler[p].payment
  <2>1. m \in Payments /\ psp' = psp
    BY <1>1, <1>7 DEF AskPsp, PayHandsOK, At, payVars
  <2>2. \A a \in Answers(ProviderOf[m], psp[m]) :
            a.result = "success" => psp[m] \in Moved
    BY SuccessIsMoved
  <2>3. ASSUME NEW r, NEW b, r = "success" => psp[m] \in Moved,
               Await(p, [pc |-> "apply", payment |-> m, result |-> r,
                         ref |-> b])
        PROVE  HandBacked(p)'
    <3>1. handler'[p] = [pc |-> "apply", payment |-> m, result |-> r, ref |-> b]
      BY <1>1, <2>3 DEF Await
    <3> HIDE DEF m
    <3>2. QED
      BY <2>1, <2>3, <3>1 DEF HandBacked, At
  <2>4. QED
    BY <1>7, <2>2, <2>3 DEF AskPsp
<1>8. CASE ApplyResult(p)
  <2> DEFINE m == handler[p].payment
  <2>1. m \in Payments /\ OrderOf[m] \in Orders
    BY <1>1, <1>8, OrderOfAssumption DEF ApplyResult, PayHandsOK, At
  <2>2. CASE handler[p].result = "success"
    <3>1. Charged(OrderOf[m])
      BY <1>8, <2>1, <2>2 DEF ApplyResult, BackedInv, HandBacked, Charged
    <3>2. handler'[p] = [pc |-> "markPaid", order |-> OrderOf[m]]
      BY <1>1, <1>8, <2>2 DEF ApplyResult, Await
    <3>3. QED
      BY <1>4, <2>1, <3>1, <3>2
  <2>3. CASE handler[p].result # "success"
    BY <1>1, <1>3, <1>8, <2>3 DEF ApplyResult, Return, Await, Idle
  <2>4. QED
    BY <2>2, <2>3
<1>9. CASE PspRefund(p)
  <2> DEFINE m == handler[p].payment
  <2>1. m \in Payments
    BY <1>1, <1>9 DEF PspRefund, PayHandsOK, At
  <2>2. psp'[m] = "reversed"
    BY <1>9, <2>1 DEF PspRefund, TypeOK
  <2>3. CASE Return(p)
    BY <1>1, <1>3, <2>3 DEF Return, Await, Idle
  <2>4. CASE Await(p, [pc |-> "refunded", payment |-> m,
                       cancelOrder |-> handler[p].cancelOrder])
    <3>1. handler'[p] = [pc |-> "refunded", payment |-> m,
                         cancelOrder |-> handler[p].cancelOrder]
      BY <1>1, <2>4 DEF Await
    <3> HIDE DEF m
    <3>2. QED
      BY <2>2, <3>1 DEF HandBacked, At
  <2>5. QED
    BY <1>9, <2>3, <2>4 DEF PspRefund
<1>10. ASSUME NEW m \in Payments, ScanOne(p, m)
       PROVE  HandBacked(p)'
  <2>1. psp[m] \in Moved /\ psp' = psp
    BY <1>10 DEF ScanOne, InLoop, BackedInv, JobBacked
  <2>2. \/ handler'[p] = [pc |-> "apply", payment |-> m, result |-> "success",
                          ref |-> TRUE]
        \/ handler'[p] = Idle
    BY <1>1, <1>10 DEF ScanOne, Await
  <2>3. QED
    BY <2>1, <2>2 DEF HandBacked, At, Idle
<1>11. ASSUME NEW m \in Payments, MarkStuckPaid(p, m)
       PROVE  HandBacked(p)'
  <2>1. Charged(OrderOf[m])
    BY <1>11 DEF MarkStuckPaid, InLoop, BackedInv, JobBacked, Charged
  <2>2. OrderOf[m] \in Orders
    BY OrderOfAssumption
  <2>3. QED
    BY <1>1, <1>4, <1>11, <2>1, <2>2 DEF MarkStuckPaid, Await
<1>12. ASSUME \/ \E o \in Orders : Initiate(p, o)
              \/ PspInit(p)
              \/ PspInitThrows(p)
              \/ InitFailed(p)
              \/ \E m \in Payments : Verify(p, m) \/ Webhook(p, m) \/ Refund(p, m)
              \/ PspRefuses(p)
              \/ RefundWrite(p)
              \/ Crash(p)
              \/ Caught(p)
       PROVE  HandBacked(p)'
  BY <1>1, <1>3, <1>12
     DEF Initiate, PspInit, PspInitThrows, InitFailed, Verify, Webhook, Refund,
         PspRefuses, RefundWrite, Crash, Caught, Return, Await, Idle
<1>13. ASSUME NEW r \in Procs, PaymentHandler(r), r # p
       PROVE  handler'[p] = handler[p]
  BY <1>1, <1>13
     DEF PaymentHandler, PaymentsController, ReconcileJob, TriggerReconcile,
        Initiate, CreatePayment, PspInit, PspInitThrows,
         InitFailed, Verify, Webhook, AskPsp, ApplyResult, Refund, PspRefund,
         PspRefuses, RefundWrite, Reconcile, ListSince, ScanOne, FindStuck,
         MarkStuckPaid, ReconcileDone, Crash, Caught, Return, Await
<1>14. CASE PaymentHandler(p)
  BY <1>2, <1>6, <1>7, <1>8, <1>9, <1>10, <1>11, <1>12, <1>14
     DEF PaymentHandler, PaymentsController, ReconcileJob, TriggerReconcile,
        Reconcile, ListSince, FindStuck, ReconcileDone
<1>15. QED
  BY <1>2, <1>5, <1>13, <1>14
     DEF Next, vars, orderVars, OrderHandlers, BuyerPays, BuyerDeclined

\* What the loop of reconcile goes through was charged.
LEMMA JobBackedStep ==
    ASSUME TypeOK, BackedInv, [Next]_vars, NEW p \in Procs
    PROVE  JobBacked(p)'
<1>1. job \in [Procs -> Jobs]
  BY DEF TypeOK
<1>2. ASSUME NEW L, NEW F \in SUBSET Payments, \A m \in F : psp[m] \in Moved,
             job'[p] = [pc |-> "scan", left |-> L, found |-> F]
      PROVE  JobBacked(p)'
  BY <1>2, PspRemembers DEF JobBacked
<1>3. ASSUME NEW D \in SUBSET Payments, \A m \in D : psp[m] \in Moved,
             job'[p] = [pc |-> "stuck", due |-> D]
      PROVE  JobBacked(p)'
  BY <1>3, PspRemembers DEF JobBacked
<1>4. ASSUME job'[p] = NoJob
      PROVE  JobBacked(p)'
  BY <1>4 DEF JobBacked, NoJob
<1>5. CASE job'[p] = job[p]
  <2>1. CASE job[p].pc = "scan"
    <3>1. /\ job[p].found \in SUBSET Payments
          /\ \A m \in job[p].found : psp[m] \in Moved
          /\ job[p].pc # "stuck"
      BY <1>1, <2>1 DEF Jobs, NoJob, BackedInv, JobBacked
    <3>2. QED
      BY <1>5, <3>1, PspRemembers DEF JobBacked
  <2>2. CASE job[p].pc = "stuck"
    <3>1. /\ job[p].due \in SUBSET Payments
          /\ \A m \in job[p].due : psp[m] \in Moved
          /\ job[p].pc # "scan"
      BY <1>1, <2>2 DEF Jobs, NoJob, BackedInv, JobBacked
    <3>2. QED
      BY <1>5, <3>1, PspRemembers DEF JobBacked
  <2>3. CASE job[p].pc \notin {"scan", "stuck"}
    BY <1>5, <2>3 DEF JobBacked
  <2>4. QED
    BY <2>1, <2>2, <2>3
<1>6. CASE Reconcile(p)
  BY <1>1, <1>2, <1>6 DEF Reconcile, Loop
<1>7. CASE ListSince(p)
  <2>1. PICK v \in job[p].left :
            \E L \in SUBSET {m \in Payments :
                             /\ ProviderOf[m] = v
                             /\ "success" \in Report(v, psp[m])} :
                Loop(p, [pc |-> "scan", left |-> job[p].left \ {v},
                         found |-> L])
    BY <1>7 DEF ListSince, Yields
  <2>2. PICK L \in SUBSET {m \in Payments :
                          /\ ProviderOf[m] = v
                          /\ "success" \in Report(v, psp[m])} :
            Loop(p, [pc |-> "scan", left |-> job[p].left \ {v}, found |-> L])
    BY <2>1
  <2>3. \A m \in L : psp[m] \in Moved
    BY ReportOfMoved
  <2>4. QED
    BY <1>1, <1>2, <2>2, <2>3 DEF Loop
<1>8. ASSUME NEW m \in Payments, ScanOne(p, m)
      PROVE  JobBacked(p)'
  <2>1. /\ job[p].found \ {m} \in SUBSET Payments
        /\ \A n \in job[p].found \ {m} : psp[n] \in Moved
    BY <1>1, <1>8 DEF ScanOne, InLoop, Jobs, NoJob, BackedInv, JobBacked
  <2>2. QED
    BY <1>1, <1>2, <1>8, <2>1 DEF ScanOne, Loop
<1>9. CASE FindStuck(p)
  <2>1. Stuck \in SUBSET Payments /\ \A m \in Stuck : psp[m] \in Moved
    BY DEF Stuck, BackedInv, RowsBacked, ClaimsAreBacked
  <2>2. QED
    BY <1>1, <1>3, <1>9, <2>1 DEF FindStuck, Loop
<1>10. ASSUME NEW m \in Payments, MarkStuckPaid(p, m)
       PROVE  JobBacked(p)'
  <2>1. /\ job[p].due \ {m} \in SUBSET Payments
        /\ \A n \in job[p].due \ {m} : psp[n] \in Moved
    BY <1>1, <1>10 DEF MarkStuckPaid, InLoop, Jobs, NoJob, BackedInv, JobBacked
  <2>2. QED
    BY <1>1, <1>3, <1>10, <2>1 DEF MarkStuckPaid, Loop
<1>11. CASE ReconcileDone(p) \/ Crash(p)
  BY <1>1, <1>4, <1>11 DEF ReconcileDone, Crash, Loop
<1>12. CASE Caught(p)
  <2>1. CASE At(p, "apply") /\ job[p].pc = "scan"
    BY <1>1, <1>2, <1>12, <2>1 DEF Caught, Loop
  <2>2. CASE ~(At(p, "apply") /\ job[p].pc = "scan")
    BY <1>5, <1>12, <2>2 DEF Caught
  <2>3. QED
    BY <2>1, <2>2
<1>13. ASSUME NEW r \in Procs, PaymentHandler(r), r # p
       PROVE  job'[p] = job[p]
  BY <1>1, <1>13
     DEF PaymentHandler, PaymentsController, ReconcileJob, TriggerReconcile,
        Initiate, CreatePayment, PspInit, PspInitThrows,
         InitFailed, Verify, Webhook, AskPsp, ApplyResult, Refund, PspRefund,
         PspRefuses, RefundWrite, Reconcile, ListSince, ScanOne, FindStuck,
         MarkStuckPaid, ReconcileDone, Crash, Caught, Loop, payVars
<1>14. CASE PaymentHandler(p)
  BY <1>5, <1>6, <1>7, <1>8, <1>9, <1>10, <1>11, <1>12, <1>14
     DEF PaymentHandler, PaymentsController, ReconcileJob, TriggerReconcile,
        Initiate, CreatePayment, PspInit, PspInitThrows,
         InitFailed, Verify, Webhook, AskPsp, ApplyResult, Refund, PspRefund,
         PspRefuses, RefundWrite, payVars
<1>15. QED
  BY <1>5, <1>13, <1>14
     DEF Next, vars, payVars, OrderHandlers, BuyerPays, BuyerDeclined

\* Only the request that created a payment's row opens its transaction.
LEMMA InitOnceStep ==
    ASSUME TypeOK, BackedInv, [Next]_vars
    PROVE  InitOnce'
<1>1. handler \in [Procs -> Calls]
  BY DEF TypeOK, Calls
<1>2. ASSUME NEW p \in Procs, handler'[p].pc = "init"
      PROVE  \/ handler'[p] = handler[p]
             \/ /\ payStatus[handler'[p].payment] = "NONE"
                /\ \A r \in Procs : r # p => handler'[r] = handler[r]
  <2>1. ASSUME OrderStep
        PROVE  handler'[p] = handler[p]
    <3>1. handler'[p] # [pc |-> "confirm", order |-> handler[p].order]
      BY <1>2
    <3>2. handler'[p].pc \in {"markPaid", "confirm"} \cup PayPcs
      BY <1>2 DEF PayPcs
    <3>3. QED
      BY <2>1, <3>1, <3>2, OrderStepCalls, Zenon
  <2>2. ASSUME NEW m \in Payments, CreatePayment(p, m)
        PROVE  /\ payStatus[handler'[p].payment] = "NONE"
               /\ \A r \in Procs : r # p => handler'[r] = handler[r]
    <3>1. /\ handler'[p] = [pc |-> "init", payment |-> m]
          /\ \A r \in Procs : r # p => handler'[r] = handler[r]
      BY <1>1, <2>2 DEF CreatePayment, Await
    <3>2. QED
      BY <2>2, <3>1 DEF CreatePayment
  <2>3. ASSUME NEW r \in Procs, NEW h, Await(r, h), h.pc # "init"
        PROVE  handler'[p] = handler[p]
    BY <1>1, <1>2, <2>3 DEF Await
  <2>4. ASSUME NEW r \in Procs, PaymentHandler(r),
               ~\E m \in Payments : CreatePayment(p, m)
        PROVE  handler'[p] = handler[p]
    <3>1. ASSUME NEW m \in Payments, CreatePayment(r, m)
          PROVE  handler'[p] = handler[p]
      BY <1>1, <2>4, <3>1 DEF CreatePayment, Await
    <3>2. ASSUME Return(r)
          PROVE  handler'[p] = handler[p]
      BY <2>3, <3>2 DEF Return, Idle
    <3>3. ASSUME \/ \E o \in Orders : Initiate(r, o)
                 \/ \E m \in Payments : \/ Verify(r, m)
                                        \/ Webhook(r, m)
                                        \/ Refund(r, m)
                                        \/ ScanOne(r, m)
                                        \/ MarkStuckPaid(r, m)
                 \/ PspInitThrows(r)
          PROVE  handler'[p] = handler[p]
      BY <2>3, <3>3 DEF Initiate, MarkStuckPaid, Verify, Webhook, Refund,
                        ScanOne, PspInitThrows, Idle
    <3>4. CASE AskPsp(r) \/ ApplyResult(r) \/ PspRefund(r) \/ RefundWrite(r)
      BY <2>3, <3>2, <3>4 DEF AskPsp, ApplyResult, PspRefund, RefundWrite
    <3>5. QED
      BY <2>4, <3>1, <3>2, <3>3, <3>4
         DEF PaymentHandler, PaymentsController, ReconcileJob,
            TriggerReconcile, PspInit, InitFailed, PspRefuses, Reconcile,
             ListSince, FindStuck, ReconcileDone, Crash, Caught
  <2>5. QED
    BY <2>1, <2>2, <2>4
       DEF Next, vars, orderVars, OrderHandlers, BuyerPays, BuyerDeclined
<1>3. ASSUME NEW p \in Procs, NEW r \in Procs,
             handler'[p].pc = "init", handler'[r].pc = "init",
             handler'[p].payment = handler'[r].payment
      PROVE  p = r
  <2>1. ASSUME NEW s \in Procs, handler[s].pc = "init"
        PROVE  payStatus[handler[s].payment] # "NONE"
    BY <2>1 DEF BackedInv, HandBacked, At
  <2>2. CASE handler'[p] = handler[p] /\ handler'[r] = handler[r]
    BY <1>3, <2>2 DEF BackedInv, InitOnce, At
  <2>3. QED
    BY <1>2, <1>3, <2>1, <2>2
<1>4. QED
  BY <1>3 DEF InitOnce, At

\* The rows and everything in hand or listed stay backed by the gateway.
LEMMA PaymentsBacked == Spec => []BackedInv
<1>1. Init => BackedInv
  BY DEF Init, OrdersInit, BackedInv, RowsBacked, PaidOnlyIfCharged,
         ClaimsAreBacked, HandBacked, JobBacked, InitOnce, At, Idle, NoJob
<1>2. TypeOK /\ BackedInv /\ [Next]_vars => BackedInv'
  BY RowsBackedStep, HandBackedStep, JobBackedStep, InitOnceStep
     DEF BackedInv, Procs
<1>3. QED
  BY <1>1, <1>2, PaymentsTyping, PTL DEF Spec

\* No order of any system ever counts as paid unless the buyer's money reached
\* a gateway for one of that order's own payments.
THEOREM PaidOrdersWereCharged == Spec => []PaidOnlyIfCharged
<1>1. BackedInv => PaidOnlyIfCharged
  BY DEF BackedInv, RowsBacked
<1>2. QED
  BY <1>1, PaymentsBacked, PTL

\* The payment rows never claim a charge or a refund that did not happen.
THEOREM PaymentClaimsAreBacked == Spec => []ClaimsAreBacked
<1>1. BackedInv => ClaimsAreBacked
  BY DEF BackedInv, RowsBacked
<1>2. QED
  BY <1>1, PaymentsBacked, PTL

-----------------------------------------------------------------------------
(* Orders that payments refer to *)

\* That a payment belongs to an order that exists is not inductive: a handler
\* that is to create a row, or to write one, holds on to what it read of it.
\* What gateways report needs no clause of its own, because a transaction a
\* gateway knows has a row (RowsBacked).
HandKnown(p) ==
    /\ At(p, "newPayment") => Exists(handler[p].order)
    /\ handler[p].pc \in {"initFailed", "askPsp", "apply"}
            => payStatus[handler[p].payment] # "NONE"

KnownInv ==
    /\ \A m \in Payments : payStatus[m] # "NONE" => Exists(OrderOf[m])
    /\ \A p \in Procs : HandKnown(p)

\* The payments service deletes no order either.
LEMMA OrdersStay ==
    ASSUME TypeOK, [Next]_vars, NEW o \in Orders, Exists(o)
    PROVE  Exists(o)'
<1>1. RowsTypeOK /\ HandsOK
  BY CallsAreTyped DEF TypeOK, Calls
<1>2. CASE OrderHandlers
  BY <1>1, <1>2, OrderHandlersStep, RowsGrow
<1>3. ASSUME NEW p \in Procs, PaymentHandler(p)
      PROVE  Exists(o)'
  BY <1>3, PaymentHandlerRows DEF OrdersUnchanged, orderRows, Exists
<1>4. CASE UNCHANGED status
  BY <1>4 DEF Exists
<1>5. QED
  BY <1>2, <1>3, <1>4
     DEF Next, vars, orderVars, orderRows, BuyerPays, BuyerDeclined

\* A payment is started for an order that exists.
LEMMA NewRowsKnown ==
    ASSUME TypeOK, BackedInv, KnownInv, [Next]_vars, NEW m \in Payments,
           payStatus'[m] # "NONE"
    PROVE  Exists(OrderOf[m])
<1>1. payStatus \in [Payments -> PayStatuses]
  BY DEF TypeOK
<1>2. CASE payStatus'[m] = payStatus[m]
  BY <1>2 DEF KnownInv
<1>3. ASSUME NEW p \in Procs, NEW n \in Payments, CreatePayment(p, n)
      PROVE  Exists(OrderOf[m])
  <2>1. Exists(OrderOf[n])
    BY <1>3 DEF CreatePayment, KnownInv, HandKnown
  <2>2. QED
    BY <1>1, <1>2, <1>3, <2>1 DEF CreatePayment
<1>4. ASSUME NEW p \in Procs, InitFailed(p) \/ ApplyResult(p)
      PROVE  Exists(OrderOf[m])
  <2>1. payStatus[handler[p].payment] # "NONE"
    BY <1>4 DEF InitFailed, ApplyResult, KnownInv, HandKnown, At
  <2>2. m # handler[p].payment => payStatus'[m] = payStatus[m]
    BY <1>1, <1>4 DEF InitFailed, ApplyResult
  <2>3. QED
    BY <1>2, <2>1, <2>2 DEF KnownInv
<1>5. ASSUME NEW p \in Procs, RefundWrite(p)
      PROVE  Exists(OrderOf[m])
  <2>1. psp[handler[p].payment] = "reversed"
    BY <1>5 DEF RefundWrite, BackedInv, HandBacked
  <2>2. m # handler[p].payment => payStatus'[m] = payStatus[m]
    BY <1>1, <1>5 DEF RefundWrite
  <2>3. QED
    BY <1>2, <2>1, <2>2 DEF KnownInv, BackedInv, RowsBacked
<1>6. QED
  BY <1>2, <1>3, <1>4, <1>5
     DEF Next, vars, payVars, payRows, OrderHandlers, PaymentHandler,
         PaymentsController, ReconcileJob, TriggerReconcile, Initiate,
         PspInit, PspInitThrows, Verify, Webhook, AskPsp, Refund, PspRefund,
         PspRefuses, Reconcile, ListSince, ScanOne, FindStuck, MarkStuckPaid,
         ReconcileDone, Crash, Caught, BuyerPays, BuyerDeclined

\* What a handler goes on with was there when it read it.
LEMMA HandKnownStep ==
    ASSUME TypeOK, BackedInv, KnownInv, [Next]_vars, NEW p \in Procs
    PROVE  HandKnown(p)'
<1>1. handler \in [Procs -> Calls] /\ HandsOK /\ PayHandsOK
  BY CallsAreTyped DEF TypeOK, Calls
<1>2. CASE handler'[p] = handler[p]
  BY <1>1, <1>2, OrdersStay, PayStatusStep DEF KnownInv, HandKnown, PayHandsOK, At
<1>3. ASSUME handler'[p].pc \notin {"newPayment", "initFailed", "askPsp", "apply"}
      PROVE  HandKnown(p)'
  BY <1>3 DEF HandKnown, At
<1>4. ASSUME NEW m \in Payments, payStatus[m] # "NONE",
             handler'[p].payment = m, handler'[p].pc # "newPayment"
      PROVE  HandKnown(p)'
  BY <1>4, PayStatusStep DEF HandKnown, At
<1>5. CASE OrderStep
  <2>1. CASE handler'[p] = [pc |-> "confirm", order |-> handler[p].order]
    BY <1>3, <2>1
  <2>2. CASE handler'[p].pc \notin PayPcs
    BY <1>3, <2>2 DEF PayPcs
  <2>3. QED
    BY <1>2, <1>5, <2>1, <2>2, OrderStepCalls
<1>6. ASSUME NEW o \in Orders, Initiate(p, o)
      PROVE  HandKnown(p)'
  <2>1. handler'[p] = [pc |-> "newPayment", order |-> o]
    BY <1>1, <1>6 DEF Initiate, Await
  <2>2. Exists(o)'
    BY <1>6, OrdersStay DEF Initiate, Exists
  <2>3. QED
    BY <2>1, <2>2 DEF HandKnown, At, Exists
<1>7. CASE PspInitThrows(p)
  <2>1. /\ handler[p].payment \in Payments
        /\ payStatus[handler[p].payment] # "NONE"
    BY <1>1, <1>7 DEF PspInitThrows, PayHandsOK, At, BackedInv, HandBacked
  <2>2. handler'[p] = [pc |-> "initFailed", payment |-> handler[p].payment]
    BY <1>1, <1>7 DEF PspInitThrows, Await
  <2>3. QED
    BY <1>4, <2>1, <2>2
<1>8. ASSUME NEW m \in Payments, Verify(p, m) \/ Webhook(p, m)
      PROVE  HandKnown(p)'
  <2>1. handler'[p] = [pc |-> "askPsp", payment |-> m]
    BY <1>1, <1>8 DEF Verify, Webhook, Await
  <2>2. payStatus[m] # "NONE"
    BY <1>8 DEF Verify, Webhook
  <2>3. QED
    BY <1>4, <2>1, <2>2
<1>9. CASE AskPsp(p)
  <2>1. /\ handler[p].payment \in Payments
        /\ payStatus[handler[p].payment] # "NONE"
    BY <1>1, <1>9 DEF AskPsp, PayHandsOK, At, KnownInv, HandKnown
  <2>2. \E r, b : handler'[p] = [pc |-> "apply", payment |-> handler[p].payment,
                                 result |-> r, ref |-> b]
    BY <1>1, <1>9 DEF AskPsp, Await
  <2>3. QED
    BY <1>4, <2>1, <2>2
<1>10. ASSUME NEW m \in Payments, ScanOne(p, m)
       PROVE  HandKnown(p)'
  <2>1. payStatus[m] # "NONE"
    BY <1>10 DEF ScanOne, InLoop, BackedInv, JobBacked, RowsBacked, Moved
  <2>2. \/ handler'[p] = [pc |-> "apply", payment |-> m, result |-> "success",
                          ref |-> TRUE]
        \/ handler'[p] = Idle
    BY <1>1, <1>10 DEF ScanOne, Await
  <2>3. QED
    BY <1>3, <1>4, <2>1, <2>2 DEF Idle
<1>11. ASSUME NEW h, Await(p, h),
              h.pc \notin {"newPayment", "initFailed", "askPsp", "apply"}
       PROVE  HandKnown(p)'
  BY <1>1, <1>3, <1>11 DEF Await
<1>12. CASE Return(p)
  BY <1>11, <1>12 DEF Return, Idle
<1>13. ASSUME NEW m \in Payments,
              CreatePayment(p, m) \/ Refund(p, m) \/ MarkStuckPaid(p, m)
       PROVE  HandKnown(p)'
  BY <1>11, <1>13 DEF CreatePayment, Refund, MarkStuckPaid
<1>14. CASE ApplyResult(p) \/ PspRefund(p) \/ RefundWrite(p)
  BY <1>11, <1>12, <1>14 DEF ApplyResult, PspRefund, RefundWrite
<1>15. CASE \/ PspInit(p) \/ InitFailed(p) \/ PspRefuses(p) \/ Crash(p)
            \/ Caught(p)
  BY <1>12, <1>15 DEF PspInit, InitFailed, PspRefuses, Crash, Caught
<1>16. ASSUME NEW r \in Procs, PaymentHandler(r), r # p
       PROVE  handler'[p] = handler[p]
  BY <1>1, <1>16
     DEF PaymentHandler, PaymentsController, ReconcileJob, TriggerReconcile,
         Initiate, CreatePayment, PspInit, PspInitThrows, InitFailed, Verify,
         Webhook, AskPsp, ApplyResult, Refund, PspRefund, PspRefuses,
         RefundWrite, Reconcile, ListSince, ScanOne, FindStuck, MarkStuckPaid,
         ReconcileDone, Crash, Caught, Return, Await
<1>17. CASE PaymentHandler(p)
  BY <1>2, <1>6, <1>7, <1>8, <1>9, <1>10, <1>13, <1>14, <1>15,
     <1>17
     DEF PaymentHandler, PaymentsController, ReconcileJob, TriggerReconcile,
         Reconcile, ListSince, FindStuck, ReconcileDone
<1>18. QED
  BY <1>2, <1>5, <1>16, <1>17
     DEF Next, vars, orderVars, OrderHandlers, BuyerPays, BuyerDeclined

\* Every payment's row belongs to an order that exists.
LEMMA PaymentsKnown == Spec => []KnownInv
<1>1. Init => KnownInv
  BY DEF Init, OrdersInit, KnownInv, HandKnown, At, Idle
<1>2. TypeOK /\ BackedInv /\ KnownInv /\ [Next]_vars => KnownInv'
  <2> SUFFICES ASSUME TypeOK, BackedInv, KnownInv, [Next]_vars
               PROVE  KnownInv'
    OBVIOUS
  <2>1. ASSUME NEW m \in Payments, payStatus'[m] # "NONE"
        PROVE  Exists(OrderOf[m])'
    BY <2>1, NewRowsKnown, OrdersStay, OrderOfAssumption DEF Exists
  <2>2. QED
    BY <2>1, HandKnownStep DEF KnownInv, Procs, Exists
<1>3. QED
  BY <1>1, <1>2, PaymentsTyping, PaymentsBacked, PTL DEF Spec

-----------------------------------------------------------------------------
(* Orders and payments together are an instance of orders alone *)

\* Which service a call belongs to, by the await it is at.
LEMMA CallKinds ==
    ASSUME NEW h \in Calls
    PROVE  /\ h.pc \in PayPcs <=> h \in PayCalls
           /\ h \notin PayCalls => h \in OrderCalls
           /\ h.pc = "idle" => h = Idle
BY DEF Calls, PayPcs, PayCalls, OrderCalls, Idle

\* At the awaits of the orders service a process is seen as it is, at those of
\* the payments service as idle.
LEMMA SeenByOrders ==
    ASSUME handler \in [Procs -> Calls], NEW p \in Procs
    PROVE  OrderHandler[p] = IF handler[p].pc \in PayPcs THEN Idle
                                                        ELSE handler[p]
BY CallKinds DEF OrderHandler

\* A call of the orders service is seen as it is made ...
LEMMA OrderAwaitSeen ==
    ASSUME handler \in [Procs -> Calls], NEW p \in Procs, NEW h \in OrderCalls,
           Await(p, h)
    PROVE  OrdersAlone!Await(p, h)
<1>1. h \notin PayCalls
  BY DEF PayCalls, OrderCalls, Idle
<1>2. QED
  BY <1>1 DEF Await, OrdersAlone!Await, OrderHandler

\* ... and one of the payments service is not seen to begin or to end.
LEMMA PayAwaitUnseen ==
    ASSUME handler \in [Procs -> Calls], NEW p \in Procs,
           handler[p].pc \in PayPcs \cup {"idle"},
           handler' \in [Procs -> Calls],
           handler'[p].pc \in PayPcs \cup {"idle"},
           \A r \in Procs \ {p} : handler'[r] = handler[r]
    PROVE  UNCHANGED OrderHandler
<1>1. handler[p] \in PayCalls \/ handler[p] = Idle
  BY CallKinds
<1>2. handler'[p] \in PayCalls \/ handler'[p] = Idle
  BY CallKinds
<1>3. QED
  BY <1>1, <1>2 DEF OrderHandler

\* A step of the orders handlers is the same step of the orders service alone.
LEMMA OrderStepSeen ==
    ASSUME TypeOK, OrderStep
    PROVE  OrdersAlone!OrderStep
<1> USE DEF OrdersAlone!At, OrdersAlone!Return, OrdersAlone!Idle,
            OrdersAlone!orderRows, orderRows, PayPcs
<1>1. handler \in [Procs -> Calls] /\ HandsOK
  BY CallsAreTyped DEF TypeOK, Calls
<1>2. ASSUME NEW p \in Procs, handler[p].pc \notin PayPcs
      PROVE  OrderHandler[p] = handler[p]
  BY <1>1, <1>2, SeenByOrders
<1>3. ASSUME NEW p \in Procs, Return(p)
      PROVE  OrdersAlone!Return(p)
  BY <1>1, <1>3, OrderAwaitSeen DEF Return, OrderCalls, Idle
<1>4. ASSUME NEW p \in Procs, NEW o \in Orders
      PROVE  /\ [pc |-> "confirm", order |-> o] \in OrderCalls
             /\ [pc |-> "notify", order |-> o] \in OrderCalls
             /\ [pc |-> "cancel", order |-> o] \in OrderCalls
             /\ Idle \in OrderCalls
  BY DEF OrderCalls
<1>5. OrdersAlone!Procs = Procs
  BY DEF OrdersAlone!Procs, Procs
<1>6. ASSUME NEW p \in Procs, NEW b \in Baskets, Create(p, b)
      PROVE  OrdersAlone!OrderStep
  <2>1. [pc |-> "create", basket |-> b] \in OrderCalls
    BY DEF OrderCalls
  <2>2. OrdersAlone!Await(p, [pc |-> "create", basket |-> b])
    BY <1>1, <1>6, <2>1, OrderAwaitSeen DEF Create
  <2>3. OrdersAlone!Create(p, b)
    BY <1>2, <1>6, <2>2 DEF Create, OrdersAlone!Create, At
  <2>4. b \in OrdersAlone!Baskets
    BY DEF Baskets, OrdersAlone!Baskets, NoItems, OrdersAlone!NoItems
  <2>5. QED
    BY <1>5, <2>3, <2>4 DEF OrdersAlone!OrderStep, OrdersAlone!OrdersController
<1>7. ASSUME NEW p \in Procs, NEW o \in Orders, NEW step \in Transitions,
             Transition(p, o, step)
      PROVE  OrdersAlone!OrderStep
  <2>1. [pc |-> "transition", order |-> o, step |-> step] \in OrderCalls
    BY DEF OrderCalls
  <2>2. OrdersAlone!Await(p, [pc |-> "transition", order |-> o, step |-> step])
    BY <1>1, <1>7, <2>1, OrderAwaitSeen DEF Transition
  <2>3. OrdersAlone!Transition(p, o, step)
    BY <1>2, <1>7, <2>2 DEF Transition, OrdersAlone!Transition, At
  <2>4. step \in OrdersAlone!Transitions
    BY DEF Transitions, OrdersAlone!Transitions
  <2>5. QED
    BY <1>5, <2>3, <2>4 DEF OrdersAlone!OrderStep, OrdersAlone!OrdersController
<1>8. ASSUME NEW p \in Procs, NEW o \in Orders, Cancel(p, o)
      PROVE  OrdersAlone!OrderStep
  <2>1. OrdersAlone!Await(p, [pc |-> "cancel", order |-> o])
    BY <1>1, <1>4, <1>8, OrderAwaitSeen DEF Cancel
  <2>2. OrdersAlone!Cancel(p, o)
    BY <1>2, <1>8, <2>1 DEF Cancel, OrdersAlone!Cancel, At, Cancellable,
                            OrdersAlone!Cancellable
  <2>3. QED
    BY <1>5, <2>2 DEF OrdersAlone!OrderStep, OrdersAlone!OrdersController
<1>9. ASSUME NEW p \in Procs, NEW o \in Orders, CreateTx(p, o)
      PROVE  OrdersAlone!OrderStep
  <2>1. OrdersAlone!CreateTx(p, o)
    BY <1>2, <1>3, <1>9 DEF CreateTx, OrdersAlone!CreateTx, At, InStock,
                            OrdersAlone!InStock, Exists, OrdersAlone!Exists
  <2>2. QED
    BY <1>5, <2>1 DEF OrdersAlone!OrderStep
<1>10. ASSUME NEW p \in Procs, OutOfStock(p)
       PROVE  OrdersAlone!OrderStep
  <2>1. OrdersAlone!OutOfStock(p)
    BY <1>2, <1>3, <1>10 DEF OutOfStock, OrdersAlone!OutOfStock, At, InStock,
                             OrdersAlone!InStock
  <2>2. QED
    BY <1>5, <2>1 DEF OrdersAlone!OrderStep
<1>11. ASSUME NEW p \in Procs, MarkPaid(p)
       PROVE  OrdersAlone!OrderStep
  <2>1. handler[p].order \in Orders /\ OrderHandler[p] = handler[p]
    BY <1>1, <1>2, <1>11 DEF MarkPaid, HandsOK, OrderHolding, At
  <2>2. OrdersAlone!Await(p, IF status[handler[p].order] = "PENDING_PAYMENT"
                             THEN [pc |-> "confirm", order |-> handler[p].order]
                             ELSE Idle)
    BY <1>1, <1>4, <1>11, <2>1, OrderAwaitSeen DEF MarkPaid
  <2>3. OrdersAlone!MarkPaid(p)
    BY <1>11, <2>1, <2>2 DEF MarkPaid, OrdersAlone!MarkPaid, At, Idle
  <2>4. QED
    BY <1>5, <2>3 DEF OrdersAlone!OrderStep
<1>12. ASSUME NEW p \in Procs, Confirm(p)
       PROVE  OrdersAlone!OrderStep
  <2>1. handler[p].order \in Orders /\ OrderHandler[p] = handler[p]
    BY <1>1, <1>2, <1>12 DEF Confirm, HandsOK, OrderHolding, At
  <2>2. OrdersAlone!Await(p, [pc |-> "notify", order |-> handler[p].order])
    BY <1>1, <1>4, <1>12, <2>1, OrderAwaitSeen DEF Confirm
  <2>3. OrdersAlone!Confirm(p)
    BY <1>12, <2>1, <2>2 DEF Confirm, OrdersAlone!Confirm, At
  <2>4. QED
    BY <1>5, <2>3 DEF OrdersAlone!OrderStep
<1>13. ASSUME NEW p \in Procs, NotifySeller(p)
       PROVE  OrdersAlone!OrderStep
  <2>1. OrdersAlone!NotifySeller(p)
    BY <1>2, <1>3, <1>13
       DEF NotifySeller, OrdersAlone!NotifySeller, EnqueueOrderPlaced,
           OrdersAlone!EnqueueOrderPlaced, At
  <2>2. QED
    BY <1>5, <2>1 DEF OrdersAlone!OrderStep
<1>14. ASSUME NEW p \in Procs, TransitionWrite(p)
       PROVE  OrdersAlone!OrderStep
  <2>1. OrdersAlone!TransitionWrite(p)
    BY <1>2, <1>3, <1>14 DEF TransitionWrite, OrdersAlone!TransitionWrite, At
  <2>2. QED
    BY <1>5, <2>1 DEF OrdersAlone!OrderStep
<1>15. ASSUME NEW p \in Procs, CancelByRefund(p)
       PROVE  OrdersAlone!OrderStep
  <2>1. handler[p].order \in Orders /\ OrderHandler[p] = handler[p]
    BY <1>1, <1>2, <1>15 DEF CancelByRefund, HandsOK, OrderHolding, At
  <2>2. OrdersAlone!Await(p, IF status[handler[p].order] \in Cancellable
                             THEN [pc |-> "cancel", order |-> handler[p].order]
                             ELSE Idle)
    BY <1>1, <1>4, <1>15, <2>1, OrderAwaitSeen DEF CancelByRefund
  <2>3. OrdersAlone!CancelByRefund(p)
    BY <1>15, <2>1, <2>2 DEF CancelByRefund, OrdersAlone!CancelByRefund, At,
                             Idle, Cancellable, OrdersAlone!Cancellable
  <2>4. QED
    BY <1>5, <2>3 DEF OrdersAlone!OrderStep
<1>16. ASSUME NEW p \in Procs, CancelTx(p)
       PROVE  OrdersAlone!OrderStep
  <2>1. OrdersAlone!CancelTx(p)
    BY <1>2, <1>3, <1>16 DEF CancelTx, OrdersAlone!CancelTx, At, CancelInternal,
                             OrdersAlone!CancelInternal
  <2>2. QED
    BY <1>5, <2>1 DEF OrdersAlone!OrderStep
<1>17. ASSUME NEW p \in Procs, Sweep(p)
       PROVE  OrdersAlone!OrderStep
  <2>1. [pc |-> "sweep", due |-> Due] \in OrderCalls
    BY DEF OrderCalls, Due, TypeOK, RowsTypeOK
  <2>2. OrdersAlone!Await(p, [pc |-> "sweep", due |-> Due])
    BY <1>1, <1>17, <2>1, OrderAwaitSeen DEF Sweep
  <2>3. OrdersAlone!Sweep(p)
    BY <1>2, <1>17, <2>2 DEF Sweep, OrdersAlone!Sweep, At, Due, OrdersAlone!Due
  <2>4. QED
    BY <1>5, <2>3 DEF OrdersAlone!OrderStep
<1>18. ASSUME NEW p \in Procs, NEW o \in Orders,
              SweepCancel(p, o) \/ SweepSkip(p, o)
       PROVE  OrdersAlone!OrderStep
  <2>1. [pc |-> "sweep", due |-> handler[p].due \ {o}] \in OrderCalls
    BY <1>1, <1>18 DEF OrderCalls, SweepCancel, SweepSkip, HandsOK
  <2>2. OrdersAlone!Await(p, [pc |-> "sweep", due |-> handler[p].due \ {o}])
    BY <1>1, <1>18, <2>1, OrderAwaitSeen DEF SweepCancel, SweepSkip
  <2>3. OrdersAlone!SweepCancel(p, o) \/ OrdersAlone!SweepSkip(p, o)
    BY <1>2, <1>18, <2>2
       DEF SweepCancel, SweepSkip, OrdersAlone!SweepCancel,
           OrdersAlone!SweepSkip, At, CancelInternal, OrdersAlone!CancelInternal
  <2>4. QED
    BY <1>5, <2>3 DEF OrdersAlone!OrderStep
<1>19. ASSUME NEW p \in Procs, SweepDone(p)
       PROVE  OrdersAlone!OrderStep
  <2>1. OrdersAlone!SweepDone(p)
    BY <1>2, <1>3, <1>19 DEF SweepDone, OrdersAlone!SweepDone, At
  <2>2. QED
    BY <1>5, <2>1 DEF OrdersAlone!OrderStep
<1>20. ASSUME UNCHANGED handler
       PROVE  UNCHANGED OrderHandler
  BY <1>20 DEF OrderHandler
<1>21. ASSUME NEW o \in Orders, Age(o)
       PROVE  OrdersAlone!OrderStep
  BY <1>20, <1>21 DEF Age, OrdersAlone!Age, OrdersAlone!OrderStep
<1>22. ASSUME NEW q \in Products, Relist(q)
       PROVE  OrdersAlone!OrderStep
  BY <1>20, <1>22 DEF Relist, OrdersAlone!Relist, OrdersAlone!OrderStep
<1>23. QED
  BY <1>6, <1>7, <1>8, <1>9, <1>10, <1>11, <1>12, <1>13, <1>14, <1>15, <1>16,
     <1>17, <1>18, <1>19, <1>21, <1>22 DEF OrderStep, OrdersController

\* What the payments service does is not seen, but for its two calls and for a
\* failure that drops a call of the orders service.
LEMMA PaymentStepSeen ==
    ASSUME TypeOK, BackedInv, KnownInv, NEW p \in Procs, PaymentHandler(p)
    PROVE  OrdersAlone!OrdersNext \/ UNCHANGED OrdersAlone!orderVars
<1> USE DEF OrdersAlone!orderVars, OrdersAlone!orderRows, orderRows,
            OrdersUnchanged, PayPcs
<1> DEFINE Goal == OrdersAlone!OrdersNext \/ UNCHANGED OrdersAlone!orderVars
<1>1. handler \in [Procs -> Calls] /\ PayHandsOK
  BY CallsAreTyped DEF TypeOK, Calls
<1>2. OrdersUnchanged /\ handler' \in [Procs -> Calls]
  BY PaymentHandlerRows, PayHandlerStep
<1>3. OrdersAlone!Procs = Procs
  BY DEF OrdersAlone!Procs, Procs
<1>4. ASSUME NEW h, Await(p, h), h.pc \in PayPcs \cup {"idle"},
             handler[p].pc \in PayPcs \cup {"idle"}
      PROVE  Goal
  <2>1. UNCHANGED OrderHandler
    BY <1>1, <1>2, <1>4, PayAwaitUnseen DEF Await
  <2>2. QED
    BY <1>2, <2>1
<1>5. ASSUME Return(p), handler[p].pc \in PayPcs \cup {"idle"}
      PROVE  Goal
  BY <1>4, <1>5 DEF Return, Idle
<1>6. ASSUME NEW o \in Orders, Exists(o),
             Await(p, [pc |-> "markPaid", order |-> o]),
             handler[p].pc \in PayPcs \cup {"idle"}
      PROVE  Goal
  <2>1. [pc |-> "markPaid", order |-> o] \in OrderCalls
    BY DEF OrderCalls
  <2>2. OrdersAlone!Await(p, [pc |-> "markPaid", order |-> o])
    BY <1>1, <1>6, <2>1, OrderAwaitSeen
  <2>3. OrderHandler[p].pc = "idle"
    BY <1>1, <1>6, SeenByOrders DEF Idle
  <2>4. OrdersAlone!CallMarkPaid(p, o)
    BY <1>2, <1>6, <2>2, <2>3 DEF OrdersAlone!CallMarkPaid, OrdersAlone!At,
                                  Exists, OrdersAlone!Exists
  <2>5. QED
    BY <1>3, <2>4 DEF OrdersAlone!OrdersNext
<1>7. ASSUME NEW o \in Orders, Exists(o),
             Await(p, [pc |-> "cancelByRefund", order |-> o]),
             handler[p].pc \in PayPcs \cup {"idle"}
      PROVE  Goal
  <2>1. [pc |-> "cancelByRefund", order |-> o] \in OrderCalls
    BY DEF OrderCalls
  <2>2. OrdersAlone!Await(p, [pc |-> "cancelByRefund", order |-> o])
    BY <1>1, <1>7, <2>1, OrderAwaitSeen
  <2>3. OrderHandler[p].pc = "idle"
    BY <1>1, <1>7, SeenByOrders DEF Idle
  <2>4. OrdersAlone!CallCancelByRefund(p, o)
    BY <1>2, <1>7, <2>2, <2>3 DEF OrdersAlone!CallCancelByRefund,
                                  OrdersAlone!At, Exists, OrdersAlone!Exists
  <2>5. QED
    BY <1>3, <2>4 DEF OrdersAlone!OrdersNext
<1>8. CASE UNCHANGED handler
  BY <1>2, <1>8 DEF OrderHandler
<1>9. ASSUME NEW m \in Payments, psp[m] \in Moved
      PROVE  OrderOf[m] \in Orders /\ Exists(OrderOf[m])
  BY <1>9, OrderOfAssumption DEF BackedInv, RowsBacked, KnownInv, Moved
<1>10. ASSUME NEW o \in Orders, Initiate(p, o)
       PROVE  Goal
  BY <1>4, <1>10 DEF Initiate, Free, At
<1>11. ASSUME NEW m \in Payments,
              \/ Verify(p, m) \/ Webhook(p, m) \/ Refund(p, m)
              \/ CreatePayment(p, m)
       PROVE  Goal
  BY <1>4, <1>11 DEF Verify, Webhook, Refund, CreatePayment, Free, At
<1>12. CASE PspInit(p) \/ InitFailed(p) \/ PspRefuses(p)
  BY <1>5, <1>12 DEF PspInit, InitFailed, PspRefuses, At
<1>13. CASE PspInitThrows(p) \/ AskPsp(p)
  BY <1>4, <1>13 DEF PspInitThrows, AskPsp, At
<1>14. CASE PspRefund(p)
  BY <1>4, <1>5, <1>14 DEF PspRefund, At
<1>15. CASE ApplyResult(p)
  <2>1. CASE handler[p].result = "success"
    <3>1. handler[p].payment \in Payments /\ psp[handler[p].payment] \in Moved
      BY <1>1, <1>15, <2>1 DEF ApplyResult, PayHandsOK, BackedInv, HandBacked, At
    <3>2. QED
      BY <1>6, <1>9, <1>15, <2>1, <3>1 DEF ApplyResult, At
  <2>2. CASE handler[p].result # "success"
    BY <1>5, <1>15, <2>2 DEF ApplyResult, At
  <2>3. QED
    BY <2>1, <2>2
<1>16. CASE RefundWrite(p)
  <2>1. handler[p].payment \in Payments /\ psp[handler[p].payment] \in Moved
    BY <1>1, <1>16 DEF RefundWrite, PayHandsOK, BackedInv, HandBacked, At, Moved
  <2>2. QED
    BY <1>5, <1>7, <1>9, <1>16, <2>1 DEF RefundWrite, At
<1>17. ASSUME NEW m \in Payments, ScanOne(p, m)
       PROVE  Goal
  BY <1>4, <1>5, <1>17 DEF ScanOne, InLoop, At, Return
<1>18. ASSUME NEW m \in Payments, MarkStuckPaid(p, m)
       PROVE  Goal
  BY <1>6, <1>9, <1>18 DEF MarkStuckPaid, InLoop, At, BackedInv, JobBacked
<1>19. CASE Reconcile(p) \/ ListSince(p) \/ FindStuck(p) \/ ReconcileDone(p)
  BY <1>8, <1>19 DEF Reconcile, ListSince, FindStuck, ReconcileDone
<1>20. CASE Crash(p) \/ Caught(p)
  <2>1. Return(p)
    BY <1>20 DEF Crash, Caught
  <2>2. CASE handler[p].pc \in PayPcs \cup {"idle"}
    BY <1>5, <2>1, <2>2
  <2>3. CASE handler[p].pc \notin PayPcs \cup {"idle"}
    <3>1. OrderHandler[p] = handler[p]
      BY <1>1, <2>3, SeenByOrders
    <3>2. OrdersAlone!Await(p, Idle)
      BY <1>1, <2>1, OrderAwaitSeen DEF Return, OrderCalls
    <3>3. OrdersAlone!Fail(p)
      BY <1>2, <2>3, <3>1, <3>2 DEF OrdersAlone!Fail, OrdersAlone!At,
         OrdersAlone!Return, OrdersAlone!Idle, Idle
    <3>4. QED
      BY <1>3, <3>3 DEF OrdersAlone!OrdersNext
  <2>4. QED
    BY <2>2, <2>3
<1>21. QED
  BY <1>10, <1>11, <1>12, <1>13, <1>14, <1>15, <1>16, <1>17, <1>18, <1>19, <1>20
     DEF PaymentHandler, PaymentsController, ReconcileJob, TriggerReconcile

\* Orders and payments together implement the orders service alone, for any
\* number of payments, gateways and processes: whatever gateways report, and
\* however webhooks, verifications, refunds and reconciliations repeat and
\* fail, orders see only their own calls, of orders that exist.
THEOREM PaymentsUseOrders == Spec => ImplementsOrders
<1>1. Init => OrdersAlone!OrdersInit
  <2>1. Idle \notin PayCalls
    BY DEF Idle, PayCalls
  <2>2. QED
    BY <2>1 DEF Init, OrdersInit, OrdersAlone!OrdersInit, OrderHandler, NoItems,
       OrdersAlone!NoItems, Procs, OrdersAlone!Procs, Idle, OrdersAlone!Idle
<1>2. TypeOK /\ BackedInv /\ KnownInv /\ [Next]_vars
        => [OrdersAlone!OrdersNext]_(OrdersAlone!orderVars)
  <2> SUFFICES ASSUME TypeOK, BackedInv, KnownInv, [Next]_vars
               PROVE  OrdersAlone!OrdersNext \/ UNCHANGED OrdersAlone!orderVars
    OBVIOUS
  <2>1. CASE UNCHANGED orderVars
    BY <2>1 DEF orderVars, OrdersAlone!orderVars, orderRows,
       OrdersAlone!orderRows, OrderHandler
  <2>2. CASE OrderHandlers
    BY <2>2, OrderStepSeen DEF OrderHandlers, OrdersAlone!OrdersNext
  <2>3. QED
    BY <2>1, <2>2, PaymentStepSeen DEF Next, vars, BuyerPays, BuyerDeclined
<1>3. QED
  BY <1>1, <1>2, PaymentsTyping, PaymentsBacked, PaymentsKnown, PTL
     DEF Spec, ImplementsOrders, OrdersAlone!OrdersSpec

\* What is proved of the orders service alone, read of orders and payments
\* together.
OrdersProved == INSTANCE SerialOrdersProofs WITH handler <- OrderHandler

LEMMA ProvedOfOrders == ImplementsOrders => OrdersProved!OrdersSpec
<1>1. OrdersAlone!OrdersInit => OrdersProved!OrdersInit
  BY DEF OrdersAlone!OrdersInit, OrdersProved!OrdersInit, OrdersAlone!NoItems,
         OrdersProved!NoItems, OrdersAlone!Procs, OrdersProved!Procs,
         OrdersAlone!Idle, OrdersProved!Idle
<1>2. [OrdersAlone!OrdersNext]_(OrdersAlone!orderVars)
        => [OrdersProved!OrdersNext]_(OrdersProved!orderVars)
  BY DEF OrdersAlone!OrdersNext, OrdersProved!OrdersNext,
         OrdersAlone!OrderStep, OrdersProved!OrderStep,
         OrdersAlone!OrdersController, OrdersProved!OrdersController,
         OrdersAlone!Create, OrdersProved!Create, OrdersAlone!CreateTx,
         OrdersProved!CreateTx, OrdersAlone!OutOfStock,
         OrdersProved!OutOfStock, OrdersAlone!InStock, OrdersProved!InStock,
         OrdersAlone!MarkPaid, OrdersProved!MarkPaid, OrdersAlone!Confirm,
         OrdersProved!Confirm, OrdersAlone!NotifySeller,
         OrdersProved!NotifySeller, OrdersAlone!EnqueueOrderPlaced,
         OrdersProved!EnqueueOrderPlaced, OrdersAlone!Transition,
         OrdersProved!Transition, OrdersAlone!TransitionWrite,
         OrdersProved!TransitionWrite, OrdersAlone!Cancel,
         OrdersProved!Cancel, OrdersAlone!CallMarkPaid,
         OrdersProved!CallMarkPaid, OrdersAlone!CallCancelByRefund,
         OrdersProved!CallCancelByRefund, OrdersAlone!CancelByRefund,
         OrdersProved!CancelByRefund, OrdersAlone!CancelTx,
         OrdersProved!CancelTx, OrdersAlone!CancelInternal,
         OrdersProved!CancelInternal, OrdersAlone!Sweep, OrdersProved!Sweep,
         OrdersAlone!Due, OrdersProved!Due, OrdersAlone!SweepCancel,
         OrdersProved!SweepCancel, OrdersAlone!SweepSkip,
         OrdersProved!SweepSkip, OrdersAlone!SweepDone,
         OrdersProved!SweepDone, OrdersAlone!Fail, OrdersProved!Fail,
         OrdersAlone!Age, OrdersProved!Age, OrdersAlone!Relist,
         OrdersProved!Relist, OrdersAlone!Await, OrdersProved!Await,
         OrdersAlone!Return, OrdersProved!Return, OrdersAlone!At,
         OrdersProved!At, OrdersAlone!Exists, OrdersProved!Exists,
         OrdersAlone!Idle, OrdersProved!Idle, OrdersAlone!Procs,
         OrdersProved!Procs, OrdersAlone!Baskets, OrdersProved!Baskets,
         OrdersAlone!NoItems, OrdersProved!NoItems, OrdersAlone!Transitions,
         OrdersProved!Transitions, OrdersAlone!Cancellable,
         OrdersProved!Cancellable, OrdersAlone!orderRows,
         OrdersProved!orderRows, OrdersAlone!orderVars,
         OrdersProved!orderVars
<1>3. QED
  BY <1>1, <1>2, PTL
     DEF ImplementsOrders, OrdersAlone!OrdersSpec, OrdersProved!OrdersSpec

\* With payments, refunds and reconciliation at work too, no stage of an order
\* is skipped and an order once paid, shipped or cancelled is never payable
\* again.
THEOREM PaymentsKeepStages == Spec => []StagesInOrder
<1>1. OrdersProved!OrdersSpec => []OrdersProved!StagesInOrder
  BY OrdersProved!StagesAlwaysInOrder, WorkerIsNoRequest, SupplyAssumption,
     MaxQtyAssumption, SweepEnabledAssumption
<1>2. OrdersProved!StagesInOrder => StagesInOrder
  BY DEF OrdersProved!StagesInOrder, StagesInOrder, OrdersProved!Trail, Trail
<1>3. QED
  BY <1>1, <1>2, PaymentsUseOrders, ProvedOfOrders, PTL

\* Nor do they ever lose a unit of stock.
THEOREM PaymentsLoseNoStock == Spec => []NoUnitLost
<1>1. OrdersProved!OrdersSpec => []OrdersProved!NoUnitLost
  BY OrdersProved!StockIsNeverLost, WorkerIsNoRequest, SupplyAssumption,
     MaxQtyAssumption, SweepEnabledAssumption
<1>2. OrdersProved!NoUnitLost => NoUnitLost
  <2>1. \A q : OrdersProved!HeldUnits(q) = HeldUnits(q)
    BY DEF OrdersProved!HeldUnits, HeldUnits, OrdersProved!Exists, Exists,
       OrdersProved!MapThenSumSet, MapThenSumSet, OrdersProved!MapThenFoldSet,
       MapThenFoldSet
  <2>2. QED
    BY <2>1 DEF OrdersProved!NoUnitLost, NoUnitLost
<1>3. QED
  BY <1>1, <1>2, PaymentsUseOrders, ProvedOfOrders, PTL

-----------------------------------------------------------------------------
(* Orders and payments when no two requests have the same order in hand *)

\* No two processes are between a read and the dependent write of one order in
\* the orders service; payments, refunds and reconciliation may overlap at will.
OrdersDoNotOverlap == OrdersProved!NoOverlap

LEMMA SerialOfOrders ==
    Spec /\ []OrdersDoNotOverlap => OrdersProved!SerialSpec
<1>1. OrdersDoNotOverlap' /\ [OrdersProved!OrdersNext]_(OrdersProved!orderVars)
        => [OrdersProved!SerialNext]_(OrdersProved!orderVars)
  BY DEF OrdersDoNotOverlap, OrdersProved!SerialNext
<1>2. QED
  BY <1>1, PaymentsUseOrders, ProvedOfOrders, PTL
     DEF OrdersProved!OrdersSpec, OrdersProved!SerialSpec

\* As long as the calls to the orders service do not overlap on an order, every
\* unit is either in stock or held by exactly the orders that hold it, whatever
\* payments, refunds, gateways and reconciliation do.
THEOREM PaymentsConserveStock ==
    Spec /\ []OrdersDoNotOverlap => []StockConserved
<1>1. OrdersProved!SerialSpec => []OrdersProved!StockConserved
  BY OrdersProved!SerialConservesStock, WorkerIsNoRequest, SupplyAssumption,
     MaxQtyAssumption, SweepEnabledAssumption
<1>2. OrdersProved!StockConserved => StockConserved
  <2>1. \A q : OrdersProved!HeldUnits(q) = HeldUnits(q)
    BY DEF OrdersProved!HeldUnits, HeldUnits, OrdersProved!Exists, Exists,
       OrdersProved!MapThenSumSet, MapThenSumSet, OrdersProved!MapThenFoldSet,
       MapThenFoldSet
  <2>2. QED
    BY <2>1 DEF OrdersProved!StockConserved, StockConserved
<1>3. QED
  BY <1>1, <1>2, SerialOfOrders, PTL

\* Then nothing is sold twice either.
THEOREM PaymentsNeverOversell ==
    Spec /\ []OrdersDoNotOverlap => []NeverOversold
<1>1. OrdersProved!SerialSpec => []OrdersProved!NeverOversold
  BY OrdersProved!SerialNeverOversells, WorkerIsNoRequest, SupplyAssumption,
     MaxQtyAssumption, SweepEnabledAssumption
<1>2. OrdersProved!NeverOversold => NeverOversold
  <2>1. \A q : OrdersProved!HeldUnits(q) = HeldUnits(q)
    BY DEF OrdersProved!HeldUnits, HeldUnits, OrdersProved!Exists, Exists,
       OrdersProved!MapThenSumSet, MapThenSumSet, OrdersProved!MapThenFoldSet,
       MapThenFoldSet
  <2>2. QED
    BY <2>1 DEF OrdersProved!NeverOversold, NeverOversold
<1>3. QED
  BY <1>1, <1>2, SerialOfOrders, PTL

\* And every step of the two services together is a step of the documented
\* lifecycle of orders or changes nothing of it.
THEOREM PaymentsFollowLifecycle ==
    Spec /\ []OrdersDoNotOverlap => OrdersProved!ImplementsLifecycle
<1>1. OrdersProved!SerialSpec => OrdersProved!ImplementsLifecycle
  BY OrdersProved!SerialImplementsLifecycle, WorkerIsNoRequest,
     SupplyAssumption, MaxQtyAssumption, SweepEnabledAssumption
<1>2. QED
  BY <1>1, SerialOfOrders, PTL

\* Under the same condition the seller of an order is told of it at most once,
\* although its payment may be reported by the buyer's return, by any number of
\* webhooks, by both loops of a reconciliation and for several payments.
THEOREM PaymentsTellOnce ==
    Spec /\ []OrdersDoNotOverlap => []SellerToldOnce
<1>1. OrdersProved!SerialSpec => []OrdersProved!SellerToldOnce
  BY OrdersProved!SerialTellsOnce, WorkerIsNoRequest, SupplyAssumption,
     MaxQtyAssumption, SweepEnabledAssumption
<1>2. OrdersProved!SellerToldOnce => SellerToldOnce
  BY DEF OrdersProved!SellerToldOnce, SellerToldOnce
<1>3. QED
  BY <1>1, <1>2, SerialOfOrders, PTL

-----------------------------------------------------------------------------
(* Payments when no two processes have the same payment in hand *)

\* Whoever may write another outcome over a payment's row saw, or wrote, a row
\* that was not SUCCESS, and nobody else has that payment in hand.
Undecided == {"init", "initFailed", "askPsp", "apply"}
HandUndecided(p) ==
    handler[p].pc \in Undecided => payStatus[handler[p].payment] # "SUCCESS"

UndecidedInv == \A p \in Procs : HandUndecided(p)

LEMMA SuccessByApply ==
    ASSUME TypeOK, [Next]_vars, NEW m \in Payments,
           payStatus[m] # "SUCCESS", payStatus'[m] = "SUCCESS"
    PROVE  \E r \in Procs : ApplyResult(r) /\ handler[r].payment = m
<1> USE DEF TypeOK
<1>1. \A r \in Procs, n \in Payments : ~CreatePayment(r, n)
  BY DEF CreatePayment
<1>2. \A r \in Procs : ~InitFailed(r) /\ ~RefundWrite(r)
  BY DEF InitFailed, RefundWrite
<1>3. PICK r \in Procs : ApplyResult(r)
  BY <1>1, <1>2
     DEF Next, vars, payVars, payRows, OrderHandlers, PaymentHandler,
         PaymentsController, ReconcileJob, TriggerReconcile, Initiate, PspInit,
         PspInitThrows, Verify, Webhook, AskPsp, Refund, PspRefund, PspRefuses,
         Reconcile, ListSince, ScanOne, FindStuck, MarkStuckPaid, ReconcileDone,
         Crash, Caught, BuyerPays, BuyerDeclined
<1>4. QED
  BY <1>3 DEF ApplyResult

LEMMA HandUndecidedStep ==
    ASSUME TypeOK, UndecidedInv, PaymentsDoNotOverlap, [Next]_vars,
           NEW p \in Procs
    PROVE  HandUndecided(p)'
<1> USE DEF Undecided
<1>1. handler \in [Procs -> Calls] /\ PayHandsOK
  BY CallsAreTyped DEF TypeOK, Calls
<1>2. CASE handler'[p] = handler[p]
  <2> SUFFICES ASSUME handler[p].pc \in Undecided,
                      payStatus'[handler[p].payment] = "SUCCESS"
               PROVE  FALSE
    BY <1>2 DEF HandUndecided
  <2>1. /\ handler[p].payment \in Payments
        /\ payStatus[handler[p].payment] # "SUCCESS"
    BY <1>1 DEF PayHandsOK, At, UndecidedInv, HandUndecided
  <2>2. PICK r \in Procs :
            ApplyResult(r) /\ handler[r].payment = handler[p].payment
    BY <2>1, SuccessByApply
  <2>3. CASE r = p
    BY <1>1, <1>2, <2>2, <2>3 DEF ApplyResult, Return, Await, Idle, At
  <2>4. CASE r # p
    BY <2>2, <2>4 DEF PaymentsDoNotOverlap, PaymentInHand, ApplyResult, At
  <2>5. QED
    BY <2>3, <2>4
<1>3. ASSUME handler'[p].pc \notin Undecided
      PROVE  HandUndecided(p)'
  BY <1>3 DEF HandUndecided
<1>4. ASSUME NEW m \in Payments, payStatus[m] # "SUCCESS",
             UNCHANGED payStatus, handler'[p].payment = m
      PROVE  HandUndecided(p)'
  BY <1>4 DEF HandUndecided
<1>5. CASE OrderStep
  <2>1. CASE handler'[p] = [pc |-> "confirm", order |-> handler[p].order]
    BY <1>3, <2>1
  <2>2. CASE handler'[p].pc \notin PayPcs
    BY <1>3, <2>2 DEF PayPcs
  <2>3. QED
    BY <1>2, <1>5, <2>1, <2>2, OrderStepCalls
<1>6. ASSUME NEW m \in Payments, CreatePayment(p, m)
      PROVE  HandUndecided(p)'
  BY <1>1, <1>6 DEF CreatePayment, Await, HandUndecided, TypeOK
<1>7. CASE PspInitThrows(p)
  <2>1. /\ handler[p].payment \in Payments
        /\ payStatus[handler[p].payment] # "SUCCESS"
    BY <1>1, <1>7
       DEF PspInitThrows, PayHandsOK, At, UndecidedInv, HandUndecided
  <2>2. /\ handler'[p] = [pc |-> "initFailed", payment |-> handler[p].payment]
        /\ UNCHANGED payStatus
    BY <1>1, <1>7 DEF PspInitThrows, Await, payRows
  <2>3. QED
    BY <1>4, <2>1, <2>2
<1>8. ASSUME NEW m \in Payments, Verify(p, m) \/ Webhook(p, m)
      PROVE  HandUndecided(p)'
  <2>1. /\ handler'[p] = [pc |-> "askPsp", payment |-> m]
        /\ UNCHANGED payStatus
    BY <1>1, <1>8 DEF Verify, Webhook, Await, payVars, payRows
  <2>2. payStatus[m] # "SUCCESS"
    BY <1>8 DEF Verify, Webhook
  <2>3. QED
    BY <1>4, <2>1, <2>2
<1>9. CASE AskPsp(p)
  <2>1. /\ handler[p].payment \in Payments
        /\ payStatus[handler[p].payment] # "SUCCESS"
    BY <1>1, <1>9 DEF AskPsp, PayHandsOK, At, UndecidedInv, HandUndecided
  <2>2. /\ \E r, b : handler'[p] = [pc |-> "apply",
                                   payment |-> handler[p].payment,
                                   result |-> r, ref |-> b]
        /\ UNCHANGED payStatus
    BY <1>1, <1>9 DEF AskPsp, Await, payVars, payRows
  <2>3. QED
    BY <1>4, <2>1, <2>2
<1>10. ASSUME NEW m \in Payments, ScanOne(p, m)
       PROVE  HandUndecided(p)'
  <2>1. CASE payStatus[m] # "SUCCESS"
    <3>1. /\ handler'[p] = [pc |-> "apply", payment |-> m, result |-> "success",
                            ref |-> TRUE]
          /\ UNCHANGED payStatus
      BY <1>1, <1>10, <2>1 DEF ScanOne, Await, payRows
    <3>2. QED
      BY <1>4, <2>1, <3>1
  <2>2. CASE payStatus[m] = "SUCCESS"
    <3>1. handler'[p] = Idle
      BY <1>1, <1>10, <2>2 DEF ScanOne, Await
    <3>2. QED
      BY <1>3, <3>1 DEF Idle
  <2>3. QED
    BY <2>1, <2>2
<1>11. ASSUME NEW h, Await(p, h), h.pc \notin Undecided
       PROVE  HandUndecided(p)'
  BY <1>1, <1>3, <1>11 DEF Await
<1>12. CASE Return(p)
  BY <1>11, <1>12 DEF Return, Idle
<1>13. ASSUME NEW m \in Payments, Refund(p, m) \/ MarkStuckPaid(p, m)
       PROVE  HandUndecided(p)'
  BY <1>11, <1>13 DEF Refund, MarkStuckPaid
<1>14. CASE ApplyResult(p) \/ PspRefund(p) \/ RefundWrite(p)
            \/ \E o \in Orders : Initiate(p, o)
  BY <1>11, <1>12, <1>14 DEF ApplyResult, PspRefund, RefundWrite, Initiate
<1>15. CASE \/ PspInit(p) \/ InitFailed(p) \/ PspRefuses(p) \/ Crash(p)
            \/ Caught(p)
  BY <1>12, <1>15 DEF PspInit, InitFailed, PspRefuses, Crash, Caught
<1>16. ASSUME NEW r \in Procs, PaymentHandler(r), r # p
       PROVE  handler'[p] = handler[p]
  BY <1>1, <1>16
     DEF PaymentHandler, PaymentsController, ReconcileJob, TriggerReconcile,
         Initiate, CreatePayment, PspInit, PspInitThrows, InitFailed, Verify,
         Webhook, AskPsp, ApplyResult, Refund, PspRefund, PspRefuses,
         RefundWrite, Reconcile, ListSince, ScanOne, FindStuck, MarkStuckPaid,
         ReconcileDone, Crash, Caught, Return, Await
<1>17. CASE PaymentHandler(p)
  BY <1>2, <1>6, <1>7, <1>8, <1>9, <1>10, <1>13, <1>14, <1>15, <1>17
     DEF PaymentHandler, PaymentsController, ReconcileJob, TriggerReconcile,
         Reconcile, ListSince, FindStuck, ReconcileDone
<1>18. QED
  BY <1>2, <1>5, <1>16, <1>17
     DEF Next, vars, orderVars, OrderHandlers, BuyerPays, BuyerDeclined

\* As long as no two processes have one payment in hand, a SUCCESS payment
\* stays so until it is refunded, however often the gateway, the buyer and the
\* reconciliation come back to it: what verify's "already terminal" takes for
\* granted, and what fails if an older answer may be written last.
THEOREM SuccessLasts == Spec /\ []PaymentsDoNotOverlap => SuccessStays
<1>1. Init => UndecidedInv
  BY DEF Init, OrdersInit, UndecidedInv, HandUndecided, Undecided, Idle
<1>2. TypeOK /\ UndecidedInv /\ PaymentsDoNotOverlap /\ [Next]_vars
        => UndecidedInv'
  BY HandUndecidedStep DEF UndecidedInv, Procs
<1>3. TypeOK /\ UndecidedInv /\ [Next]_vars =>
        [\A m \in Payments : payStatus[m] = "SUCCESS"
            => payStatus'[m] \in {"SUCCESS", "REFUNDED"}]_vars
  <2> SUFFICES ASSUME TypeOK, UndecidedInv, [Next]_vars, NEW m \in Payments,
                      payStatus[m] = "SUCCESS"
               PROVE  payStatus'[m] \in {"SUCCESS", "REFUNDED"}
    OBVIOUS
  <2> USE DEF TypeOK
  <2>1. ASSUME NEW p \in Procs, NEW n \in Payments, CreatePayment(p, n)
        PROVE  payStatus'[m] = "SUCCESS"
    BY <2>1 DEF CreatePayment
  <2>2. ASSUME NEW p \in Procs, InitFailed(p) \/ ApplyResult(p)
        PROVE  payStatus'[m] = "SUCCESS"
    <3>1. handler[p].payment # m
      BY <2>2 DEF InitFailed, ApplyResult, At, UndecidedInv, HandUndecided,
         Undecided
    <3>2. QED
      BY <2>2, <3>1 DEF InitFailed, ApplyResult
  <2>3. ASSUME NEW p \in Procs, RefundWrite(p)
        PROVE  payStatus'[m] \in {"SUCCESS", "REFUNDED"}
    BY <2>3 DEF RefundWrite
  <2>4. CASE payStatus' = payStatus
    BY <2>4
  <2>5. QED
    BY <2>1, <2>2, <2>3, <2>4
       DEF Next, vars, payVars, payRows, OrderHandlers, PaymentHandler,
           PaymentsController, ReconcileJob, TriggerReconcile, Initiate,
           PspInit, PspInitThrows, Verify, Webhook, AskPsp, Refund, PspRefund,
           PspRefuses, Reconcile, ListSince, ScanOne, FindStuck, MarkStuckPaid,
           ReconcileDone, Crash, Caught, BuyerPays, BuyerDeclined
<1>4. QED
  BY <1>1, <1>2, <1>3, PaymentsTyping, PTL DEF Spec, SuccessStays

=============================================================================
