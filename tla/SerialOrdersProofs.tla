------------------------- MODULE SerialOrdersProofs -------------------------
(***************************************************************************)
(* Proofs about SerialOrders for any number of orders, products and         *)
(* handlers: without overlap on an order, OrdersService implements the      *)
(* documented lifecycle, keeps the exact ledger of stock, restores stock    *)
(* exactly once and tells the seller at most once.                          *)
(***************************************************************************)
EXTENDS SerialOrders, OrderPromises, OrdersProofs

\* What a handler read of its orders is still so when it comes to write.  This
\* is what overlap destroys, and what makes the refinement go through.
Fresh(p) ==
    /\ At(p, "confirm") => status[handler[p].order] = "PENDING_PAYMENT"
    /\ At(p, "cancel") => status[handler[p].order] \in Cancellable
    /\ At(p, "transition") => status[handler[p].order] = handler[p].step.from
    /\ At(p, "sweep") =>
            \A o \in handler[p].due : status[o] = "PENDING_PAYMENT"

SerialInv ==
    /\ OrdersTypeOK
    /\ StagesInv
    /\ NoOverlap
    /\ \A p \in Procs : Fresh(p)

\* No other handler writes an order that p has in hand.
LEMMA InHandUntouched ==
    ASSUME SerialInv, OrdersNext, NEW p \in Procs, handler'[p] = handler[p],
           NEW o \in InHand(p)
    PROVE  status'[o] = status[o]
<1> USE DEF SerialInv, OrdersTypeOK
<1>1. HandsOK
  BY CallsHandsOK
<1>2. o \in Orders /\ Exists(o)
  BY <1>1 DEF InHand, HandsOK, StagesInv, HandStages, OrderHolding, At
<1>3. ASSUME NEW r \in Procs, r # p
      PROVE  o \notin InHand(r)
  BY <1>3 DEF NoOverlap
<1>4. ASSUME NEW r \in Procs, NEW u \in Orders, CreateTx(r, u)
      PROVE  status'[o] = status[o]
  BY <1>2, <1>4 DEF CreateTx, Exists, RowsTypeOK
<1>5. ASSUME NEW r \in Procs, Confirm(r) \/ TransitionWrite(r)
      PROVE  status'[o] = status[o]
  <2>1. r # p
    BY <1>5 DEF Confirm, TransitionWrite, Return, Await, At, Idle
  <2>2. handler[r].order \in InHand(r)
    BY <1>5 DEF Confirm, TransitionWrite, InHand, At
  <2>3. handler[r].order # o
    BY <1>3, <2>1, <2>2
  <2>4. \E s : status' = [status EXCEPT ![handler[r].order] = s]
    BY <1>5 DEF Confirm, TransitionWrite
  <2>5. QED
    BY <1>2, <2>3, <2>4 DEF RowsTypeOK
<1>6. ASSUME NEW r \in Procs, CancelTx(r)
      PROVE  status'[o] = status[o]
  <2>1. r # p
    BY <1>6 DEF CancelTx, Return, Await, At, Idle
  <2>2. handler[r].order \in InHand(r)
    BY <1>6 DEF CancelTx, InHand, At
  <2>3. handler[r].order # o
    BY <1>3, <2>1, <2>2
  <2>4. QED
    BY <1>6, <2>3 DEF CancelTx, CancelInternal, RowsTypeOK
<1>7. ASSUME NEW r \in Procs, NEW u \in Orders, SweepCancel(r, u)
      PROVE  status'[o] = status[o]
  <2>1. r # p
    <3>1. handler'[r].due = handler[r].due \ {u}
      BY <1>7 DEF SweepCancel, Await
    <3>2. u \in handler[r].due
      BY <1>7 DEF SweepCancel
    <3>3. QED
      BY <3>1, <3>2
  <2>2. u \in InHand(r)
    BY <1>7 DEF SweepCancel, InHand, At
  <2>3. u # o
    BY <1>3, <2>1, <2>2
  <2>4. QED
    BY <1>7, <2>3 DEF SweepCancel, CancelInternal, RowsTypeOK
<1>8. CASE UNCHANGED status
  BY <1>8
<1>9. QED
  BY <1>4, <1>5, <1>6, <1>7, <1>8
     DEF OrdersNext, OrderStep, OrdersController, Procs, Create, OutOfStock,
        MarkPaid,
         CancelByRefund, NotifySeller, EnqueueOrderPlaced, Transition, Cancel,
         CallMarkPaid,
         CallCancelByRefund, Sweep, SweepSkip, SweepDone, Fail, Age, Relist,
         orderRows

\* Without overlap no step makes what another handler read stale.
LEMMA FreshStep ==
    ASSUME SerialInv, OrdersNext, NEW p \in Procs
    PROVE  Fresh(p)'
<1> USE DEF SerialInv, OrdersTypeOK
<1>1. HandsOK
  BY CallsHandsOK
<1>2. ASSUME handler'[p] = handler[p]
      PROVE  Fresh(p)'
  BY <1>2, InHandUntouched DEF Fresh, InHand, At
<1>3. ASSUME handler'[p].pc \notin {"confirm", "cancel", "transition", "sweep"}
      PROVE  Fresh(p)'
  BY <1>3 DEF Fresh, At
<1>4. CASE MarkPaid(p)
  BY <1>1, <1>4 DEF MarkPaid, Await, Fresh, At, Idle, HandsOK, OrderHolding,
                    RowsTypeOK, orderRows
<1>5. CASE CancelByRefund(p)
  BY <1>1, <1>5 DEF CancelByRefund, Await, Fresh, At, Idle, HandsOK,
                    OrderHolding, RowsTypeOK, orderRows
<1>6. ASSUME NEW o \in Orders, Cancel(p, o)
      PROVE  Fresh(p)'
  BY <1>6 DEF Cancel, Await, Fresh, At, RowsTypeOK, orderRows
<1>7. ASSUME NEW o \in Orders, NEW step \in Transitions, Transition(p, o, step)
      PROVE  Fresh(p)'
  BY <1>7 DEF Transition, Await, Fresh, At, RowsTypeOK, orderRows
<1>8. CASE Sweep(p)
  BY <1>8 DEF Sweep, Due, Await, Fresh, At, RowsTypeOK, orderRows
<1>9. ASSUME NEW o \in Orders, SweepCancel(p, o) \/ SweepSkip(p, o)
      PROVE  Fresh(p)'
  <2>1. /\ handler'[p] = [pc |-> "sweep", due |-> handler[p].due \ {o}]
        /\ \A u \in Orders \ {o} : status'[u] = status[u]
    BY <1>9 DEF SweepCancel, SweepSkip, Await, CancelInternal, RowsTypeOK,
                orderRows
  <2>2. \A u \in handler[p].due : u \in Orders /\ status[u] = "PENDING_PAYMENT"
    BY <1>1, <1>9 DEF SweepCancel, SweepSkip, Fresh, HandsOK
  <2>3. QED
    BY <2>1, <2>2 DEF Fresh, At
<1>10. ASSUME handler'[p] # handler[p]
       PROVE  Fresh(p)'
  <2>1. ASSUME NEW r \in Procs, NEW h, Await(r, h)
        PROVE  r = p /\ handler'[p] = h
    BY <1>10, <2>1 DEF Await
  <2>3. ASSUME NEW r \in Procs,
               \/ MarkPaid(r) \/ CancelByRefund(r) \/ Sweep(r)
               \/ \E o \in Orders :
                    \/ Cancel(r, o)
                    \/ SweepCancel(r, o)
                    \/ SweepSkip(r, o)
                    \/ \E step \in Transitions : Transition(r, o, step)
        PROVE  r = p
    BY <2>1, <2>3 DEF MarkPaid, CancelByRefund, Sweep, Cancel, SweepCancel,
                      SweepSkip, Transition
  <2>4. ASSUME NEW r \in Procs,
               \/ \E b \in Baskets : Create(r, b)
               \/ \E o \in Orders : CreateTx(r, o) \/ CallMarkPaid(r, o)
                                        \/ CallCancelByRefund(r, o)
               \/ OutOfStock(r) \/ Confirm(r) \/ NotifySeller(r)
               \/ TransitionWrite(r) \/ CancelTx(r) \/ SweepDone(r) \/ Fail(r)
        PROVE  Fresh(p)'
    <3>1. r = p
      BY <2>1, <2>4 DEF Create, CreateTx, CallMarkPaid, CallCancelByRefund,
                        OutOfStock, Confirm, NotifySeller, EnqueueOrderPlaced,
                        TransitionWrite,
                        CancelTx, SweepDone, Fail, Return
    <3>2. handler'[p].pc \in {"create", "markPaid", "cancelByRefund", "notify",
                              "idle"}
      BY <2>4, <3>1 DEF Create, CreateTx, CallMarkPaid, CallCancelByRefund,
                        OutOfStock, Confirm, NotifySeller, EnqueueOrderPlaced,
                        TransitionWrite,
                        CancelTx, SweepDone, Fail, Return, Await, Idle
    <3>3. QED
      BY <1>3, <3>2
  <2>5. QED
    BY <1>4, <1>5, <1>6, <1>7, <1>8, <1>9, <1>10, <2>3, <2>4
       DEF OrdersNext, OrderStep, OrdersController, Procs, Age, Relist
<1>11. QED
  BY <1>2, <1>10

\* Without overlap what a handler read still holds when it writes.
LEMMA SerialInvariant == SerialSpec => []SerialInv
<1>1. OrdersInit => SerialInv
  <2>1. OrdersInit => OrdersTypeOK
    <3>1. Idle \in OrderCalls
      BY DEF OrderCalls
    <3>2. NoItems \in [Products -> 0..MaxQty]
      BY MaxQtyAssumption DEF NoItems
    <3>3. QED
      BY <3>1, <3>2, SupplyAssumption DEF OrdersInit, OrdersTypeOK, RowsTypeOK
  <2>2. OrdersInit => StagesInv
    BY DEF OrdersInit, StagesInv, RowStages, HandStages, Idle, At,
           OrderHolding, Trail
  <2>3. OrdersInit => NoOverlap
    BY DEF OrdersInit, NoOverlap, InHand, Idle, At
  <2>4. OrdersInit => \A p \in Procs : Fresh(p)
    BY DEF OrdersInit, Fresh, Idle, At
  <2>5. QED
    BY <2>1, <2>2, <2>3, <2>4 DEF SerialInv
<1>2. SerialInv /\ [SerialNext]_orderVars => SerialInv'
  <2>1. SUFFICES ASSUME SerialInv, SerialNext
                 PROVE  SerialInv'
    <3>1. ASSUME SerialInv, UNCHANGED orderVars
          PROVE  SerialInv'
      <4> USE <3>1 DEF orderVars, SerialInv
      <4>1. OrdersTypeOK'
        BY DEF OrdersTypeOK, RowsTypeOK
      <4>2. StagesInv'
        BY DEF StagesInv, RowStages, HandStages, Exists, At
      <4>3. \A p \in Procs : InHand(p)' = InHand(p)
        BY DEF InHand, At
      <4>4. NoOverlap'
        BY <4>3 DEF NoOverlap, Procs
      <4>5. \A p \in Procs : Fresh(p)'
        BY DEF Fresh, At
      <4>6. QED
        BY <4>1, <4>2, <4>4, <4>5 DEF Procs
    <3>2. QED
      BY <3>1
  <2>2. OrdersTypeOK' /\ StagesInv'
    BY <2>1, CallsHandsOK, RowsStep, HandlerStep, StagesInvStep
       DEF SerialInv, OrdersTypeOK, SerialNext
  <2>3. NoOverlap'
    BY <2>1 DEF SerialNext
  <2>4. \A p \in Procs : Fresh(p)'
    BY <2>1, FreshStep DEF SerialNext
  <2>5. QED
    BY <2>2, <2>3, <2>4 DEF SerialInv, Procs
<1>3. QED
  BY <1>1, <1>2, PTL DEF SerialSpec

-----------------------------------------------------------------------------
(* The documented lifecycle *)

\* A cancellation of a fresh order is the lifecycle's CancelOrder.
LEMMA CancelInternalRefines ==
    ASSUME NEW o \in Orders, status[o] \in Cancellable, CancelInternal(o)
    PROVE  Lifecycle!Next
BY DEF CancelInternal, Cancellable, Lifecycle!Next, Lifecycle!CancelOrder

\* A step of the handlers is a step of the lifecycle or changes nothing of it.
LEMMA StepRefines ==
    ASSUME SerialInv, OrdersNext
    PROVE  [Lifecycle!Next]_(Lifecycle!lifecycleVars)
<1> USE DEF Lifecycle!lifecycleVars
<1>1. HandsOK
  BY CallsHandsOK DEF SerialInv, OrdersTypeOK
<1>2. ASSUME NEW p \in Procs, NEW o \in Orders, CreateTx(p, o)
      PROVE  Lifecycle!Next
  <2> DEFINE basket == handler[p].basket
  <2>1. basket \in [Products -> 0..MaxQty]
    BY <1>1, <1>2 DEF CreateTx, HandsOK, Baskets
  <2>2. \A q \in Products : basket[q] <= stock[q]
    BY <1>2, <2>1 DEF CreateTx, InStock, SerialInv, OrdersTypeOK, RowsTypeOK
  <2>3. Lifecycle!Place(o, basket)
    BY <1>2, <2>2 DEF CreateTx, Exists, Lifecycle!Place
  <2> HIDE DEF basket
  <2>4. QED
    BY <2>1, <2>3 DEF Lifecycle!Next
<1>3. ASSUME NEW p \in Procs, Confirm(p)
      PROVE  Lifecycle!Next
  <2> DEFINE o == handler[p].order
  <2>1. o \in Orders /\ status[o] = "PENDING_PAYMENT"
    BY <1>1, <1>3 DEF Confirm, HandsOK, OrderHolding, At, SerialInv, Fresh
  <2>2. Lifecycle!Advance(o, "PENDING_PAYMENT", "CONFIRMED")
    BY <1>3, <2>1 DEF Confirm, Lifecycle!Advance
  <2> HIDE DEF o
  <2>3. QED
    BY <2>1, <2>2 DEF Lifecycle!Next
<1>4. ASSUME NEW p \in Procs, TransitionWrite(p)
      PROVE  Lifecycle!Next
  <2> DEFINE o == handler[p].order
             step == handler[p].step
  <2>1. o \in Orders /\ step \in Transitions /\ status[o] = step.from
    BY <1>1, <1>4 DEF TransitionWrite, HandsOK, OrderHolding, At, SerialInv,
                      Fresh
  <2>2. Lifecycle!Advance(o, step.from, step.to)
    BY <1>4, <2>1 DEF TransitionWrite, Lifecycle!Advance
  <2> HIDE DEF o, step
  <2>3. QED
    BY <2>1, <2>2 DEF Lifecycle!Next, Transitions
<1>5. ASSUME NEW p \in Procs, CancelTx(p)
      PROVE  Lifecycle!Next
  <2>1. handler[p].order \in Orders /\ status[handler[p].order] \in Cancellable
    BY <1>1, <1>5 DEF CancelTx, HandsOK, OrderHolding, At, SerialInv, Fresh
  <2>2. QED
    BY <1>5, <2>1, CancelInternalRefines DEF CancelTx
<1>6. ASSUME NEW p \in Procs, NEW o \in Orders, SweepCancel(p, o)
      PROVE  Lifecycle!Next
  <2>1. status[o] \in Cancellable
    BY <1>6 DEF SweepCancel, SerialInv, Fresh, Cancellable
  <2>2. QED
    BY <1>6, <2>1, CancelInternalRefines DEF SweepCancel
<1>7. CASE UNCHANGED <<stock, status, items>>
  BY <1>7
<1>8. QED
  BY <1>2, <1>3, <1>4, <1>5, <1>6, <1>7
     DEF OrdersNext, OrderStep, OrdersController, Procs, Create, OutOfStock,
        MarkPaid,
         CancelByRefund, NotifySeller, EnqueueOrderPlaced, Transition, Cancel,
         CallMarkPaid,
         CallCancelByRefund, Sweep, SweepSkip, SweepDone, Fail, Age, Relist,
         orderRows

\* Without overlap on an order, OrdersService implements the lifecycle the
\* documentation describes, through failures at any await and for any number
\* of orders competing for stock.
THEOREM SerialImplementsLifecycle == SerialSpec => ImplementsLifecycle
<1>1. OrdersInit => Lifecycle!Init
  BY DEF OrdersInit, Lifecycle!Init, NoItems, Lifecycle!NothingOrdered
<1>2. SerialInv /\ [SerialNext]_orderVars
        => [Lifecycle!Next]_(Lifecycle!lifecycleVars)
  BY StepRefines DEF SerialNext, orderVars, Lifecycle!lifecycleVars
<1>3. QED
  BY <1>1, <1>2, SerialInvariant, PTL
     DEF SerialSpec, ImplementsLifecycle, Lifecycle!Spec

-----------------------------------------------------------------------------
(* The ledger is exact *)

\* The lifecycle takes an order out of the ledger, or changes its status, only
\* while the order is in it: its steps keep the balance of every product.
LEMMA LifecycleBalance ==
    ASSUME RowsTypeOK, FinitelyMany, NEW q \in Products,
           [Lifecycle!Next]_(Lifecycle!lifecycleVars)
    PROVE  Balance(q)' = Balance(q)
<1>1. CASE UNCHANGED Lifecycle!lifecycleVars
  BY <1>1, BalanceByHolding DEF Lifecycle!lifecycleVars, Holding, Exists
<1>2. ASSUME NEW o \in Orders, NEW b \in [Products -> 0..MaxQty],
             Lifecycle!Place(o, b)
      PROVE  Balance(q)' = Balance(q)
  <2>1. Placed(o, b)
    BY <1>2 DEF Lifecycle!Place, Placed, Exists
  <2>2. QED
    BY <2>1, PlacedBalance
<1>3. ASSUME NEW o \in Orders, NEW from \in Statuses, from # "CANCELLED",
             NEW to \in Statuses, to # "CANCELLED",
             Lifecycle!Advance(o, from, to)
      PROVE  Balance(q)' = Balance(q)
  <2>1. Advanced(o, to)
    BY <1>3 DEF Lifecycle!Advance, Advanced, Statuses
  <2>2. o \in Holding
    BY <1>3 DEF Lifecycle!Advance, Holding, Exists, Statuses
  <2>3. QED
    BY <2>1, <2>2, AdvancedBalance
<1>4. ASSUME NEW o \in Orders, Lifecycle!CancelOrder(o)
      PROVE  Balance(q)' = Balance(q)
  <2>1. Cancelled(o)
    BY <1>4 DEF Lifecycle!CancelOrder, Cancelled
  <2>2. o \in Holding
    BY <1>4 DEF Lifecycle!CancelOrder, Holding, Exists
  <2>3. QED
    BY <2>1, <2>2, CancelledBalance
<1>5. QED
  BY <1>1, <1>2, <1>3, <1>4 DEF Lifecycle!Next, Statuses

\* What is on the shelf and what orders hold is at all times what there was at
\* first, because the handlers implement the lifecycle.
LedgerExact == FinitelyMany /\ \A q \in Products : Balance(q) = Supply[q]

LEMMA LedgerIsExact == SerialSpec => []LedgerExact
<1>1. OrdersInit => LedgerExact
  BY BalanceAtFirst DEF LedgerExact
<1>2. SerialInv /\ LedgerExact /\ [SerialNext]_orderVars => LedgerExact'
  <2> SUFFICES ASSUME SerialInv, LedgerExact, [SerialNext]_orderVars
               PROVE  LedgerExact'
    OBVIOUS
  <2>1. RowsTypeOK /\ HandsOK /\ FinitelyMany
    BY CallsHandsOK DEF SerialInv, OrdersTypeOK, LedgerExact
  <2>2. FinitelyMany'
    <3>1. LedgerStep
      BY <2>1, LedgerSteps DEF SerialNext
    <3>2. QED
      BY <2>1, <3>1, FinitelyManyStep
  <2>3. [Lifecycle!Next]_(Lifecycle!lifecycleVars)
    BY StepRefines DEF SerialNext, orderVars, Lifecycle!lifecycleVars
  <2>4. \A q \in Products : Balance(q)' = Balance(q)
    BY <2>1, <2>3, LifecycleBalance
  <2>5. QED
    BY <2>2, <2>4 DEF LedgerExact
<1>3. QED
  BY <1>1, <1>2, SerialInvariant, PTL DEF SerialSpec

\* Without overlap on an order every unit of stock is on the shelf or held by
\* an order that is not cancelled, and only once, for any number of products,
\* orders and handlers, whichever of them fail half way.
THEOREM SerialConservesStock == SerialSpec => []StockConserved
<1>1. LedgerExact => StockConserved
  BY DEF LedgerExact, StockConserved, Balance
<1>2. QED
  BY <1>1, LedgerIsExact, PTL

\* Under the same condition the orders that are not cancelled never hold more
\* than the supply: nothing is sold twice.
THEOREM SerialNeverOversells == SerialSpec => []NeverOversold
<1>1. SerialInv /\ LedgerExact => NeverOversold
  <2> SUFFICES ASSUME SerialInv, LedgerExact, NEW q \in Products
               PROVE  HeldUnits(q) <= Supply[q]
    BY DEF NeverOversold
  <2>1. RowsTypeOK /\ FinitelyMany
    BY DEF SerialInv, OrdersTypeOK, LedgerExact
  <2>2. stock[q] \in Nat /\ UnitsIn(items, q, Holding) \in Nat
    BY <2>1, HoldingFinite
  <2>3. HeldUnits(q) = UnitsIn(items, q, Holding)
    BY DEF HeldUnits, UnitsIn, Holding
  <2>4. stock[q] + HeldUnits(q) = Supply[q]
    BY DEF LedgerExact, Balance
  <2>5. QED
    BY <2>2, <2>3, <2>4
<1>2. QED
  BY <1>1, LedgerIsExact, SerialInvariant, PTL

-----------------------------------------------------------------------------
(* Stock is restored once *)

\* Every step restores an order's items exactly when it cancels it.
LEMMA RestoredStep ==
    ASSUME SerialInv, RestoredExactlyOnce, OrdersNext
    PROVE  RestoredExactlyOnce'
<1> USE DEF RestoredExactlyOnce
<1>1. HandsOK /\ RowsTypeOK
  BY CallsHandsOK DEF SerialInv, OrdersTypeOK
<1>2. ASSUME NEW p \in Procs, NEW o \in Orders, CreateTx(p, o)
      PROVE  RestoredExactlyOnce'
  BY <1>1, <1>2 DEF CreateTx, Exists, RowsTypeOK
<1>3. ASSUME NEW p \in Procs, Confirm(p)
      PROVE  RestoredExactlyOnce'
  <2>1. status[handler[p].order] = "PENDING_PAYMENT"
    BY <1>3 DEF Confirm, SerialInv, Fresh
  <2>2. QED
    BY <1>1, <1>3, <2>1 DEF Confirm, RowsTypeOK
<1>4. ASSUME NEW p \in Procs, TransitionWrite(p)
      PROVE  RestoredExactlyOnce'
  <2>1. /\ status[handler[p].order] # "CANCELLED"
        /\ handler[p].step.to # "CANCELLED"
    BY <1>1, <1>4 DEF TransitionWrite, SerialInv, Fresh, HandsOK, Transitions
  <2>2. QED
    BY <1>1, <1>4, <2>1 DEF TransitionWrite, RowsTypeOK
<1>5. ASSUME NEW o \in Orders, status[o] \in Cancellable, CancelInternal(o)
      PROVE  RestoredExactlyOnce'
  BY <1>1, <1>5 DEF CancelInternal, Cancellable, RowsTypeOK
<1>6. ASSUME NEW p \in Procs, CancelTx(p)
      PROVE  RestoredExactlyOnce'
  <2>1. handler[p].order \in Orders /\ status[handler[p].order] \in Cancellable
    BY <1>1, <1>6 DEF CancelTx, HandsOK, OrderHolding, At, SerialInv, Fresh
  <2>2. QED
    BY <1>5, <1>6, <2>1 DEF CancelTx
<1>7. ASSUME NEW p \in Procs, NEW o \in Orders, SweepCancel(p, o)
      PROVE  RestoredExactlyOnce'
  <2>1. status[o] \in Cancellable
    BY <1>7 DEF SweepCancel, SerialInv, Fresh, Cancellable
  <2>2. QED
    BY <1>5, <1>7, <2>1 DEF SweepCancel
<1>8. CASE UNCHANGED <<status, restored>>
  BY <1>8
<1>9. QED
  BY <1>2, <1>3, <1>4, <1>6, <1>7, <1>8
     DEF OrdersNext, OrderStep, OrdersController, Procs, Create, OutOfStock,
        MarkPaid,
         CancelByRefund, NotifySeller, EnqueueOrderPlaced, Transition, Cancel,
         CallMarkPaid,
         CallCancelByRefund, Sweep, SweepSkip, SweepDone, Fail, Age, Relist,
         orderRows

\* Without overlap on an order its items go back to stock exactly when it is
\* cancelled, and once: by the buyer, by a refund or by the sweep.
THEOREM SerialRestoresOnce == SerialSpec => []RestoredExactlyOnce
<1>1. OrdersInit => RestoredExactlyOnce
  BY DEF OrdersInit, RestoredExactlyOnce
<1>2. SerialInv /\ RestoredExactlyOnce /\ [SerialNext]_orderVars
        => RestoredExactlyOnce'
  BY RestoredStep DEF SerialNext, orderVars, RestoredExactlyOnce
<1>3. QED
  BY <1>1, <1>2, SerialInvariant, PTL DEF SerialSpec

-----------------------------------------------------------------------------
(* The seller is told once *)

\* Orders that nobody has paid for yet.
Unpaid(o) == status[o] \in {"NONE", "PENDING_PAYMENT"}

\* The seller is told of paid orders, and has not been told of one that a
\* handler is still to tell of; no two handlers are to tell of the same.
Telling(p) ==
    At(p, "notify") =>
        /\ notified[handler[p].order] = 0
        /\ ~Unpaid(handler[p].order)
        /\ \A r \in Procs \ {p} :
                At(r, "notify") => handler[r].order # handler[p].order

ToldInv ==
    /\ \A o \in Orders : notified[o] <= 1 /\ (Unpaid(o) => notified[o] = 0)
    /\ \A p \in Procs : Telling(p)

\* The status of an order that was paid never becomes unpaid again.
LEMMA PaidStays ==
    ASSUME SerialInv, OrdersNext, NEW o \in Orders, Unpaid(o)'
    PROVE  Unpaid(o)
<1> USE DEF Unpaid
<1>1. HandsOK /\ RowsTypeOK
  BY CallsHandsOK DEF SerialInv, OrdersTypeOK
<1>2. ASSUME NEW p \in Procs, NEW u \in Orders, CreateTx(p, u)
      PROVE  Unpaid(o)
  BY <1>1, <1>2 DEF CreateTx, Exists, RowsTypeOK
<1>3. ASSUME NEW p \in Procs, Confirm(p)
      PROVE  Unpaid(o)
  BY <1>1, <1>3 DEF Confirm, RowsTypeOK
<1>4. ASSUME NEW p \in Procs, TransitionWrite(p)
      PROVE  Unpaid(o)
  <2>1. handler[p].step.to \notin {"NONE", "PENDING_PAYMENT"}
    BY <1>1, <1>4 DEF TransitionWrite, HandsOK, Transitions
  <2>2. QED
    BY <1>1, <1>4, <2>1 DEF TransitionWrite, RowsTypeOK
<1>5. ASSUME NEW u, CancelInternal(u)
      PROVE  Unpaid(o)
  BY <1>1, <1>5 DEF CancelInternal, RowsTypeOK
<1>6. CASE UNCHANGED status
  BY <1>6
<1>7. QED
  BY <1>2, <1>3, <1>4, <1>5, <1>6
     DEF OrdersNext, OrderStep, OrdersController, Procs, Create, OutOfStock,
        MarkPaid,
         CancelByRefund, NotifySeller, EnqueueOrderPlaced, Transition, Cancel,
         CallMarkPaid,
         CallCancelByRefund, Sweep, SweepSkip, SweepDone, Fail, Age, Relist,
         CancelTx, SweepCancel, orderRows

\* Only Confirm leaves a handler at "notify", only NotifySeller, EnqueueOrderPlaced tells.
LEMMA OthersTellNothing ==
    ASSUME SerialInv, OrdersNext,
           \A p \in Procs : ~Confirm(p) /\ ~NotifySeller(p)
    PROVE  /\ notified' = notified
           /\ \A p \in Procs : At(p, "notify")' => handler'[p] = handler[p]
<1>1. ASSUME NEW p \in Procs, NEW h, h.pc # "notify", Await(p, h)
      PROVE  \A r \in Procs : At(r, "notify")' => handler'[r] = handler[r]
  BY <1>1 DEF SerialInv, OrdersTypeOK, Await, At
<1>2. Idle.pc # "notify"
  BY DEF Idle
<1>3. ASSUME NEW p \in Procs, MarkPaid(p) \/ CancelByRefund(p)
      PROVE  \A r \in Procs : At(r, "notify")' => handler'[r] = handler[r]
  BY <1>1, <1>2, <1>3 DEF MarkPaid, CancelByRefund
<1>4. ASSUME NEW p \in Procs,
             \/ \E b \in Baskets : Create(p, b)
             \/ \E o \in Orders : CreateTx(p, o) \/ CallMarkPaid(p, o)
                                    \/ CallCancelByRefund(p, o) \/ Cancel(p, o)
             \/ \E o \in Orders, step \in Transitions : Transition(p, o, step)
             \/ OutOfStock(p) \/ TransitionWrite(p) \/ CancelTx(p) \/ Fail(p)
      PROVE  \A r \in Procs : At(r, "notify")' => handler'[r] = handler[r]
  BY <1>1, <1>2, <1>4
     DEF Create, CreateTx, CallMarkPaid, CallCancelByRefund, Cancel,
         Transition, OutOfStock, TransitionWrite, CancelTx, Fail, Return
<1>5. ASSUME NEW p \in Procs,
             \/ Sweep(p) \/ SweepDone(p)
             \/ \E o \in Orders : SweepCancel(p, o) \/ SweepSkip(p, o)
      PROVE  \A r \in Procs : At(r, "notify")' => handler'[r] = handler[r]
  BY <1>1, <1>2, <1>5 DEF Sweep, SweepDone, SweepCancel, SweepSkip, Return
<1>6. ASSUME UNCHANGED handler
      PROVE  \A r \in Procs : At(r, "notify")' => handler'[r] = handler[r]
  BY <1>6
<1>7. \A r \in Procs : At(r, "notify")' => handler'[r] = handler[r]
  BY <1>3, <1>4, <1>5, <1>6 DEF OrdersNext, OrderStep, OrdersController, Procs,
     Age, Relist
<1>8. notified' = notified
  BY DEF OrdersNext, OrderStep, OrdersController, Procs, Create, CreateTx,
     OutOfStock, MarkPaid,
         Transition, TransitionWrite, Cancel, CancelByRefund, CancelTx,
         CancelInternal, Sweep, SweepCancel, SweepSkip, SweepDone, Age, Relist,
         Fail, CallMarkPaid, CallCancelByRefund
<1>9. QED
  BY <1>7, <1>8

\* A confirmed order was unpaid, so nobody has told of it or is about to.
LEMMA ToldStep ==
    ASSUME SerialInv, ToldInv, OrdersNext
    PROVE  ToldInv'
<1>1. HandsOK /\ RowsTypeOK /\ handler \in [Procs -> OrderCalls]
  BY CallsHandsOK DEF SerialInv, OrdersTypeOK
<1>2. ASSUME NEW p \in Procs, Confirm(p)
      PROVE  ToldInv'
  <2>1. PICK o \in Orders : o = handler[p].order
    BY <1>1, <1>2 DEF Confirm, HandsOK, OrderHolding, At
  <2>2. status[o] = "PENDING_PAYMENT" /\ Unpaid(o)
    BY <1>2, <2>1 DEF Confirm, At, SerialInv, Fresh, Unpaid
  <2>3. /\ handler' = [handler EXCEPT ![p] = [pc |-> "notify", order |-> o]]
        /\ notified' = notified
        /\ status' = [status EXCEPT ![o] = "CONFIRMED"]
    BY <1>2, <2>1 DEF Confirm, Await
  <2>4. notified[o] = 0 /\ status'[o] = "CONFIRMED"
    BY <1>1, <2>2, <2>3 DEF ToldInv, RowsTypeOK
  <2>5. \A u \in Orders : Unpaid(u)' => Unpaid(u)
    BY PaidStays
  <2>6. \A r \in Procs : At(r, "notify") => handler[r].order # o
    BY <2>2 DEF ToldInv, Telling
  <2>7. \A r \in Procs \ {p} :
            handler'[r] = handler[r]
              /\ (At(r, "notify") => handler[r].order \in Orders)
    BY <1>1, <2>3 DEF HandsOK, OrderHolding, At
  <2>8. handler'[p] = [pc |-> "notify", order |-> o]
    BY <1>1, <2>3
  <2>9. Telling(p)'
    BY <2>3, <2>4, <2>6, <2>7, <2>8 DEF Telling, At, Unpaid
  <2>10. ASSUME NEW r \in Procs \ {p} PROVE Telling(r)'
    <3>1. ASSUME At(r, "notify")
          PROVE  /\ notified'[handler[r].order] = 0
                 /\ ~Unpaid(handler[r].order)
                 /\ \A q \in Procs \ {r} :
                        At(q, "notify") => handler[q].order # handler[r].order
                 /\ handler[r].order # o
      BY <2>3, <2>6, <3>1 DEF ToldInv, Telling
    <3>2. QED
      BY <2>3, <2>5, <2>7, <2>8, <3>1 DEF Telling, At, Unpaid
  <2>11. QED
    BY <2>3, <2>5, <2>9, <2>10 DEF ToldInv
<1>3. ASSUME NEW p \in Procs, NotifySeller(p)
      PROVE  ToldInv'
  <2> DEFINE o == handler[p].order
  <2>1. o \in Orders /\ notified[o] = 0 /\ ~Unpaid(o)
    BY <1>1, <1>3 DEF NotifySeller, EnqueueOrderPlaced, HandsOK, OrderHolding,
       At, ToldInv, Telling
  <2>2. /\ handler' = [handler EXCEPT ![p] = Idle]
        /\ notified' = [notified EXCEPT ![o] = @ + 1] \/ notified' = notified
        /\ \A u \in Orders : Unpaid(u)' <=> Unpaid(u)
    BY <1>3 DEF NotifySeller, EnqueueOrderPlaced, Return, Await, orderRows,
       Unpaid
  <2>3. \A r \in Procs \ {p} : At(r, "notify") => handler[r].order # o
    BY <1>3 DEF NotifySeller, EnqueueOrderPlaced, ToldInv, Telling
  <2> HIDE DEF o
  <2>4. \A u \in Orders : notified'[u] <= 1 /\ (Unpaid(u)' => notified'[u] = 0)
    BY <1>1, <2>1, <2>2 DEF ToldInv, RowsTypeOK
  <2>5. ASSUME NEW r \in Procs PROVE Telling(r)'
    <3>1. CASE r = p
      BY <1>1, <2>2, <3>1 DEF Telling, At, Idle
    <3>2. CASE r # p /\ At(r, "notify")
      <4>1. handler[r].order \in Orders /\ handler[r].order # o
        BY <1>1, <2>3, <3>2 DEF HandsOK, OrderHolding, At
      <4>2. handler'[r] = handler[r]
        BY <1>1, <2>2, <3>2
      <4>3. /\ notified'[handler[r].order] = 0
            /\ ~Unpaid(handler[r].order)'
        BY <1>1, <2>1, <2>2, <3>2, <4>1 DEF ToldInv, Telling, RowsTypeOK
      <4>4. \A q \in Procs \ {r} :
                At(q, "notify")' => handler'[q].order # handler[r].order
        BY <1>1, <2>2, <3>2 DEF ToldInv, Telling, At, Idle
      <4>5. QED
        BY <4>2, <4>3, <4>4 DEF Telling, Unpaid
    <3>3. CASE r # p /\ ~At(r, "notify")
      BY <1>1, <2>2, <3>3 DEF Telling, At
    <3>4. QED
      BY <3>1, <3>2, <3>3
  <2>6. QED
    BY <2>4, <2>5 DEF ToldInv
<1>4. ASSUME \A p \in Procs : ~Confirm(p) /\ ~NotifySeller(p)
      PROVE  ToldInv'
  <2>1. /\ notified' = notified
        /\ \A p \in Procs : At(p, "notify")' => handler'[p] = handler[p]
    BY <1>4, OthersTellNothing
  <2>2. \A u \in Orders : Unpaid(u)' => Unpaid(u)
    BY PaidStays
  <2>3. ASSUME NEW p \in Procs, At(p, "notify")'
        PROVE  Telling(p)'
    <3>1. handler'[p] = handler[p] /\ At(p, "notify")
      BY <2>1, <2>3 DEF At
    <3>2. handler[p].order \in Orders
      BY <1>1, <3>1 DEF HandsOK, OrderHolding, At
    <3>3. \A r \in Procs : At(r, "notify")' =>
                At(r, "notify") /\ handler'[r] = handler[r]
      BY <2>1 DEF At
    <3>4. QED
      BY <2>1, <2>2, <3>1, <3>2, <3>3 DEF ToldInv, Telling
  <2>4. \A p \in Procs : Telling(p)'
    BY <2>3 DEF Telling
  <2>5. QED
    BY <2>1, <2>2, <2>4 DEF ToldInv
<1>5. QED
  BY <1>2, <1>3, <1>4

\* Without overlap on an order its seller is told of it at most once, although
\* webhook, verification and reconciliation all report the same payment and
\* any of them may fail before it has told.
THEOREM SerialTellsOnce == SerialSpec => []SellerToldOnce
<1>1. OrdersInit => ToldInv
  BY DEF OrdersInit, ToldInv, Telling, Idle, At
<1>2. SerialInv /\ ToldInv /\ [SerialNext]_orderVars => ToldInv'
  <2>1. ASSUME ToldInv, UNCHANGED orderVars
        PROVE  ToldInv'
    BY <2>1 DEF orderVars, orderRows, ToldInv, Telling, At, Unpaid
  <2>2. QED
    BY <2>1, ToldStep DEF SerialNext
<1>3. ToldInv => SellerToldOnce
  BY DEF ToldInv, SellerToldOnce
<1>4. QED
  BY <1>1, <1>2, <1>3, SerialInvariant, PTL DEF SerialSpec

=============================================================================
