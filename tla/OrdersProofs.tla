---------------------------- MODULE OrdersProofs ----------------------------
(***************************************************************************)
(* Proofs about Orders for any number of orders, products and handlers:     *)
(* type correctness (stock never goes below zero, so nothing is oversold),  *)
(* StagesInOrder and NoUnitLost.  The lemmas about steps ask of handler     *)
(* only HandsOK, so that they also serve a module with more kinds of calls. *)
(***************************************************************************)
EXTENDS OrderPromises, FiniteSetTheorems, WellFoundedInduction, TLAPS

OrderHolding == {"markPaid", "confirm", "notify", "cancelByRefund", "cancel",
                 "transition"}

\* What a handler has in hand, by the await it is at.
HandsOK ==
    \A p \in Procs :
        /\ At(p, "create") => handler[p].basket \in Baskets
        /\ handler[p].pc \in OrderHolding => handler[p].order \in Orders
        /\ At(p, "transition") => handler[p].step \in Transitions
        /\ At(p, "sweep") => handler[p].due \in SUBSET Orders

\* A handler of the orders module is well typed at every await.
LEMMA CallsHandsOK ==
    ASSUME handler \in [Procs -> OrderCalls]
    PROVE  HandsOK
<1>1. SUFFICES ASSUME NEW p \in Procs
               PROVE  /\ At(p, "create") => handler[p].basket \in Baskets
                      /\ handler[p].pc \in OrderHolding
                            => handler[p].order \in Orders
                      /\ At(p, "transition") => handler[p].step \in Transitions
                      /\ At(p, "sweep") => handler[p].due \in SUBSET Orders
  BY DEF HandsOK
<1>2. handler[p] \in OrderCalls
  OBVIOUS
<1>3. QED
  BY <1>2 DEF OrderCalls, Idle, At, OrderHolding

\* CancelInternal keeps the rows well typed.
LEMMA CancelInternalRows ==
    ASSUME RowsTypeOK, NEW o \in Orders, CancelInternal(o)
    PROVE  RowsTypeOK'
<1>1. items[o] \in [Products -> 0..MaxQty]
  BY DEF RowsTypeOK
<1>2. \A q \in Products : stock[q] + items[o][q] \in Nat
  BY <1>1, MaxQtyAssumption DEF RowsTypeOK
<1>3. stock' \in [Products -> Nat]
  BY <1>2 DEF CancelInternal
<1>4. status' \in [Orders -> Statuses \cup {"NONE"}]
  BY DEF RowsTypeOK, CancelInternal, Statuses
<1>5. stamps' \in [Orders -> SUBSET Stamps]
  BY DEF RowsTypeOK, CancelInternal, Stamps
<1>6. restored' \in [Orders -> Nat]
  BY DEF RowsTypeOK, CancelInternal
<1>7. QED
  BY <1>3, <1>4, <1>5, <1>6 DEF RowsTypeOK, CancelInternal

\* Every step keeps the rows well typed: in particular the guarded decrement
\* of CreateTx leaves stock a natural number, for baskets of any size.
LEMMA RowsStep ==
    ASSUME RowsTypeOK, HandsOK, [OrdersNext]_orderVars
    PROVE  RowsTypeOK'
<1> USE DEF RowsTypeOK, orderRows
<1>1. CASE UNCHANGED orderVars
  BY <1>1 DEF orderVars
<1>2. ASSUME NEW p \in Procs, NEW b \in Baskets, Create(p, b)
      PROVE  RowsTypeOK'
  BY <1>2 DEF Create
<1>3. ASSUME NEW p \in Procs, NEW o \in Orders, CreateTx(p, o)
      PROVE  RowsTypeOK'
  <2>1. handler[p].basket \in [Products -> 0..MaxQty]
    BY <1>3 DEF CreateTx, HandsOK, Baskets
  <2>2. \A q \in Products : stock[q] - handler[p].basket[q] \in Nat
    BY <1>3, <2>1, MaxQtyAssumption DEF CreateTx, InStock
  <2>3. stock' \in [Products -> Nat]
    BY <1>3, <2>2 DEF CreateTx
  <2>4. status' \in [Orders -> Statuses \cup {"NONE"}]
    BY <1>3 DEF CreateTx, Statuses
  <2>5. items' \in [Orders -> [Products -> 0..MaxQty]]
    BY <1>3, <2>1 DEF CreateTx
  <2>6. QED
    BY <1>3, <2>3, <2>4, <2>5 DEF CreateTx
<1>4. ASSUME NEW p \in Procs, OutOfStock(p) \/ MarkPaid(p) \/ CancelByRefund(p)
                              \/ Sweep(p) \/ SweepDone(p) \/ Fail(p)
      PROVE  RowsTypeOK'
  BY <1>4 DEF OutOfStock, MarkPaid, CancelByRefund, Sweep, SweepDone, Fail
<1>5. ASSUME NEW p \in Procs, Confirm(p)
      PROVE  RowsTypeOK'
  BY <1>5 DEF Confirm, Statuses, Stamps
<1>6. ASSUME NEW p \in Procs, NotifySeller(p)
      PROVE  RowsTypeOK'
  BY <1>6 DEF NotifySeller, EnqueueOrderPlaced
<1>7. ASSUME NEW p \in Procs, NEW o \in Orders, NEW step \in Transitions,
             Transition(p, o, step)
      PROVE  RowsTypeOK'
  BY <1>7 DEF Transition
<1>8. ASSUME NEW p \in Procs, TransitionWrite(p)
      PROVE  RowsTypeOK'
  <2>1. handler[p].step \in Transitions
    BY <1>8 DEF TransitionWrite, HandsOK
  <2>2. handler[p].step.to \in Statuses /\ handler[p].step.stamp \in Stamps
    BY <2>1 DEF Transitions, Statuses, Stamps
  <2>3. status' \in [Orders -> Statuses \cup {"NONE"}]
    BY <1>8, <2>2 DEF TransitionWrite
  <2>4. stamps' \in [Orders -> SUBSET Stamps]
    BY <1>8, <2>2 DEF TransitionWrite
  <2>5. QED
    BY <1>8, <2>3, <2>4 DEF TransitionWrite
<1>9. ASSUME NEW p \in Procs, NEW o \in Orders,
             Cancel(p, o) \/ CallMarkPaid(p, o) \/ CallCancelByRefund(p, o)
                \/ SweepSkip(p, o)
      PROVE  RowsTypeOK'
  BY <1>9 DEF Cancel, CallMarkPaid, CallCancelByRefund, SweepSkip
<1>10. ASSUME NEW p \in Procs, CancelTx(p)
       PROVE  RowsTypeOK'
  <2>1. handler[p].order \in Orders
    BY <1>10 DEF CancelTx, HandsOK, OrderHolding, At
  <2>2. QED
    BY <1>10, <2>1, CancelInternalRows DEF CancelTx
<1>11. ASSUME NEW p \in Procs, NEW o \in Orders, SweepCancel(p, o)
       PROVE  RowsTypeOK'
  BY <1>11, CancelInternalRows DEF SweepCancel
<1>12. ASSUME NEW o \in Orders, Age(o)
       PROVE  RowsTypeOK'
  BY <1>12 DEF Age
<1>13. ASSUME NEW q \in Products, Relist(q)
       PROVE  RowsTypeOK'
  BY <1>13 DEF Relist
<1>14. QED
  BY <1>1, <1>2, <1>3, <1>4, <1>5, <1>6, <1>7, <1>8, <1>9, <1>10, <1>11,
     <1>12, <1>13 DEF OrdersNext, OrderStep, OrdersController, Procs

\* The calls a step of the orders module leaves a handler with are calls of
\* the orders module; other kinds of calls are not touched.
LEMMA HandlerStep ==
    ASSUME NEW Calls, OrderCalls \subseteq Calls,
           handler \in [Procs -> Calls], HandsOK, RowsTypeOK,
           [OrdersNext]_orderVars
    PROVE  handler' \in [Procs -> Calls]
<1>1. CASE UNCHANGED orderVars
  BY <1>1 DEF orderVars
<1>2. ASSUME NEW p \in Procs, NEW h \in OrderCalls, Await(p, h)
      PROVE  handler' \in [Procs -> Calls]
  BY <1>2 DEF Await
<1>3. ASSUME NEW p \in Procs, Return(p)
      PROVE  handler' \in [Procs -> Calls]
  <2>1. Idle \in OrderCalls
    BY DEF OrderCalls
  <2>2. QED
    BY <1>2, <1>3, <2>1 DEF Return
<1>4. ASSUME NEW p \in Procs, NEW o \in Orders
      PROVE  /\ [pc |-> "markPaid", order |-> o] \in OrderCalls
             /\ [pc |-> "confirm", order |-> o] \in OrderCalls
             /\ [pc |-> "notify", order |-> o] \in OrderCalls
             /\ [pc |-> "cancelByRefund", order |-> o] \in OrderCalls
             /\ [pc |-> "cancel", order |-> o] \in OrderCalls
             /\ Idle \in OrderCalls
  BY DEF OrderCalls
<1>5. ASSUME NEW p \in Procs, NEW b \in Baskets, Create(p, b)
      PROVE  handler' \in [Procs -> Calls]
  <2>1. [pc |-> "create", basket |-> b] \in OrderCalls
    BY DEF OrderCalls
  <2>2. QED
    BY <1>2, <1>5, <2>1 DEF Create
<1>6. ASSUME NEW p \in Procs, NEW o \in Orders, NEW step \in Transitions,
             Transition(p, o, step)
      PROVE  handler' \in [Procs -> Calls]
  <2>1. [pc |-> "transition", order |-> o, step |-> step] \in OrderCalls
    BY DEF OrderCalls
  <2>2. QED
    BY <1>2, <1>6, <2>1 DEF Transition
<1>7. ASSUME NEW p \in Procs, NEW o \in Orders,
             Cancel(p, o) \/ CallMarkPaid(p, o) \/ CallCancelByRefund(p, o)
      PROVE  handler' \in [Procs -> Calls]
  BY <1>2, <1>4, <1>7 DEF Cancel, CallMarkPaid, CallCancelByRefund
<1>8. ASSUME NEW p \in Procs, MarkPaid(p) \/ CancelByRefund(p) \/ Confirm(p)
      PROVE  handler' \in [Procs -> Calls]
  <2>1. handler[p].order \in Orders
    BY <1>8 DEF MarkPaid, CancelByRefund, Confirm, HandsOK, OrderHolding, At
  <2>2. QED
    BY <1>2, <1>4, <1>8, <2>1 DEF MarkPaid, CancelByRefund, Confirm
<1>9. ASSUME NEW p \in Procs,
             \/ \E o \in Orders : CreateTx(p, o)
             \/ OutOfStock(p)
             \/ NotifySeller(p)
             \/ TransitionWrite(p)
             \/ CancelTx(p)
             \/ SweepDone(p)
             \/ Fail(p)
      PROVE  handler' \in [Procs -> Calls]
  BY <1>3, <1>9 DEF CreateTx, OutOfStock, NotifySeller, EnqueueOrderPlaced,
     TransitionWrite,
                    CancelTx, SweepDone, Fail
<1>10. ASSUME NEW p \in Procs, Sweep(p)
       PROVE  handler' \in [Procs -> Calls]
  <2>1. [pc |-> "sweep", due |-> Due] \in OrderCalls
    BY <1>10 DEF OrderCalls, Due, RowsTypeOK
  <2>2. QED
    BY <1>2, <1>10, <2>1 DEF Sweep
<1>11. ASSUME NEW p \in Procs, NEW o \in Orders,
              SweepCancel(p, o) \/ SweepSkip(p, o)
       PROVE  handler' \in [Procs -> Calls]
  <2>1. [pc |-> "sweep", due |-> handler[p].due \ {o}] \in OrderCalls
    BY <1>11 DEF OrderCalls, SweepCancel, SweepSkip, HandsOK
  <2>2. QED
    BY <1>2, <1>11, <2>1 DEF SweepCancel, SweepSkip
<1>12. ASSUME NEW o \in Orders, Age(o)
       PROVE  handler' \in [Procs -> Calls]
  BY <1>12 DEF Age
<1>13. ASSUME NEW q \in Products, Relist(q)
       PROVE  handler' \in [Procs -> Calls]
  BY <1>13 DEF Relist
<1>14. QED
  BY <1>1, <1>5, <1>6, <1>7, <1>8, <1>9, <1>10, <1>11, <1>12, <1>13
     DEF OrdersNext, OrderStep, OrdersController, Procs

\* Type correctness for any number of orders, products and handlers.  Its
\* stock \in [Products -> Nat] is the promise of the guarded decrement: no
\* interleaving of checkouts, cancellations and sweeps oversells a product.
THEOREM OrdersTyping == OrdersSpec => []OrdersTypeOK
<1>1. OrdersInit => OrdersTypeOK
  <2>1. Idle \in OrderCalls
    BY DEF OrderCalls
  <2>2. NoItems \in [Products -> 0..MaxQty]
    BY MaxQtyAssumption DEF NoItems
  <2>3. QED
    BY <2>1, <2>2, SupplyAssumption
       DEF OrdersInit, OrdersTypeOK, RowsTypeOK
<1>2. OrdersTypeOK /\ [OrdersNext]_orderVars => OrdersTypeOK'
  BY CallsHandsOK, RowsStep, HandlerStep DEF OrdersTypeOK
<1>3. QED
  BY <1>1, <1>2, PTL DEF OrdersSpec

-----------------------------------------------------------------------------
(* StagesInOrder *)

\* StagesInOrder is not inductive: a transition that was checked before writes
\* the next status on whatever the row holds by then.  What makes it safe is
\* that the stamps of the stage it read are still there, and that a handler
\* only ever holds orders that exist.
RowStages ==
    \A o \in Orders :
        /\ Trail(status[o]) \subseteq stamps[o]
        /\ status[o] \in {"NONE", "PENDING_PAYMENT"} => stamps[o] = {}

HandStages(p) ==
    /\ handler[p].pc \in OrderHolding => Exists(handler[p].order)
    /\ At(p, "sweep") => \A o \in handler[p].due : Exists(o)
    /\ At(p, "transition") =>
            Trail(handler[p].step.from) \subseteq stamps[handler[p].order]

StagesInv == RowStages /\ \A p \in Procs : HandStages(p)

\* Order rows are never deleted and no timestamp is ever cleared.
LEMMA RowsGrow ==
    ASSUME RowsTypeOK, HandsOK, [OrdersNext]_orderVars, NEW o \in Orders
    PROVE  Exists(o) => Exists(o)' /\ stamps[o] \subseteq stamps'[o]
<1> USE DEF RowsTypeOK, Exists, orderRows
<1>1. CASE UNCHANGED orderVars
  BY <1>1 DEF orderVars
<1>2. ASSUME NEW p \in Procs, NEW u \in Orders, CreateTx(p, u)
      PROVE  Exists(o) => Exists(o)' /\ stamps[o] \subseteq stamps'[o]
  BY <1>2 DEF CreateTx
<1>3. ASSUME NEW p \in Procs, Confirm(p)
      PROVE  Exists(o) => Exists(o)' /\ stamps[o] \subseteq stamps'[o]
  BY <1>3 DEF Confirm
<1>4. ASSUME NEW p \in Procs, TransitionWrite(p)
      PROVE  Exists(o) => Exists(o)' /\ stamps[o] \subseteq stamps'[o]
  <2>1. handler[p].step.to # "NONE"
    BY <1>4 DEF TransitionWrite, HandsOK, Transitions
  <2>2. QED
    BY <1>4, <2>1 DEF TransitionWrite
<1>5. ASSUME NEW u \in Orders, CancelInternal(u)
      PROVE  Exists(o) => Exists(o)' /\ stamps[o] \subseteq stamps'[o]
  BY <1>5 DEF CancelInternal
<1>6. ASSUME NEW p \in Procs, CancelTx(p)
      PROVE  Exists(o) => Exists(o)' /\ stamps[o] \subseteq stamps'[o]
  <2>1. handler[p].order \in Orders
    BY <1>6 DEF CancelTx, HandsOK, OrderHolding, At
  <2>2. QED
    BY <1>5, <1>6, <2>1 DEF CancelTx
<1>7. ASSUME NEW p \in Procs, NEW u \in Orders, SweepCancel(p, u)
      PROVE  Exists(o) => Exists(o)' /\ stamps[o] \subseteq stamps'[o]
  BY <1>5, <1>7 DEF SweepCancel
<1>8. CASE UNCHANGED orderRows
  BY <1>8
<1>9. QED
  BY <1>1, <1>2, <1>3, <1>4, <1>6, <1>7, <1>8
     DEF OrdersNext, OrderStep, OrdersController, Procs, Create, OutOfStock,
        MarkPaid,
         CancelByRefund, NotifySeller, EnqueueOrderPlaced, Transition, Cancel,
         CallMarkPaid,
         CallCancelByRefund, Sweep, SweepSkip, SweepDone, Fail, Age, Relist

\* CancelInternal leaves an order in a status its stamps account for.
LEMMA CancelInternalStages ==
    ASSUME RowsTypeOK, RowStages, NEW o \in Orders, CancelInternal(o)
    PROVE  RowStages'
BY DEF RowsTypeOK, RowStages, CancelInternal, Trail

\* No write, however stale, skips a stage of the order it writes.
LEMMA RowStagesStep ==
    ASSUME RowsTypeOK, HandsOK, StagesInv, [OrdersNext]_orderVars
    PROVE  RowStages'
<1> USE DEF RowsTypeOK, StagesInv, orderRows
<1>1. CASE UNCHANGED orderVars
  BY <1>1 DEF orderVars, RowStages
<1>2. ASSUME NEW p \in Procs, NEW o \in Orders, CreateTx(p, o)
      PROVE  RowStages'
  BY <1>2 DEF CreateTx, RowStages, Exists, Trail
<1>3. ASSUME NEW p \in Procs, Confirm(p)
      PROVE  RowStages'
  <2>1. handler[p].order \in Orders
    BY <1>3 DEF Confirm, HandsOK, OrderHolding, At
  <2>2. QED
    BY <1>3, <2>1 DEF Confirm, RowStages, Trail
<1>4. ASSUME NEW p \in Procs, TransitionWrite(p)
      PROVE  RowStages'
  <2> DEFINE o == handler[p].order
             step == handler[p].step
  <2>1. o \in Orders /\ step \in Transitions
    BY <1>4 DEF TransitionWrite, HandsOK, OrderHolding, At
  <2>2. Trail(step.from) \subseteq stamps[o]
    BY <1>4 DEF TransitionWrite, HandStages
  <2>3. Trail(step.to) = Trail(step.from) \cup {step.stamp}
    BY <2>1 DEF Transitions, Trail
  <2>4. step.to \notin {"NONE", "PENDING_PAYMENT"}
    BY <2>1 DEF Transitions
  <2>5. status' = [status EXCEPT ![o] = step.to]
        /\ stamps' = [stamps EXCEPT ![o] = @ \cup {step.stamp}]
    BY <1>4 DEF TransitionWrite
  <2> HIDE DEF o, step
  <2>6. QED
    BY <2>1, <2>2, <2>3, <2>4, <2>5 DEF RowStages
<1>5. ASSUME NEW p \in Procs, CancelTx(p)
      PROVE  RowStages'
  <2>1. handler[p].order \in Orders
    BY <1>5 DEF CancelTx, HandsOK, OrderHolding, At
  <2>2. QED
    BY <1>5, <2>1, CancelInternalStages DEF CancelTx
<1>6. ASSUME NEW p \in Procs, NEW o \in Orders, SweepCancel(p, o)
      PROVE  RowStages'
  BY <1>6, CancelInternalStages DEF SweepCancel
<1>7. CASE UNCHANGED orderRows
  BY <1>7 DEF RowStages
<1>8. QED
  BY <1>1, <1>2, <1>3, <1>4, <1>5, <1>6, <1>7
     DEF OrdersNext, OrderStep, OrdersController, Procs, Create, OutOfStock,
        MarkPaid,
         CancelByRefund, NotifySeller, EnqueueOrderPlaced, Transition, Cancel,
         CallMarkPaid,
         CallCancelByRefund, Sweep, SweepSkip, SweepDone, Fail, Age, Relist

\* What a handler holds on to stays true while others run, and is true of what
\* it picks up itself.
LEMMA HandStagesStep ==
    ASSUME NEW Calls, handler \in [Procs -> Calls],
           RowsTypeOK, HandsOK, StagesInv, [OrdersNext]_orderVars,
           NEW p \in Procs
    PROVE  HandStages(p)'
<1>1. ASSUME handler'[p] = handler[p]
      PROVE  HandStages(p)'
  BY <1>1, RowsGrow DEF HandStages, StagesInv, HandsOK, At, OrderHolding
<1>2. ASSUME handler'[p] = Idle
      PROVE  HandStages(p)'
  BY <1>2 DEF HandStages, Idle, At, OrderHolding
<1>3. ASSUME NEW o \in Orders, Exists(o), NEW pc \in OrderHolding,
             pc # "transition", handler'[p] = [pc |-> pc, order |-> o]
      PROVE  HandStages(p)'
  <2>1. Exists(o)'
    BY <1>3, RowsGrow
  <2>2. QED
    BY <1>3, <2>1 DEF HandStages, At, OrderHolding, Exists
<1>4. ASSUME NEW D \in SUBSET Orders, \A o \in D : Exists(o),
             handler'[p] = [pc |-> "sweep", due |-> D]
      PROVE  HandStages(p)'
  <2>1. \A o \in D : Exists(o)'
    BY <1>4, RowsGrow
  <2>2. QED
    BY <1>4, <2>1 DEF HandStages, At, OrderHolding, Exists
<1>5. ASSUME NEW b \in Baskets, Create(p, b)
      PROVE  HandStages(p)'
  BY <1>5 DEF Create, Await, HandStages, At, OrderHolding
<1>6. ASSUME NEW o \in Orders, NEW step \in Transitions,
             Transition(p, o, step)
      PROVE  HandStages(p)'
  <2>1. Trail(step.from) \subseteq stamps'[o]
    BY <1>6 DEF Transition, StagesInv, RowStages, orderRows
  <2>2. Exists(o)'
    BY <1>6 DEF Transition, Exists, orderRows, Transitions
  <2>3. handler'[p] = [pc |-> "transition", order |-> o, step |-> step]
    BY <1>6 DEF Transition, Await
  <2>4. QED
    BY <2>1, <2>2, <2>3 DEF HandStages, At, Exists, OrderHolding
<1>7. ASSUME NEW o \in Orders,
             Cancel(p, o) \/ CallMarkPaid(p, o) \/ CallCancelByRefund(p, o)
      PROVE  HandStages(p)'
  BY <1>3, <1>7 DEF Cancel, CallMarkPaid, CallCancelByRefund, Await, Exists,
                    Cancellable, OrderHolding
<1>8. ASSUME MarkPaid(p) \/ CancelByRefund(p) \/ Confirm(p)
      PROVE  HandStages(p)'
  <2>1. handler[p].order \in Orders /\ Exists(handler[p].order)
    BY <1>8 DEF MarkPaid, CancelByRefund, Confirm, HandsOK, OrderHolding, At,
                StagesInv, HandStages
  <2>2. QED
    BY <1>2, <1>3, <1>8, <2>1
       DEF MarkPaid, CancelByRefund, Confirm, Await, OrderHolding
<1>9. ASSUME \/ \E o \in Orders : CreateTx(p, o)
             \/ OutOfStock(p)
             \/ NotifySeller(p)
             \/ TransitionWrite(p)
             \/ CancelTx(p)
             \/ SweepDone(p)
             \/ Fail(p)
      PROVE  HandStages(p)'
  BY <1>2, <1>9 DEF CreateTx, OutOfStock, NotifySeller, EnqueueOrderPlaced,
     TransitionWrite,
                    CancelTx, SweepDone, Fail, Return, Await
<1>10. CASE Sweep(p)
  <2>1. Due \in SUBSET Orders /\ \A o \in Due : Exists(o)
    BY DEF Due, Exists, RowsTypeOK
  <2>2. QED
    BY <1>4, <1>10, <2>1 DEF Sweep, Await
<1>11. ASSUME NEW o \in Orders, SweepCancel(p, o) \/ SweepSkip(p, o)
       PROVE  HandStages(p)'
  <2>1. /\ handler[p].due \ {o} \in SUBSET Orders
        /\ \A u \in handler[p].due \ {o} : Exists(u)
    BY <1>11 DEF SweepCancel, SweepSkip, HandsOK, StagesInv, HandStages
  <2>2. QED
    BY <1>4, <1>11, <2>1 DEF SweepCancel, SweepSkip, Await
<1>12. ASSUME handler'[p] # handler[p]
       PROVE  HandStages(p)'
  <2>1. ASSUME NEW r \in Procs, NEW h, Await(r, h)
        PROVE  r = p
    BY <1>12, <2>1 DEF Await
  <2>2. QED
    BY <1>5, <1>6, <1>7, <1>8, <1>9, <1>10, <1>11, <1>12, <2>1
       DEF OrdersNext, OrderStep, OrdersController, orderVars, Procs, Create,
          CreateTx,
           OutOfStock, CallMarkPaid, MarkPaid, Confirm, NotifySeller,
           EnqueueOrderPlaced,
           Transition, TransitionWrite, Cancel, CallCancelByRefund,
           CancelByRefund, CancelTx, Sweep, SweepCancel, SweepSkip, SweepDone,
           Fail, Age, Relist, Return
<1>13. QED
  BY <1>1, <1>12

\* Rows and pending calls together are inductive.
LEMMA StagesInvStep ==
    ASSUME NEW Calls, handler \in [Procs -> Calls],
           RowsTypeOK, HandsOK, StagesInv, [OrdersNext]_orderVars
    PROVE  StagesInv'
BY RowStagesStep, HandStagesStep DEF StagesInv, Procs

\* No stage of an order is ever skipped, whatever handlers overlap on it, and
\* an order once paid, shipped or cancelled never becomes payable again.
THEOREM StagesAlwaysInOrder == OrdersSpec => []StagesInOrder
<1>1. OrdersInit => StagesInv
  BY DEF OrdersInit, StagesInv, RowStages, HandStages, Idle, At, OrderHolding,
         Trail
<1>2. OrdersTypeOK /\ StagesInv /\ [OrdersNext]_orderVars => StagesInv'
  BY CallsHandsOK, StagesInvStep DEF OrdersTypeOK
<1>3. StagesInv => StagesInOrder
  BY DEF StagesInv, RowStages, StagesInOrder
<1>4. QED
  BY <1>1, <1>2, <1>3, OrdersTyping, PTL DEF OrdersSpec

-----------------------------------------------------------------------------
(* Units held by a finite set of orders *)

\* The units of product q in the orders of S, when order o holds held[o].
UnitsIn(held, q, S) == MapThenSumSet(LAMBDA o : held[o][q], S)

Picked(S) == CHOOSE x \in S : TRUE

\* F sums up the subsets of S in the way of MapThenSumSet.
SumsUp(F, held, q, S) ==
    F = [T \in SUBSET S |->
            IF T = {} THEN 0 ELSE held[Picked(T)][q] + F[T \ {Picked(T)}]]

Sums(held, q, S) == CHOOSE F : SumsUp(F, held, q, S)

\* What the fold amounts to.
LEMMA UnitsBySums ==
    ASSUME NEW held, NEW q, NEW S
    PROVE  UnitsIn(held, q, S) = Sums(held, q, S)[S]
BY DEF UnitsIn, MapThenSumSet, MapThenFoldSet, Sums, SumsUp, Picked

\* Induction over finite sets: a family of them has a least one.
LEMMA SmallestSet ==
    ASSUME NEW Family, Family # {}, \A T \in Family : IsFiniteSet(T)
    PROVE  \E T \in Family : \A U \in Family : U \subseteq T => U = T
<1> DEFINE S == UNION Family
<1>1. Family \subseteq FiniteSubsetsOf(S)
  BY DEF FiniteSubsetsOf
<1>2. \E T \in Family :
        \A U \in Family : ~(<<U, T>> \in StrictSubsetOrdering(S))
  <2> HIDE DEF S
  <2> QED BY <1>1, FS_StrictSubsetOrderingWellFounded, WFMin
<1>3. QED
  BY <1>2 DEF StrictSubsetOrdering

\* What the fold does next.
LEMMA PickedAway ==
    ASSUME NEW T, T # {}
    PROVE  Picked(T) \in T /\ T \ {Picked(T)} \subseteq T /\ T \ {Picked(T)} # T
BY DEF Picked

\* The sums over the subsets of S are those over the subsets of a part of S.
LEMMA SumsAgree ==
    ASSUME NEW held, NEW q, NEW S, IsFiniteSet(S), NEW R \in SUBSET S,
           NEW F, SumsUp(F, held, q, S), NEW G, SumsUp(G, held, q, R)
    PROVE  \A T \in SUBSET R : F[T] = G[T]
<1> DEFINE Differ == {T \in SUBSET R : F[T] # G[T]}
<1>1. SUFFICES ASSUME Differ # {} PROVE FALSE
  OBVIOUS
<1>2. \A T \in Differ : IsFiniteSet(T)
  BY FS_Subset
<1>3. PICK T \in Differ : \A U \in Differ : U \subseteq T => U = T
  <2>1. Differ # {}
    BY <1>1
  <2> HIDE DEF Differ
  <2>2. QED
    BY <1>2, <2>1, SmallestSet
<1>4. T # {}
  BY DEF SumsUp
<1>5. F[T \ {Picked(T)}] = G[T \ {Picked(T)}]
  BY <1>3, <1>4, PickedAway
<1>6. F[T] = G[T]
  BY <1>4, <1>5, PickedAway DEF SumsUp
<1>7. QED
  BY <1>6

\* The recursion has a solution: for the least set without one, put it together
\* from those of its subsets.
LEMMA SumsExist ==
    ASSUME NEW held, NEW q, NEW S, IsFiniteSet(S)
    PROVE  SumsUp(Sums(held, q, S), held, q, S)
<1> DEFINE Undefined == {T \in SUBSET S : ~\E F : SumsUp(F, held, q, T)}
<1>1. SUFFICES ASSUME Undefined # {} PROVE FALSE
  BY DEF Sums
<1>2. \A T \in Undefined : IsFiniteSet(T)
  BY FS_Subset
<1>3. PICK T \in Undefined : \A U \in Undefined : U \subseteq T => U = T
  <2> HIDE DEF Undefined
  <2> QED BY <1>1, <1>2, SmallestSet
<1> DEFINE f(U) == Sums(held, q, U)
<1> DEFINE G == [U \in SUBSET T |->
                    IF U = {} THEN 0
                    ELSE held[Picked(U)][q] + f(U \ {Picked(U)})[U \ {Picked(U)}]]
<1>4. ASSUME NEW U \in SUBSET T, U # T
      PROVE  SumsUp(f(U), held, q, U)
  BY <1>3, <1>4 DEF Sums
<1>5. ASSUME NEW U \in SUBSET T, U # {}
      PROVE  f(U \ {Picked(U)})[U \ {Picked(U)}] = G[U \ {Picked(U)}]
  <2> DEFINE V == U \ {Picked(U)}
  <2>1. V \in SUBSET T /\ V # T /\ IsFiniteSet(V)
    BY <1>5, <1>2, PickedAway, FS_Subset
  <2>2. CASE V = {}
    BY <1>4, <2>1, <2>2 DEF SumsUp
  <2>3. CASE V # {}
    <3> DEFINE W == V \ {Picked(V)}
    <3>1. W \in SUBSET V /\ W # T
      BY <2>1, <2>3, PickedAway
    <3>2. SumsUp(f(V), held, q, V) /\ SumsUp(f(W), held, q, W)
      BY <1>4, <2>1, <3>1
    <3>3. f(V)[W] = f(W)[W]
      <4> HIDE DEF f, V, W
      <4> QED BY <2>1, <3>1, <3>2, SumsAgree
    <3>4. f(V)[V] = held[Picked(V)][q] + f(V)[W]
      BY <2>3, <3>2 DEF SumsUp
    <3>5. G[V] = held[Picked(V)][q] + f(W)[W]
      BY <2>1, <2>3
    <3>6. QED
      BY <3>3, <3>4, <3>5
  <2>4. QED
    BY <2>2, <2>3
<1>6. SumsUp(G, held, q, T)
  <2> HIDE DEF f
  <2> QED BY <1>5 DEF SumsUp
<1>7. QED
  BY <1>3, <1>6

\* No orders, no units.
LEMMA UnitsOfNone ==
    ASSUME NEW held, NEW q
    PROVE  UnitsIn(held, q, {}) = 0
<1>1. SumsUp(Sums(held, q, {}), held, q, {})
  BY SumsExist, FS_EmptySet
<1>2. Sums(held, q, {})[{}] = 0
  BY <1>1 DEF SumsUp
<1>3. QED
  BY <1>2, UnitsBySums

\* One round of the fold.
LEMMA UnitsPicked ==
    ASSUME NEW held, NEW q, NEW S, IsFiniteSet(S), S # {}
    PROVE  UnitsIn(held, q, S)
                = held[Picked(S)][q] + UnitsIn(held, q, S \ {Picked(S)})
<1> DEFINE R == S \ {Picked(S)}
<1>1. R \in SUBSET S /\ IsFiniteSet(R)
  BY FS_Subset
<1>2. SumsUp(Sums(held, q, S), held, q, S) /\ SumsUp(Sums(held, q, R), held, q, R)
  BY <1>1, SumsExist
<1>3. Sums(held, q, S)[R] = Sums(held, q, R)[R]
  BY <1>1, <1>2, SumsAgree
<1>4. Sums(held, q, S)[S] = held[Picked(S)][q] + Sums(held, q, S)[R]
  BY <1>2 DEF SumsUp
<1>5. QED
  BY <1>3, <1>4, UnitsBySums

\* The sum does not depend on the order in which the fold picks the orders.
LEMMA UnitsWithout ==
    ASSUME NEW held, NEW q, NEW S, IsFiniteSet(S),
           \A o \in S : held[o][q] \in Nat
    PROVE  /\ UnitsIn(held, q, S) \in Nat
           /\ \A o \in S :
                UnitsIn(held, q, S) = held[o][q] + UnitsIn(held, q, S \ {o})
<1> DEFINE Sum(T) == UnitsIn(held, q, T)
           Fair(T) == /\ Sum(T) \in Nat
                      /\ \A o \in T : Sum(T) = held[o][q] + Sum(T \ {o})
           Unfair == {T \in SUBSET S : ~Fair(T)}
<1>1. SUFFICES ASSUME Unfair # {} PROVE FALSE
  OBVIOUS
<1>2. \A T \in Unfair : IsFiniteSet(T)
  BY FS_Subset
<1>3. PICK T \in Unfair : \A U \in Unfair : U \subseteq T => U = T
  <2>1. Unfair # {}
    BY <1>1
  <2> HIDE DEF Unfair
  <2>2. QED
    BY <1>2, <2>1, SmallestSet
<1>4. \A U \in SUBSET T : U # T => Fair(U)
  BY <1>3
<1>5. Fair({})
  BY UnitsOfNone
<1>6. T # {}
  BY <1>5
<1> DEFINE c == Picked(T)
<1>7. c \in T /\ Sum(T) = held[c][q] + Sum(T \ {c})
  BY <1>2, <1>6, UnitsPicked, PickedAway
<1>8. \A x \in T : T \ {x} \in SUBSET T /\ T \ {x} # T
  OBVIOUS
<1>9. \A x \in T : Sum(T \ {x}) \in Nat /\ held[x][q] \in Nat
  BY <1>4, <1>8
<1>10. ASSUME NEW x \in T, x # c
       PROVE  Sum(T) = held[x][q] + Sum(T \ {x})
  <2> DEFINE R == (T \ {c}) \ {x}
  <2>1. Sum(T \ {c}) = held[x][q] + Sum(R)
    BY <1>4, <1>7, <1>8, <1>10
  <2>2. Sum(T \ {x}) = held[c][q] + Sum((T \ {x}) \ {c})
    BY <1>4, <1>7, <1>8, <1>10
  <2>3. (T \ {x}) \ {c} = R
    OBVIOUS
  <2>4. Sum(R) \in Nat
    BY <1>4, <1>7
  <2>5. Sum(T) = held[c][q] + (held[x][q] + Sum(R))
    BY <1>7, <2>1
  <2>6. Sum(T \ {x}) = held[c][q] + Sum(R)
    BY <2>2, <2>3
  <2>7. held[c][q] \in Nat /\ held[x][q] \in Nat
    BY <1>7, <1>9
  <2> HIDE DEF Sum, R, c
  <2>8. QED
    BY <2>4, <2>5, <2>6, <2>7
<1>11. Fair(T)
  <2>1. Sum(T) \in Nat
    BY <1>7, <1>9
  <2>2. QED
    BY <1>7, <1>10, <2>1
<1>12. QED
  BY <1>11

\* One more order adds what it holds.
LEMMA UnitsWith ==
    ASSUME NEW held, NEW q, NEW S, IsFiniteSet(S), NEW o, o \notin S,
           \A r \in S \cup {o} : held[r][q] \in Nat
    PROVE  UnitsIn(held, q, S \cup {o}) = held[o][q] + UnitsIn(held, q, S)
<1>1. IsFiniteSet(S \cup {o})
  BY FS_AddElement
<1>2. (S \cup {o}) \ {o} = S
  OBVIOUS
<1>3. QED
  BY <1>1, <1>2, UnitsWithout

\* Only what the orders of S hold matters.
LEMMA UnitsSame ==
    ASSUME NEW held, NEW other, NEW q, NEW S, IsFiniteSet(S),
           \A o \in S : held[o][q] = other[o][q]
    PROVE  UnitsIn(held, q, S) = UnitsIn(other, q, S)
<1> DEFINE Differ ==
        {T \in SUBSET S : UnitsIn(held, q, T) # UnitsIn(other, q, T)}
<1>1. SUFFICES ASSUME Differ # {} PROVE FALSE
  OBVIOUS
<1>2. \A T \in Differ : IsFiniteSet(T)
  BY FS_Subset
<1>3. PICK T \in Differ : \A U \in Differ : U \subseteq T => U = T
  <2>1. Differ # {}
    BY <1>1
  <2> HIDE DEF Differ
  <2>2. QED
    BY <1>2, <2>1, SmallestSet
<1>4. T # {}
  BY UnitsOfNone
<1>5. UnitsIn(held, q, T \ {Picked(T)}) = UnitsIn(other, q, T \ {Picked(T)})
  BY <1>3, <1>4, PickedAway
<1>6. UnitsIn(held, q, T) = UnitsIn(other, q, T)
  BY <1>2, <1>4, <1>5, UnitsPicked, PickedAway
<1>7. QED
  BY <1>6

-----------------------------------------------------------------------------
(* Stock *)

Holding == {o \in Orders : Exists(o) /\ status[o] # "CANCELLED"}

\* The units of q on the shelf and in orders that are not cancelled.
Balance(q) == stock[q] + HeldUnits(q)

\* Only finitely many orders were ever placed.
FinitelyMany == IsFiniteSet({o \in Orders : Exists(o)})

\* What a step may do to the ledger: a checkout takes stock for a new order, a
\* write of a status leaves stock and items alone, a cancellation gives back.
Placed(o, b) ==
    /\ ~Exists(o)
    /\ stock' = [r \in Products |-> stock[r] - b[r]]
    /\ status' = [status EXCEPT ![o] = "PENDING_PAYMENT"]
    /\ items' = [items EXCEPT ![o] = b]

Advanced(o, s) ==
    /\ s \notin {"NONE", "CANCELLED"}
    /\ status' = [status EXCEPT ![o] = s]
    /\ UNCHANGED <<stock, items>>

Cancelled(o) ==
    /\ status' = [status EXCEPT ![o] = "CANCELLED"]
    /\ stock' = [r \in Products |-> stock[r] + items[o][r]]
    /\ UNCHANGED items

LedgerStep ==
    \/ \E o \in Orders, b \in [Products -> 0..MaxQty] : Placed(o, b)
    \/ \E o \in Orders, s \in Statuses : Advanced(o, s)
    \/ \E o \in Orders : Cancelled(o)
    \/ UNCHANGED <<stock, status, items>>

\* The sum of the ledger, before and after a step.
LEMMA BalanceByHolding ==
    ASSUME NEW q
    PROVE  /\ Balance(q) = stock[q] + UnitsIn(items, q, Holding)
           /\ Balance(q)' = stock'[q] + UnitsIn(items', q, Holding')
<1>1. HeldUnits(q) = UnitsIn(items, q, Holding)
  BY DEF HeldUnits, UnitsIn, Holding
<1>2. HeldUnits(q)' = UnitsIn(items', q, Holding')
  BY DEF HeldUnits, UnitsIn, Holding, Exists, MapThenSumSet, MapThenFoldSet
<1>3. QED
  BY <1>1, <1>2 DEF Balance

\* Holding is finite, and what its orders hold are numbers.
LEMMA HoldingFinite ==
    ASSUME RowsTypeOK, FinitelyMany, NEW q \in Products
    PROVE  /\ IsFiniteSet(Holding)
           /\ \A o \in Orders : items[o][q] \in Nat
           /\ stock[q] \in Nat
           /\ UnitsIn(items, q, Holding) \in Nat
<1>1. IsFiniteSet(Holding)
  BY FS_Subset DEF Holding, FinitelyMany
<1>2. \A o \in Orders : items[o][q] \in Nat
  BY MaxQtyAssumption DEF RowsTypeOK
<1>3. Holding \subseteq Orders
  BY DEF Holding
<1>4. QED
  BY <1>1, <1>2, <1>3, UnitsWithout DEF RowsTypeOK

\* An order is placed: what it takes is what it holds.
LEMMA PlacedBalance ==
    ASSUME RowsTypeOK, FinitelyMany, NEW o \in Orders,
           NEW b \in [Products -> 0..MaxQty], Placed(o, b), NEW q \in Products
    PROVE  Balance(q)' = Balance(q)
<1> USE DEF Placed
<1>1. Holding' = Holding \cup {o} /\ o \notin Holding
  BY DEF Holding, Exists, RowsTypeOK
<1>2. b[q] \in Nat /\ items'[o][q] = b[q]
  BY MaxQtyAssumption DEF RowsTypeOK
<1> DEFINE n == UnitsIn(items, q, Holding)
<1>3. IsFiniteSet(Holding) /\ stock[q] \in Nat /\ n \in Nat
  BY HoldingFinite
<1>4. \A r \in Orders : items[r][q] \in Nat
  BY HoldingFinite
<1>5. \A r \in Orders : r # o => items'[r] = items[r]
  BY DEF RowsTypeOK
<1>6. \A r \in Holding : r \in Orders /\ r # o
  BY <1>1 DEF Holding
<1>7. \A r \in Holding : items'[r][q] = items[r][q]
  BY <1>5, <1>6
<1>8. UnitsIn(items', q, Holding) = n
  <2>1. ASSUME NEW held, \A r \in Holding : held[r][q] = items[r][q]
        PROVE  UnitsIn(held, q, Holding) = n
    BY <1>3, <2>1, UnitsSame
  <2>2. QED
    BY <1>7, <2>1
<1>9. \A r \in Holding \cup {o} : items'[r][q] \in Nat
  BY <1>2, <1>4, <1>6, <1>7
<1>10. UnitsIn(items', q, Holding \cup {o}) = items'[o][q] + UnitsIn(items', q, Holding)
  <2>1. ASSUME NEW held, \A r \in Holding \cup {o} : held[r][q] \in Nat
        PROVE  UnitsIn(held, q, Holding \cup {o})
                    = held[o][q] + UnitsIn(held, q, Holding)
    BY <1>1, <1>3, <2>1, UnitsWith
  <2>2. QED
    BY <1>9, <2>1
<1>11. stock'[q] = stock[q] - b[q]
  OBVIOUS
<1>12. Balance(q) = stock[q] + n
  BY BalanceByHolding
<1>13. Balance(q)' = stock'[q] + (b[q] + n)
  BY <1>1, <1>2, <1>8, <1>10, BalanceByHolding
<1> HIDE DEF n
<1>14. QED
  BY <1>2, <1>3, <1>11, <1>12, <1>13

\* An order is written as held: if it already was, nothing changes; if it had
\* been cancelled, its units are there twice.
LEMMA AdvancedBalance ==
    ASSUME RowsTypeOK, FinitelyMany, NEW o \in Orders,
           NEW s, Advanced(o, s), NEW q \in Products
    PROVE  /\ o \in Holding => Balance(q)' = Balance(q)
           /\ Balance(q)' \in Nat /\ Balance(q)' >= Balance(q)
<1> USE DEF Advanced
<1>1. Holding' = Holding \cup {o}
  BY DEF Holding, Exists, RowsTypeOK
<1>2. CASE o \in Holding
  <2>1. Holding' = Holding
    BY <1>1, <1>2
  <2>2. QED
    BY <2>1, HoldingFinite, BalanceByHolding
<1>3. CASE o \notin Holding
  <2>1. \A r \in Holding \cup {o} : items[r][q] \in Nat
    BY HoldingFinite DEF Holding
  <2>2. UnitsIn(items, q, Holding') = items[o][q] + UnitsIn(items, q, Holding)
    BY <1>1, <1>3, <2>1, HoldingFinite, UnitsWith
  <2>3. QED
    BY <1>3, <2>2, HoldingFinite, BalanceByHolding
<1>4. QED
  BY <1>2, <1>3

\* An order is cancelled: what it puts back is what it held, or, if it held
\* nothing any more, too much.
LEMMA CancelledBalance ==
    ASSUME RowsTypeOK, FinitelyMany, NEW o \in Orders, Cancelled(o),
           NEW q \in Products
    PROVE  /\ o \in Holding => Balance(q)' = Balance(q)
           /\ Balance(q)' \in Nat /\ Balance(q)' >= Balance(q)
<1> USE DEF Cancelled
<1>1. Holding' = Holding \ {o}
  BY DEF Holding, Exists, RowsTypeOK
<1>2. stock'[q] = stock[q] + items[o][q]
  OBVIOUS
<1>3. Balance(q) = stock[q] + UnitsIn(items, q, Holding)
  BY BalanceByHolding
<1>4. Balance(q)' = (stock[q] + items[o][q]) + UnitsIn(items, q, Holding')
  BY <1>2, BalanceByHolding
<1>5. /\ IsFiniteSet(Holding)
      /\ items[o][q] \in Nat
      /\ stock[q] \in Nat
      /\ UnitsIn(items, q, Holding) \in Nat
  BY HoldingFinite
<1>6. \A r \in Holding : items[r][q] \in Nat
  BY HoldingFinite DEF Holding
<1>7. CASE o \in Holding
  <2>1. UnitsIn(items, q, Holding)
            = items[o][q] + UnitsIn(items, q, Holding \ {o})
    BY <1>5, <1>6, <1>7, UnitsWithout
  <2>2. IsFiniteSet(Holding \ {o})
    BY <1>5, FS_Subset
  <2>3. UnitsIn(items, q, Holding \ {o}) \in Nat
    BY <1>6, <2>2, UnitsWithout
  <2>4. Balance(q)' = (stock[q] + items[o][q]) + UnitsIn(items, q, Holding \ {o})
    BY <1>1, <1>4
  <2>5. Balance(q)' = Balance(q)
    BY <1>3, <1>5, <2>1, <2>3, <2>4
  <2>6. Balance(q) \in Nat
    BY <1>3, <1>5
  <2>7. QED
    BY <2>5, <2>6
<1>8. CASE o \notin Holding
  <2>1. Holding' = Holding
    BY <1>1, <1>8
  <2>2. QED
    BY <1>3, <1>4, <1>5, <1>8, <2>1
<1>9. QED
  BY <1>7, <1>8

\* Whatever a handler read before, its write is one of the three.
LEMMA LedgerSteps ==
    ASSUME HandsOK, [OrdersNext]_orderVars
    PROVE  LedgerStep
<1>1. CASE UNCHANGED <<stock, status, items>>
  BY <1>1 DEF LedgerStep
<1>2. ASSUME NEW p \in Procs, NEW o \in Orders, CreateTx(p, o)
      PROVE  LedgerStep
  <2> DEFINE b == handler[p].basket
  <2>1. b \in [Products -> 0..MaxQty]
    BY <1>2 DEF CreateTx, HandsOK, Baskets
  <2>2. Placed(o, b)
    BY <1>2 DEF CreateTx, Placed
  <2> HIDE DEF b
  <2>3. QED
    BY <2>1, <2>2 DEF LedgerStep
<1>3. ASSUME NEW p \in Procs, Confirm(p)
      PROVE  LedgerStep
  <2> DEFINE o == handler[p].order
  <2>1. o \in Orders
    BY <1>3 DEF Confirm, HandsOK, OrderHolding, At
  <2>2. Advanced(o, "CONFIRMED")
    BY <1>3 DEF Confirm, Advanced
  <2> HIDE DEF o
  <2>3. QED
    BY <2>1, <2>2 DEF LedgerStep, Statuses
<1>4. ASSUME NEW p \in Procs, TransitionWrite(p)
      PROVE  LedgerStep
  <2> DEFINE o == handler[p].order
             s == handler[p].step.to
  <2>1. o \in Orders /\ handler[p].step \in Transitions
    BY <1>4 DEF TransitionWrite, HandsOK, OrderHolding, At
  <2>2. s \in Statuses /\ s \notin {"NONE", "CANCELLED"}
    BY <2>1 DEF Transitions, Statuses
  <2>3. Advanced(o, s)
    BY <1>4, <2>2 DEF TransitionWrite, Advanced
  <2> HIDE DEF o, s
  <2>4. QED
    BY <2>1, <2>2, <2>3 DEF LedgerStep
<1>5. ASSUME NEW o \in Orders, CancelInternal(o)
      PROVE  LedgerStep
  BY <1>5 DEF CancelInternal, Cancelled, LedgerStep
<1>6. ASSUME NEW p \in Procs, CancelTx(p)
      PROVE  LedgerStep
  <2>1. handler[p].order \in Orders
    BY <1>6 DEF CancelTx, HandsOK, OrderHolding, At
  <2>2. QED
    BY <1>5, <1>6, <2>1 DEF CancelTx
<1>7. ASSUME NEW p \in Procs, NEW o \in Orders, SweepCancel(p, o)
      PROVE  LedgerStep
  BY <1>5, <1>7 DEF SweepCancel
<1>8. QED
  BY <1>1, <1>2, <1>3, <1>4, <1>6, <1>7
     DEF OrdersNext, OrderStep, OrdersController, orderVars, orderRows, Create,
         OutOfStock, MarkPaid, CancelByRefund, NotifySeller, Transition,
         Cancel, CallMarkPaid, CallCancelByRefund, Sweep, SweepSkip, SweepDone,
         Fail, Age, Relist

\* A step places at most one order.
LEMMA FinitelyManyStep ==
    ASSUME RowsTypeOK, FinitelyMany, LedgerStep
    PROVE  FinitelyMany'
<1> DEFINE Known == {o \in Orders : Exists(o)}
<1> SUFFICES IsFiniteSet(Known')
  BY DEF FinitelyMany, Exists
<1>1. IsFiniteSet(Known)
  BY DEF FinitelyMany
<1>2. ASSUME NEW o \in Orders, NEW s, status' = [status EXCEPT ![o] = s]
      PROVE  IsFiniteSet(Known')
  <2>1. Known' \subseteq Known \cup {o}
    BY <1>2 DEF Exists, RowsTypeOK
  <2>2. IsFiniteSet(Known \cup {o})
    BY <1>1, FS_AddElement
  <2>3. QED
    BY <2>1, <2>2, FS_Subset
<1>3. CASE UNCHANGED status
  BY <1>1, <1>3 DEF Exists
<1>4. QED
  BY <1>2, <1>3 DEF LedgerStep, Placed, Advanced, Cancelled

\* No step takes a unit out of the ledger.
LEMMA BalanceGrows ==
    ASSUME RowsTypeOK, FinitelyMany, LedgerStep, NEW q \in Products
    PROVE  Balance(q)' \in Nat /\ Balance(q)' >= Balance(q)
<1>1. Balance(q) \in Nat
  BY HoldingFinite, BalanceByHolding
<1>2. CASE UNCHANGED <<stock, status, items>>
  <2>1. Balance(q)' = Balance(q)
    BY <1>2, BalanceByHolding DEF Holding, Exists
  <2>2. QED
    BY <1>1, <2>1
<1>3. ASSUME NEW o \in Orders, NEW b \in [Products -> 0..MaxQty], Placed(o, b)
      PROVE  Balance(q)' \in Nat /\ Balance(q)' >= Balance(q)
  BY <1>1, <1>3, PlacedBalance
<1>4. ASSUME NEW o \in Orders, NEW s \in Statuses, Advanced(o, s)
      PROVE  Balance(q)' \in Nat /\ Balance(q)' >= Balance(q)
  BY <1>4, AdvancedBalance
<1>5. ASSUME NEW o \in Orders, Cancelled(o)
      PROVE  Balance(q)' \in Nat /\ Balance(q)' >= Balance(q)
  BY <1>5, CancelledBalance
<1>6. QED
  BY <1>2, <1>3, <1>4, <1>5 DEF LedgerStep

\* Before the first order everything is on the shelf.
LEMMA BalanceAtFirst ==
    ASSUME OrdersInit
    PROVE  FinitelyMany /\ \A q \in Products : Balance(q) = Supply[q]
<1>1. Holding = {} /\ {o \in Orders : Exists(o)} = {}
  BY DEF OrdersInit, Holding, Exists
<1>2. FinitelyMany
  BY <1>1, FS_EmptySet DEF FinitelyMany
<1>3. ASSUME NEW q \in Products
      PROVE  Balance(q) = Supply[q]
  <2>1. Balance(q) = stock[q] + 0
    BY <1>1, BalanceByHolding, UnitsOfNone
  <2>2. QED
    BY <2>1, SupplyAssumption DEF OrdersInit
<1>4. QED
  BY <1>2, <1>3

\* The ledger itself is almost inductive: besides the types it needs that the
\* orders it sums over are finitely many.
LedgerInv == FinitelyMany /\ NoUnitLost

LEMMA LedgerInvStep ==
    ASSUME RowsTypeOK, HandsOK, LedgerInv, [OrdersNext]_orderVars
    PROVE  LedgerInv'
<1>1. LedgerStep
  BY LedgerSteps
<1>2. FinitelyMany'
  BY <1>1, FinitelyManyStep DEF LedgerInv
<1>3. ASSUME NEW q \in Products
      PROVE  Balance(q)' >= Supply[q]
  <2>1. Balance(q) >= Supply[q] /\ Supply[q] \in Nat
    BY SupplyAssumption DEF LedgerInv, NoUnitLost, Balance
  <2>2. Balance(q)' \in Nat /\ Balance(q)' >= Balance(q)
    BY <1>1, BalanceGrows DEF LedgerInv
  <2>3. Balance(q) \in Nat
    BY HoldingFinite, BalanceByHolding DEF LedgerInv
  <2>4. QED
    BY <2>1, <2>2, <2>3
<1>4. QED
  BY <1>2, <1>3 DEF LedgerInv, NoUnitLost, Balance

\* No interleaving of checkouts, cancellations, sweeps and stale writes, and no
\* failure at any await, ever loses a unit of stock, for any number of orders,
\* products and handlers: what is not on the shelf is held by an order that is
\* not cancelled.
THEOREM StockIsNeverLost == OrdersSpec => []NoUnitLost
<1>1. OrdersInit => LedgerInv
  <2>1. ASSUME OrdersInit
        PROVE  \A q \in Products : Balance(q) >= Supply[q]
    BY <2>1, BalanceAtFirst, SupplyAssumption
  <2>2. QED
    BY <2>1, BalanceAtFirst DEF LedgerInv, NoUnitLost, Balance
<1>2. OrdersTypeOK /\ LedgerInv /\ [OrdersNext]_orderVars => LedgerInv'
  BY CallsHandsOK, LedgerInvStep DEF OrdersTypeOK
<1>3. LedgerInv => NoUnitLost
  BY DEF LedgerInv
<1>4. QED
  BY <1>1, <1>2, <1>3, OrdersTyping, PTL DEF OrdersSpec

=============================================================================
