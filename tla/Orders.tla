------------------------------- MODULE Orders -------------------------------
(***************************************************************************)
(* OrdersService (src/src/orders/orders.service.ts): checkout, the seller's *)
(* fulfilment steps, cancellation, the abandoned-cart sweep, and the two    *)
(* entry points the payments service calls (markPaid, cancelByRefund).      *)
(*                                                                          *)
(* A handler is an async method.  It runs without interruption between two  *)
(* awaits, so every await ends an action: what a handler read before it is   *)
(* kept in handler[p] and may be stale when the handler resumes.  A          *)
(* prisma.$transaction is one action.  A handler can be dropped at any await *)
(* (a rejected query, a killed process): Fail.                              *)
(***************************************************************************)
EXTENDS Integers, FiniteSets

CONSTANTS
    Products,       \* product rows
    Orders,         \* order identities, each used at most once
    Handlers,       \* HTTP requests in flight
    Worker,         \* the worker of the payments queue: one job at a time
    Supply,         \* Supply[q]: the stock of q before the first order
    MaxQty,         \* bound on the quantity of one product in one order
    SweepEnabled    \* ABANDONED_CART_GRACE_HOURS > 0

ASSUME WorkerIsNoRequest == Worker \notin Handlers
ASSUME SupplyAssumption == Supply \in [Products -> Nat]
ASSUME MaxQtyAssumption == MaxQty \in Nat \ {0}
ASSUME SweepEnabledAssumption == SweepEnabled \in BOOLEAN

Procs == Handlers \cup {Worker}

VARIABLES
    onSale,     \* products that are active and whose store is active
    stock,      \* Product.stock
    status,     \* Order.status, "NONE" before the row exists
    items,      \* the quantities of the order's OrderItem rows
    stamps,     \* which of the order's timestamp columns are set
    aged,       \* orders older than the abandoned-cart grace period
    handler,    \* what each handler has in hand at its await
    restored,   \* history: how often an order's items went back to stock
    notified    \* history: how often the seller was told of an order

orderRows == <<status, items, stamps>>
orderVars == <<onSale, stock, status, items, stamps, aged, handler, restored,
               notified>>

Statuses == {"PENDING_PAYMENT", "CONFIRMED", "SHIPPED", "OUT_FOR_DELIVERY",
             "DELIVERED", "CANCELLED"}
Stamps == {"paidAt", "shippedAt", "outForDeliveryAt", "deliveredAt",
           "cancelledAt"}
Cancellable == {"PENDING_PAYMENT", "CONFIRMED"}

\* ship, outForDelivery and deliver: the status each requires, the one it
\* writes and the timestamp it sets.
Transitions ==
    {[from |-> "CONFIRMED", to |-> "SHIPPED", stamp |-> "shippedAt"],
     [from |-> "SHIPPED", to |-> "OUT_FOR_DELIVERY",
      stamp |-> "outForDeliveryAt"],
     [from |-> "OUT_FOR_DELIVERY", to |-> "DELIVERED",
      stamp |-> "deliveredAt"]}

NoItems == [q \in Products |-> 0]
\* dto.items has at least one line and every quantity is at least 1; lines for
\* the same product add up.
Baskets == [Products -> 0..MaxQty] \ {NoItems}

Idle == [pc |-> "idle"]
OrderCalls ==
    {Idle}
    \cup [pc : {"create"}, basket : Baskets]
    \cup [pc : {"markPaid", "confirm", "notify", "cancelByRefund", "cancel"},
          order : Orders]
    \cup [pc : {"transition"}, order : Orders, step : Transitions]
    \cup [pc : {"sweep"}, due : SUBSET Orders]

\* Handler p goes on to its next await with h in hand.
Await(p, h) == handler' = [handler EXCEPT ![p] = h]
Return(p) == Await(p, Idle)
At(p, pc) == handler[p].pc = pc
Exists(o) == status[o] # "NONE"

OrdersInit ==
    /\ onSale = Products
    /\ stock = Supply
    /\ status = [o \in Orders |-> "NONE"]
    /\ items = [o \in Orders |-> NoItems]
    /\ stamps = [o \in Orders |-> {}]
    /\ aged = {}
    /\ handler = [p \in Procs |-> Idle]
    /\ restored = [o \in Orders |-> 0]
    /\ notified = [o \in Orders |-> 0]

-----------------------------------------------------------------------------
(* Checkout *)

\* create, up to the transaction: the store and every product are active.
Create(p, b) ==
    /\ p \in Handlers
    /\ At(p, "idle")
    /\ \A q \in Products : b[q] > 0 => q \in onSale
    /\ Await(p, [pc |-> "create", basket |-> b])
    /\ UNCHANGED <<onSale, stock, orderRows, aged, restored, notified>>

\* Mutant: the decrement's guard only asks for some stock.
InStockAtAll(b) == \A q \in Products : b[q] > 0 => stock[q] > 0

InStock(b) == \A q \in Products : stock[q] >= b[q]

\* The transaction of create, when every guarded decrement finds its row.
CreateTx(p, o) ==
    /\ At(p, "create")
    /\ ~Exists(o)
    /\ InStock(handler[p].basket)
    /\ stock' = [q \in Products |-> stock[q] - handler[p].basket[q]]
    /\ status' = [status EXCEPT ![o] = "PENDING_PAYMENT"]
    /\ items' = [items EXCEPT ![o] = handler[p].basket]
    /\ Return(p)
    /\ UNCHANGED <<onSale, stamps, aged, restored, notified>>

\* A decrement updates no row: ConflictException, everything rolled back.
OutOfStock(p) ==
    /\ At(p, "create")
    /\ ~InStock(handler[p].basket)
    /\ Return(p)
    /\ UNCHANGED <<onSale, stock, orderRows, aged, restored, notified>>

-----------------------------------------------------------------------------
(* Payment confirmed *)

\* markPaid is called by the payments service.
CallMarkPaid(p, o) ==
    /\ At(p, "idle")
    /\ Exists(o)
    /\ Await(p, [pc |-> "markPaid", order |-> o])
    /\ UNCHANGED <<onSale, stock, orderRows, aged, restored, notified>>

\* Mutant: markPaid returns early only for cancelled orders.
MarkPaidUnlessCancelled(p) ==
    /\ At(p, "markPaid")
    /\ Await(p, IF status[handler[p].order] # "CANCELLED"
                THEN [pc |-> "confirm", order |-> handler[p].order]
                ELSE Idle)
    /\ UNCHANGED <<onSale, stock, orderRows, aged, restored, notified>>

\* markPaid reads the order; anything but PENDING_PAYMENT is an early return.
MarkPaid(p) ==
    /\ At(p, "markPaid")
    /\ Await(p, IF status[handler[p].order] = "PENDING_PAYMENT"
                THEN [pc |-> "confirm", order |-> handler[p].order]
                ELSE Idle)
    /\ UNCHANGED <<onSale, stock, orderRows, aged, restored, notified>>

\* markPaid's update: by id alone, whatever the status has become.
Confirm(p) ==
    LET o == handler[p].order IN
    /\ At(p, "confirm")
    /\ status' = [status EXCEPT ![o] = "CONFIRMED"]
    /\ stamps' = [stamps EXCEPT ![o] = @ \cup {"paidAt"}]
    /\ Await(p, [pc |-> "notify", order |-> o])
    /\ UNCHANGED <<onSale, stock, items, aged, restored, notified>>

\* The SMS, to a verified number only, and the email are enqueued; an error of
\* the queue is caught and nobody is told.
EnqueueOrderPlaced(o) ==
    \/ notified' = [notified EXCEPT ![o] = @ + 1]
    \/ UNCHANGED notified

NotifySeller(p) ==
    /\ At(p, "notify")
    /\ EnqueueOrderPlaced(handler[p].order)
    /\ Return(p)
    /\ UNCHANGED <<onSale, stock, orderRows, aged, restored>>

-----------------------------------------------------------------------------
(* Fulfilment *)

\* Mutant: the check only keeps unpaid and cancelled orders out.
TransitionOfAnyPaid(p, o, step) ==
    /\ p \in Handlers
    /\ At(p, "idle")
    /\ status[o] \in {"CONFIRMED", "SHIPPED", "OUT_FOR_DELIVERY"}
    /\ Await(p, [pc |-> "transition", order |-> o, step |-> step])
    /\ UNCHANGED <<onSale, stock, orderRows, aged, restored, notified>>

\* transitionByStoreOwner: the read and the check of ship, outForDelivery and
\* deliver, by the store's owner or an admin.
Transition(p, o, step) ==
    /\ p \in Handlers
    /\ At(p, "idle")
    /\ status[o] = step.from
    /\ Await(p, [pc |-> "transition", order |-> o, step |-> step])
    /\ UNCHANGED <<onSale, stock, orderRows, aged, restored, notified>>

\* Its update, by id alone.
TransitionWrite(p) ==
    LET o == handler[p].order
        step == handler[p].step
    IN
    /\ At(p, "transition")
    /\ status' = [status EXCEPT ![o] = step.to]
    /\ stamps' = [stamps EXCEPT ![o] = @ \cup {step.stamp}]
    /\ Return(p)
    /\ UNCHANGED <<onSale, stock, items, aged, restored, notified>>

-----------------------------------------------------------------------------
(* Cancellation *)

\* Mutant: a shipped order may still be cancelled.
CancelUntilDelivered(p, o) ==
    /\ p \in Handlers
    /\ At(p, "idle")
    /\ status[o] \in Cancellable \cup {"SHIPPED"}
    /\ Await(p, [pc |-> "cancel", order |-> o])
    /\ UNCHANGED <<onSale, stock, orderRows, aged, restored, notified>>

\* cancel by the buyer, the store's owner or an admin: read and check.
Cancel(p, o) ==
    /\ p \in Handlers
    /\ At(p, "idle")
    /\ status[o] \in Cancellable
    /\ Await(p, [pc |-> "cancel", order |-> o])
    /\ UNCHANGED <<onSale, stock, orderRows, aged, restored, notified>>

\* cancelByRefund is called by the payments service after a refund.
CallCancelByRefund(p, o) ==
    /\ At(p, "idle")
    /\ Exists(o)
    /\ Await(p, [pc |-> "cancelByRefund", order |-> o])
    /\ UNCHANGED <<onSale, stock, orderRows, aged, restored, notified>>

\* Mutant: cancelByRefund trusts its caller.
CancelByRefundUnchecked(p) ==
    /\ At(p, "cancelByRefund")
    /\ Await(p, [pc |-> "cancel", order |-> handler[p].order])
    /\ UNCHANGED <<onSale, stock, orderRows, aged, restored, notified>>

\* cancelByRefund reads the order again and leaves a shipped one alone.
CancelByRefund(p) ==
    /\ At(p, "cancelByRefund")
    /\ Await(p, IF status[handler[p].order] \in Cancellable
                THEN [pc |-> "cancel", order |-> handler[p].order]
                ELSE Idle)
    /\ UNCHANGED <<onSale, stock, orderRows, aged, restored, notified>>

\* Mutants: the order is cancelled and its stock left out; the stock is taken
\* once more.
CancelKeepsStock(o) ==
    /\ restored' = [restored EXCEPT ![o] = @ + 1]
    /\ status' = [status EXCEPT ![o] = "CANCELLED"]
    /\ stamps' = [stamps EXCEPT ![o] = @ \cup {"cancelledAt"}]
    /\ UNCHANGED <<onSale, stock, items, aged, notified>>

CancelTakesStock(o) ==
    /\ stock' = [q \in Products |-> stock[q] - items[o][q]]
    /\ restored' = [restored EXCEPT ![o] = @ + 1]
    /\ status' = [status EXCEPT ![o] = "CANCELLED"]
    /\ stamps' = [stamps EXCEPT ![o] = @ \cup {"cancelledAt"}]
    /\ UNCHANGED <<onSale, items, aged, notified>>

\* The transaction of cancelInternal: every item goes back to stock and the
\* order is CANCELLED, whatever its status has become.
CancelInternal(o) ==
    /\ stock' = [q \in Products |-> stock[q] + items[o][q]]
    /\ restored' = [restored EXCEPT ![o] = @ + 1]
    /\ status' = [status EXCEPT ![o] = "CANCELLED"]
    /\ stamps' = [stamps EXCEPT ![o] = @ \cup {"cancelledAt"}]
    /\ UNCHANGED <<onSale, items, aged, notified>>

CancelTx(p) ==
    /\ At(p, "cancel")
    /\ CancelInternal(handler[p].order)
    /\ Return(p)

\* Mutant: the comparison with the cutoff the wrong way round.
DueYoung == {o \in Orders \ aged : status[o] = "PENDING_PAYMENT"}

\* cancelAbandoned reads the due orders once, for the whole sweep.
Due == {o \in aged : status[o] = "PENDING_PAYMENT"}

Sweep(p) ==
    /\ p = Worker
    /\ SweepEnabled
    /\ At(p, "idle")
    /\ Due # {}
    /\ Await(p, [pc |-> "sweep", due |-> Due])
    /\ UNCHANGED <<onSale, stock, orderRows, aged, restored, notified>>

\* One round of its loop.  It does not look at the order again.
SweepCancel(p, o) ==
    /\ At(p, "sweep")
    /\ o \in handler[p].due
    /\ CancelInternal(o)
    /\ Await(p, [pc |-> "sweep", due |-> handler[p].due \ {o}])

\* A round whose transaction failed: logged, and the sweep goes on.
SweepSkip(p, o) ==
    /\ At(p, "sweep")
    /\ o \in handler[p].due
    /\ Await(p, [pc |-> "sweep", due |-> handler[p].due \ {o}])
    /\ UNCHANGED <<onSale, stock, orderRows, aged, restored, notified>>

SweepDone(p) ==
    /\ At(p, "sweep")
    /\ handler[p].due = {}
    /\ Return(p)
    /\ UNCHANGED <<onSale, stock, orderRows, aged, restored, notified>>

-----------------------------------------------------------------------------
(* The environment *)

\* A query rejects, or the process dies, while p awaits.
Fail(p) ==
    /\ ~At(p, "idle")
    /\ Return(p)
    /\ UNCHANGED <<onSale, stock, orderRows, aged, restored, notified>>

\* The grace period of an unpaid order passes (the age of others is not read).
Age(o) ==
    /\ status[o] = "PENDING_PAYMENT"
    /\ o \notin aged
    /\ aged' = aged \cup {o}
    /\ UNCHANGED <<onSale, stock, orderRows, handler, restored, notified>>

\* A seller, or the KYC expiry of the seller, takes a product off sale; a
\* seller puts it back.
Relist(q) ==
    /\ onSale' = IF q \in onSale THEN onSale \ {q} ELSE onSale \cup {q}
    /\ UNCHANGED <<stock, orderRows, aged, handler, restored, notified>>

-----------------------------------------------------------------------------
\* What OrdersService does on its own account.
\* What a request may ask for; the other routes only read.
OrdersController(p) ==
    \/ \E b \in Baskets : Create(p, b)
    \/ \E o \in Orders, step \in Transitions : Transition(p, o, step)
    \/ \E o \in Orders : Cancel(p, o)

OrderStep ==
    \/ \E p \in Procs :
        \/ OrdersController(p)
        \/ \E o \in Orders : CreateTx(p, o)
        \/ OutOfStock(p)
        \/ MarkPaid(p)
        \/ Confirm(p)
        \/ NotifySeller(p)
        \/ TransitionWrite(p)
        \/ CancelByRefund(p)
        \/ CancelTx(p)
        \/ Sweep(p)
        \/ \E o \in Orders : SweepCancel(p, o)
        \/ \E o \in Orders : SweepSkip(p, o)
        \/ SweepDone(p)
    \/ \E o \in Orders : Age(o)
    \/ \E q \in Products : Relist(q)

\* Alone, the orders module takes any call from payments, by a request or by the
\* worker: markPaid for any existing order, cancelByRefund for any existing order.
OrdersNext ==
    \/ OrderStep
    \/ \E p \in Procs : Fail(p)
    \/ \E p \in Procs, o \in Orders :
        CallMarkPaid(p, o) \/ CallCancelByRefund(p, o)

OrdersSpec == OrdersInit /\ [][OrdersNext]_orderVars

-----------------------------------------------------------------------------
(* Properties *)

RowsTypeOK ==
    /\ onSale \subseteq Products
    /\ stock \in [Products -> Nat]
    /\ status \in [Orders -> Statuses \cup {"NONE"}]
    /\ items \in [Orders -> [Products -> 0..MaxQty]]
    /\ stamps \in [Orders -> SUBSET Stamps]
    /\ aged \subseteq Orders
    /\ restored \in [Orders -> Nat]
    /\ notified \in [Orders -> Nat]

\* The type invariant.  That stock is in Nat says that the column never goes
\* below zero, which is what checkout's guard looks after.  It does not say that
\* nothing is sold twice: see NeverOversold.
OrdersTypeOK == RowsTypeOK /\ handler \in [Procs -> OrderCalls]

\* What must have happened to an order in each status.
Trail(s) ==
    CASE s = "CONFIRMED" -> {"paidAt"}
      [] s = "SHIPPED" -> {"paidAt", "shippedAt"}
      [] s = "OUT_FOR_DELIVERY" -> {"paidAt", "shippedAt", "outForDeliveryAt"}
      [] s = "DELIVERED" -> {"paidAt", "shippedAt", "outForDeliveryAt",
                             "deliveredAt"}
      [] s = "CANCELLED" -> {"cancelledAt"}
      [] OTHER -> {}

\* However ship, out-for-delivery, deliver, markPaid and the cancellations of
\* one order interleave, no stage is skipped: an order is in a status only if
\* every earlier stage took place, and an order that was ever paid, shipped
\* or cancelled is never payable again.
StagesInOrder ==
    \A o \in Orders :
        /\ Trail(status[o]) \subseteq stamps[o]
        /\ status[o] = "PENDING_PAYMENT" => stamps[o] = {}

=============================================================================
