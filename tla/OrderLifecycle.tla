--------------------------- MODULE OrderLifecycle ---------------------------
(***************************************************************************)
(* What the API documentation promises of an order (src/src/docs.html.ts,   *)
(* "States" of the orders page): every operation is one step, each status   *)
(* has the listed next statuses only, checkout takes the ordered quantities *)
(* out of stock and a cancellation puts them back.                          *)
(***************************************************************************)
EXTENDS Integers

CONSTANTS Products, Orders, Supply, MaxQty

VARIABLES stock, status, items

lifecycleVars == <<stock, status, items>>

NothingOrdered == [q \in Products |-> 0]

Init ==
    /\ stock = Supply
    /\ status = [o \in Orders |-> "NONE"]
    /\ items = [o \in Orders |-> NothingOrdered]

\* The whole order succeeds or none of it does.
Place(o, basket) ==
    /\ status[o] = "NONE"
    /\ \A q \in Products : basket[q] <= stock[q]
    /\ stock' = [q \in Products |-> stock[q] - basket[q]]
    /\ status' = [status EXCEPT ![o] = "PENDING_PAYMENT"]
    /\ items' = [items EXCEPT ![o] = basket]

Advance(o, from, to) ==
    /\ status[o] = from
    /\ status' = [status EXCEPT ![o] = to]
    /\ UNCHANGED <<stock, items>>

CancelOrder(o) ==
    /\ status[o] \in {"PENDING_PAYMENT", "CONFIRMED"}
    /\ status' = [status EXCEPT ![o] = "CANCELLED"]
    /\ stock' = [q \in Products |-> stock[q] + items[o][q]]
    /\ UNCHANGED items

Next ==
    \E o \in Orders :
        \/ \E basket \in [Products -> 0..MaxQty] : Place(o, basket)
        \/ Advance(o, "PENDING_PAYMENT", "CONFIRMED")
        \/ Advance(o, "CONFIRMED", "SHIPPED")
        \/ Advance(o, "SHIPPED", "OUT_FOR_DELIVERY")
        \/ Advance(o, "OUT_FOR_DELIVERY", "DELIVERED")
        \/ CancelOrder(o)

Spec == Init /\ [][Next]_lifecycleVars

=============================================================================
