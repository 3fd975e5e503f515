---------------------------- MODULE SerialOrders ----------------------------
(***************************************************************************)
(* The orders module when no two handlers have the same order in hand: they *)
(* may still fail at any await, and handlers of different orders interleave *)
(* and compete for stock.  Nothing in the code enforces this; it is the     *)
(* condition under which the code keeps the documented lifecycle, and what  *)
(* a lock per order or a status check in each update would provide.         *)
(***************************************************************************)
EXTENDS Orders

\* The orders on which p is between a read and the write that relies on it.
InHand(p) ==
    CASE At(p, "sweep") -> handler[p].due
      [] handler[p].pc \in {"markPaid", "confirm", "transition",
                            "cancelByRefund", "cancel"} -> {handler[p].order}
      [] OTHER -> {}

NoOverlap ==
    \A p, r \in Procs : p # r => InHand(p) \cap InHand(r) = {}

SerialNext == OrdersNext /\ NoOverlap'

SerialSpec == OrdersInit /\ [][SerialNext]_orderVars

Lifecycle == INSTANCE OrderLifecycle

-----------------------------------------------------------------------------
(* Properties *)

\* Without overlap the handlers of OrdersService implement the documented
\* lifecycle: each operation takes effect in one step, at its write.
ImplementsLifecycle == Lifecycle!Spec

\* Without overlap the items of an order go back to stock exactly when it is
\* cancelled and exactly once, whichever of the buyer, a refund or the sweep
\* cancels it, and whichever of them fails half way.
RestoredExactlyOnce ==
    \A o \in Orders : restored[o] = IF status[o] = "CANCELLED" THEN 1 ELSE 0

=============================================================================
