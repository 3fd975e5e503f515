--------------------------- MODULE OrderPromises ----------------------------
(***************************************************************************)
(* The stock ledger over all orders, and what the documentation and the     *)
(* comments promise of orders, each promise stated on its own.              *)
(***************************************************************************)
EXTENDS Orders, FiniteSetsExt

\* Units of product q held by orders that are not cancelled.
HeldUnits(q) ==
    MapThenSumSet(LAMBDA o : items[o][q],
                  {o \in Orders : Exists(o) /\ status[o] # "CANCELLED"})

\* No interleaving and no failure half way loses stock: every unit of the
\* initial supply is on the shelf or held by an order that is not cancelled.
NoUnitLost == \A q \in Products : stock[q] + HeldUnits(q) >= Supply[q]

\* docs.html.ts "Cancelled before shipment (with stock restored)": checkout
\* takes, and cancellation puts back, exactly what was ordered, so every unit
\* is on the shelf or held by an order that is not cancelled, and only once.
StockConserved == \A q \in Products : stock[q] + HeldUnits(q) = Supply[q]

\* docs.html.ts "Concurrent orders for the last unit of a product can't both
\* succeed": the orders that are not cancelled never hold more than there is.
\* The guarded decrement alone does not give this, for what it guards is the
\* stock column, and a unit put back twice is sold twice.
NeverOversold == \A q \in Products : HeldUnits(q) <= Supply[q]

\* The comments in and on markPaid: it fires the order-placed SMS and email and
\* is idempotent, so the seller is told of an order at most once.
SellerToldOnce == \A o \in Orders : notified[o] <= 1

=============================================================================
