--------------------------- MODULE MCSerialOrders ---------------------------
(* A small instance of SerialOrders. *)
EXTENDS SerialOrders, OrderPromises, TLC

CONSTANTS Units     \* initial stock of every product

SupplyDef == [q \in Products |-> Units]

Symmetry == Permutations(Handlers) \cup Permutations(Orders)

=============================================================================
