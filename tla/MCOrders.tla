------------------------------ MODULE MCOrders ------------------------------
(* Small instances of Orders. *)
EXTENDS OrderPromises, TLC

CONSTANTS Units     \* initial stock of every product

SupplyDef == [q \in Products |-> Units]

\* The state without the two histories, which no action reads.
NoHistory == <<onSale, stock, orderRows, aged, handler>>

\* The worker runs sweeps; its calls of markPaid are left to the runs of Payments.
WorkerSweeps == At(Worker, "idle") \/ At(Worker, "sweep")

Symmetry == Permutations(Handlers) \cup Permutations(Orders)

=============================================================================
