----------------------------- MODULE MCPayments -----------------------------
(* Small instances of Payments. *)
EXTENDS PaymentPromises, TLC

CONSTANTS Units     \* initial stock of every product

SupplyDef == [q \in Products |-> Units]

TheOrder == CHOOSE o \in Orders : TRUE
OrderOfDef == [m \in Payments |-> TheOrder]

TheProvider == CHOOSE v \in Providers : TRUE
ProviderOfDef == [m \in Payments |-> TheProvider]

Symmetry == Permutations(Handlers) \cup Permutations(Payments)

=============================================================================
