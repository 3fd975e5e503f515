------------------------- MODULE MCPaymentsProgress -------------------------
(* Small instances of PaymentsProgress. *)
EXTENDS PaymentsProgress, TLC

CONSTANTS Units     \* initial stock of every product

SupplyDef == [q \in Products |-> Units]

TheOrder == CHOOSE o \in Orders : TRUE
OrderOfDef == [m \in Payments |-> TheOrder]

TheProvider == CHOOSE v \in Providers : TRUE
ProviderOfDef == [m \in Payments |-> TheProvider]

=============================================================================
