SPECIFICATION Spec
CONSTANTS
    Products = {q1}
    Orders = {o1}
    Handlers = {h1}
    Worker = w
    MaxQty = 1
    Units = 1
    Supply <- SupplyDef
    SweepEnabled = TRUE
    Payments = {m1, m2}
    Providers = {"PAYSTACK"}
    OrderOf <- OrderOfDef
    ProviderOf <- ProviderOfDef
SYMMETRY Symmetry
INVARIANTS
    TypeOK
    PaidOnlyIfCharged
    ClaimsAreBacked
