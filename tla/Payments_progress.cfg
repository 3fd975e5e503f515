SPECIFICATION ProgressSpec
CONSTANTS
    Products = {q1}
    Orders = {o1}
    Handlers = {h1}
    Worker = w
    MaxQty = 1
    Units = 1
    Supply <- SupplyDef
    SweepEnabled = TRUE
    Payments = {m1}
    Providers = {"FLUTTERWAVE"}
    OrderOf <- OrderOfDef
    ProviderOf <- ProviderOfDef
PROPERTIES
    StuckOrdersResolved
    AbandonedReleased
    ImplementsOrders
