SPECIFICATION OrdersSpec
CONSTANTS
    Products = {q1}
    Orders = {o1}
    Handlers = {h1, h2}
    Worker = w
    MaxQty = 1
    Units = 1
    Supply <- SupplyDef
    SweepEnabled = TRUE
INVARIANT
    StockConserved
