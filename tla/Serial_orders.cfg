SPECIFICATION SerialSpec
CONSTANTS
    Products = {q1}
    Orders = {o1, o2}
    Handlers = {h1, h2}
    Worker = w
    MaxQty = 2
    Units = 3
    Supply <- SupplyDef
    SweepEnabled = TRUE
SYMMETRY Symmetry
INVARIANTS
    NeverOversold
    RestoredExactlyOnce
    SellerToldOnce
    StockConserved
PROPERTIES
    ImplementsLifecycle
