SPECIFICATION OrdersSpec
CONSTANTS
    Products = {q1}
    Orders = {o1, o2}
    Handlers = {h1, h2}
    Worker = w
    MaxQty = 2
    Units = 1
    Supply <- SupplyDef
    SweepEnabled = TRUE
SYMMETRY Symmetry
VIEW NoHistory
CONSTRAINT WorkerSweeps
INVARIANTS
    OrdersTypeOK
    StagesInOrder
    NoUnitLost

