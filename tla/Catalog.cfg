SPECIFICATION Spec
CONSTANTS
    Products = {1}
    Handlers = {h1, h2}
    Script = s
    ItemTtl = 2
    ListTtl = 1
    FillTime = 1
    BatchSize = 1
    MaxVersion = 2
    MaxTasks = 1
SYMMETRY Symmetry
VIEW Relevant
INVARIANTS
    TypeOK
    StaleAtMostTtl
    IndexFollows
