SPECIFICATION FairSpec
CONSTANTS
    Users = {u1}
    Handlers = {h1, h2}
    Worker = w
    Term = 3
    Offsets = {1, 2}
    MaxDay = 7
INVARIANTS
    TypeOK
    ApprovedIsSeller
    RemindedOnce
    StoresFollowRole
PROPERTIES
    ApprovalLasts
    LapsedExpires
