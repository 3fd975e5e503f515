SPECIFICATION LinksFairSpec
CONSTANTS
    Users = {u1}
    NoUser = nobody
    Links = {l1, l2, l3}
    Messages = {l1, l2, l3}
    Handlers = {h1, h2}
    Attempts = 2
CHECK_DEADLOCK FALSE
INVARIANTS
    LinksTypeOK
    OneGoodLink
    LinkAvailable
PROPERTIES
    QueuedIsSettled
