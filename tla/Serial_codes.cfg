SPECIFICATION SerialSpec
CONSTANTS
    Users = {u1, u2}
    Phones = {p1, p2}
    Handlers = {h1, h2}
    NoUser = NoUser
    NoPhone = NoPhone
    MaxAttempts = 2
    MaxCodes = 2
SYMMETRY Symmetry
VIEW Relevant
INVARIANTS
    CodesTypeOK
    VerifiedByCode
    AcceptedOnce
PROPERTIES
    ImplementsCodeInForce
