SPECIFICATION Spec
CONSTANTS
    Users = {u}
    NoUser = nobody
    Devices = {d1}
    NoDevice = none
    Sessions = {s1, s2}
    Handlers = {h1, h2}
    AccessTtl = 1
    RequestTime = 1
    MaxPasswords = 2
SYMMETRY Symmetry
INVARIANTS
    TypeOK
    AccessEnds
    PasswordEndsSessions
    FirstUseAlerted
